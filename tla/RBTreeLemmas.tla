---------------------------- MODULE RBTreeLemmas -----------------------------
(***************************************************************************)
(* Lemmas about a red-black tree as a value: what one store does to a      *)
(* tree, what a sequence of stores leads to, what rotations, insertions    *)
(* and erasures make of the shape, the colours and the order of a tree,    *)
(* and what each step of the code puts into its sequence of stores.  The   *)
(* proofs about the calls, in RBTreeProofs, are built from them.           *)
(***************************************************************************)
EXTENDS RBTree, SumLemmas, SequenceTheorems

-----------------------------------------------------------------------------
(* A tree as a value, and what one store does to it.                       *)

Ptr == Nodes \cup {Nil}

Trees == [root : Ptr, leftmost : Ptr,
          node : [Nodes -> [left : Ptr, right : Ptr, parent : Ptr, red : BOOLEAN]]]

StoreSet ==
  [field : {"root", "leftmost"}, to : Ptr]
    \cup [field : Sides, at : Nodes, to : Ptr]
    \cup [field : {"pc"}, at : Nodes, to : Ptr, red : BOOLEAN]

Kid(t, n, side) == t.node[n][side]
Up(t, n) == t.node[n].parent
Hue(t, n) == t.node[n].red
Red(t, n) == n # Nil /\ Hue(t, n)

Exec(t, s) ==
  CASE s.field = "root" -> [t EXCEPT !.root = s.to]
    [] s.field = "leftmost" -> [t EXCEPT !.leftmost = s.to]
    [] s.field = "pc" ->
         [t EXCEPT !.node[s.at] = [@ EXCEPT !.parent = s.to, !.red = s.red]]
    [] s.field \in Sides -> [t EXCEPT !.node[s.at][s.field] = s.to]

SameAnchors(t, u) == u.root = t.root /\ u.leftmost = t.leftmost
SameKids(t, u) == \A m \in Nodes, side \in Sides : Kid(u, m, side) = Kid(t, m, side)
SameUp(t, u) == \A m \in Nodes : Up(u, m) = Up(t, m) /\ Hue(u, m) = Hue(t, m)

LEMMA TreeType ==
  ASSUME NEW t \in Trees
  PROVE  /\ t.root \in Ptr /\ t.leftmost \in Ptr
         /\ \A n \in Nodes : Up(t, n) \in Ptr /\ Hue(t, n) \in BOOLEAN
         /\ \A n \in Nodes, side \in Sides : Kid(t, n, side) \in Ptr
BY DEF Trees, Kid, Up, Hue, Sides

LEMMA ExecIs ==
  ASSUME NEW t, NEW s
  PROVE  /\ s.field = "root" => Exec(t, s) = [t EXCEPT !.root = s.to]
         /\ s.field = "leftmost" => Exec(t, s) = [t EXCEPT !.leftmost = s.to]
         /\ s.field = "pc" =>
              Exec(t, s) =
                [t EXCEPT !.node[s.at] = [@ EXCEPT !.parent = s.to, !.red = s.red]]
         /\ s.field \in Sides =>
              Exec(t, s) = [t EXCEPT !.node[s.at][s.field] = s.to]
<1>1. CASE s.field = "root"
      BY <1>1, Zenon DEF Exec, Sides
<1>2. CASE s.field = "leftmost"
      BY <1>2, Zenon DEF Exec, Sides
<1>3. CASE s.field = "pc"
      BY <1>3, Zenon DEF Exec, Sides
<1>4. CASE s.field \in Sides
      BY <1>4, Zenon DEF Exec, Sides
<1> QED BY <1>1, <1>2, <1>3, <1>4

LEMMA ExecRoot ==
  ASSUME NEW t \in Trees, NEW s, s.field \in {"root", "leftmost"}, s.to \in Ptr,
         NEW u, u = Exec(t, s)
  PROVE  /\ u \in Trees /\ SameKids(t, u) /\ SameUp(t, u)
         /\ u.root = IF s.field = "root" THEN s.to ELSE t.root
         /\ u.leftmost = IF s.field = "leftmost" THEN s.to ELSE t.leftmost
<1>1. /\ s.field = "root" => u = [t EXCEPT !.root = s.to]
      /\ s.field = "leftmost" => u = [t EXCEPT !.leftmost = s.to]
      BY ExecIs
<1> QED BY <1>1 DEF Trees, SameKids, SameUp, Kid, Up, Hue

LEMMA ExecUp ==
  ASSUME NEW t \in Trees, NEW s, s.field = "pc", s.at \in Nodes, s.to \in Ptr,
         s.red \in BOOLEAN, NEW u, u = Exec(t, s)
  PROVE  /\ u \in Trees /\ SameKids(t, u) /\ SameAnchors(t, u)
         /\ \A m \in Nodes :
              /\ Up(u, m) = (IF m = s.at THEN s.to ELSE Up(t, m))
              /\ Hue(u, m) = (IF m = s.at THEN s.red ELSE Hue(t, m))
<1>1. u = [t EXCEPT !.node[s.at] = [@ EXCEPT !.parent = s.to, !.red = s.red]]
      BY ExecIs
<1>2. PICK x : x = [t.node[s.at] EXCEPT !.parent = s.to, !.red = s.red]
      OBVIOUS
<1>3. /\ x \in [left : Ptr, right : Ptr, parent : Ptr, red : BOOLEAN]
      /\ x.left = t.node[s.at].left /\ x.right = t.node[s.at].right
      /\ x.parent = s.to /\ x.red = s.red
      BY <1>2 DEF Trees
<1>4. u = [t EXCEPT !.node[s.at] = x]
      BY <1>1, <1>2, Zenon
<1>5. /\ u \in Trees /\ u.root = t.root /\ u.leftmost = t.leftmost
      /\ u.node = [t.node EXCEPT ![s.at] = x]
      BY <1>3, <1>4 DEF Trees
<1> QED BY <1>3, <1>5 DEF Trees, SameKids, SameAnchors, Kid, Up, Hue, Sides

LEMMA ExecKid ==
  ASSUME NEW t \in Trees, NEW n \in Nodes, NEW side \in Sides, NEW c \in Ptr,
         NEW u, u = Exec(t, [field |-> side, at |-> n, to |-> c])
  PROVE  /\ u \in Trees /\ SameUp(t, u) /\ SameAnchors(t, u)
         /\ \A m \in Nodes, s \in Sides :
              Kid(u, m, s) = IF m = n /\ s = side THEN c ELSE Kid(t, m, s)
<1>0. PICK x : x = [field |-> side, at |-> n, to |-> c]
      OBVIOUS
<1>a. u = Exec(t, x) /\ x.field = side /\ x.at = n /\ x.to = c
      BY <1>0
<1>1. u = [t EXCEPT !.node[n][side] = c]
      BY <1>a, ExecIs
<1>2. CASE side = "left"
  <2>1. /\ u \in Trees /\ u.root = t.root /\ u.leftmost = t.leftmost
        /\ u.node = [t.node EXCEPT ![n]["left"] = c]
        BY <1>1, <1>2 DEF Trees, Ptr
  <2> QED BY <1>2, <2>1 DEF Trees, Ptr, SameUp, SameAnchors, Kid, Up, Hue, Sides
<1>3. CASE side = "right"
  <2>1. /\ u \in Trees /\ u.root = t.root /\ u.leftmost = t.leftmost
        /\ u.node = [t.node EXCEPT ![n]["right"] = c]
        BY <1>1, <1>3 DEF Trees, Ptr
  <2> QED BY <1>3, <2>1 DEF Trees, Ptr, SameUp, SameAnchors, Kid, Up, Hue, Sides
<1> QED BY <1>2, <1>3 DEF Sides

LEMMA ExecType ==
  ASSUME NEW t \in Trees, NEW s \in StoreSet
  PROVE  Exec(t, s) \in Trees
<1>1. CASE s \in [field : {"root", "leftmost"}, to : Ptr]
  <2>1. s.field \in {"root", "leftmost"} /\ s.to \in Ptr
        BY <1>1
  <2> QED BY <2>1, ExecRoot
<1>2. CASE s \in [field : Sides, at : Nodes, to : Ptr]
  <2>1. /\ s.field \in Sides /\ s.at \in Nodes /\ s.to \in Ptr
        /\ s = [field |-> s.field, at |-> s.at, to |-> s.to]
        BY <1>2
  <2> QED BY <2>1, ExecKid
<1>3. CASE s \in [field : {"pc"}, at : Nodes, to : Ptr, red : BOOLEAN]
  <2>1. /\ s.at \in Nodes /\ s.to \in Ptr /\ s.red \in BOOLEAN
        /\ s.field = "pc"
        BY <1>3
  <2> QED BY <2>1, ExecUp
<1> QED BY <1>1, <1>2, <1>3 DEF StoreSet

LEMMA ExecutedIs == \A s : Executed(s) = Exec(tree, s)
BY Zenon DEF Executed, Exec

-----------------------------------------------------------------------------
(* Trees without loops, and the trees that a sequence of stores leads to.  *)

(* r ranks t: a child has a smaller rank than the node that points to it.  *)
Ranks(r, t) ==
  /\ r \in [Nodes -> Nat]
  /\ \A n \in Nodes, side \in Sides :
       Kid(t, n, side) \in Nodes => r[Kid(t, n, side)] < r[n]

Ranked(t) == \E r \in [Nodes -> Nat] : Ranks(r, t)

Leads(t, s, u) ==
  /\ s \in Seq(StoreSet)
  /\ \E tr \in [0 .. Len(s) -> Trees] :
       /\ tr[0] = t /\ tr[Len(s)] = u
       /\ \A k \in 1 .. Len(s) : tr[k] = Exec(tr[k - 1], s[k])
       /\ \A k \in 0 .. Len(s) : Ranked(tr[k])

LEMMA RanksRanked == ASSUME NEW r, NEW t, Ranks(r, t) PROVE Ranked(t)
BY DEF Ranks, Ranked

LEMMA RanksKeep ==
  ASSUME NEW t, NEW u, NEW r, Ranks(r, t), SameKids(t, u)
  PROVE  Ranks(r, u)
BY DEF Ranks, SameKids

LEMMA LeadsNil ==
  ASSUME NEW t \in Trees, Ranked(t)
  PROVE  Leads(t, <<>>, t)
<1>1. <<>> \in Seq(StoreSet) /\ Len(<<>>) = 0
      OBVIOUS
<1>2. PICK tr : tr = [k \in 0 .. 0 |-> t]
      OBVIOUS
<1>3. /\ tr \in [0 .. 0 -> Trees] /\ tr[0] = t
      /\ \A k \in 0 .. 0 : Ranked(tr[k])
      BY <1>2
<1> QED BY <1>1, <1>3 DEF Leads

LEMMA LeadsOne ==
  ASSUME NEW t \in Trees, NEW x \in StoreSet, Ranked(t), Ranked(Exec(t, x))
  PROVE  Leads(t, <<x>>, Exec(t, x))
<1>1. PICK s : s = <<x>>
      OBVIOUS
<1>2. s \in Seq(StoreSet) /\ Len(s) = 1 /\ s[1] = x
      BY <1>1
<1>3. PICK tr : tr = [k \in 0 .. 1 |-> IF k = 0 THEN t ELSE Exec(t, x)]
      OBVIOUS
<1>4. /\ tr \in [0 .. 1 -> Trees] /\ tr[0] = t /\ tr[1] = Exec(t, x)
      BY <1>3, ExecType
<1>5. /\ \A k \in 1 .. 1 : tr[k] = Exec(tr[k - 1], s[k])
      /\ \A k \in 0 .. 1 : Ranked(tr[k])
      BY <1>2, <1>4
<1> QED BY <1>1, <1>2, <1>4, <1>5 DEF Leads

LEMMA LeadsNow ==
  ASSUME NEW t, NEW s, NEW u, Leads(t, s, u)
  PROVE  /\ s \in Seq(StoreSet) /\ t \in Trees /\ u \in Trees
         /\ Ranked(t) /\ Ranked(u)
         /\ s = <<>> => t = u
<1>1. PICK tr \in [0 .. Len(s) -> Trees] :
        /\ tr[0] = t /\ tr[Len(s)] = u
        /\ \A k \in 0 .. Len(s) : Ranked(tr[k])
      BY DEF Leads
<1>2. s \in Seq(StoreSet) /\ Len(s) \in Nat
      BY LenProperties DEF Leads
<1>3. s = <<>> => Len(s) = 0
      BY <1>2
<1> QED BY <1>1, <1>2, <1>3

LEMMA LeadsTail ==
  ASSUME NEW t, NEW s, NEW u, Leads(t, s, u), s # <<>>
  PROVE  Head(s) \in StoreSet /\ Leads(Exec(t, Head(s)), Tail(s), u)
<1>1. PICK tr \in [0 .. Len(s) -> Trees] :
        /\ tr[0] = t /\ tr[Len(s)] = u
        /\ \A k \in 1 .. Len(s) : tr[k] = Exec(tr[k - 1], s[k])
        /\ \A k \in 0 .. Len(s) : Ranked(tr[k])
      BY DEF Leads
<1>2. /\ s \in Seq(StoreSet) /\ Len(s) \in Nat \ {0}
      /\ Head(s) \in StoreSet /\ Head(s) = s[1]
      BY LenProperties, HeadTailProperties, EmptySeq DEF Leads
<1>3. PICK q : q = Tail(s)
      OBVIOUS
<1>4. /\ q \in Seq(StoreSet) /\ Len(q) = Len(s) - 1
      /\ \A k \in 1 .. Len(q) : q[k] = s[k + 1]
      BY <1>2, <1>3, HeadTailProperties
<1>5. PICK tq : tq = [k \in 0 .. Len(q) |-> tr[k + 1]]
      OBVIOUS
<1>6. tq \in [0 .. Len(q) -> Trees] /\ \A k \in 0 .. Len(q) : tq[k] = tr[k + 1]
      BY <1>1, <1>2, <1>4, <1>5
<1>7. /\ tq[0] = Exec(t, Head(s)) /\ tq[Len(q)] = u
      /\ \A k \in 0 .. Len(q) : Ranked(tq[k])
      BY <1>1, <1>2, <1>4, <1>6
<1>8. ASSUME NEW k \in 1 .. Len(q) PROVE tq[k] = Exec(tq[k - 1], q[k])
  <2>1. /\ k \in 0 .. Len(q) /\ k - 1 \in 0 .. Len(q) /\ k + 1 \in 1 .. Len(s)
        /\ k \in Int
        BY <1>2, <1>4, <1>8
  <2>2. tr[k + 1] = Exec(tr[(k + 1) - 1], s[k + 1])
        BY <1>1, <2>1
  <2>3. (k + 1) - 1 = k /\ (k - 1) + 1 = k
        BY <2>1
  <2> QED BY <1>4, <1>6, <2>1, <2>2, <2>3
<1> QED BY <1>2, <1>3, <1>4, <1>6, <1>7, <1>8 DEF Leads

LEMMA LeadsOn ==
  ASSUME NEW t, NEW s, NEW u, Leads(t, s, u), NEW q, NEW v, Leads(u, q, v)
  PROVE  Leads(t, s \o q, v)
<1>1. PICK tr \in [0 .. Len(s) -> Trees] :
        /\ tr[0] = t /\ tr[Len(s)] = u
        /\ \A k \in 1 .. Len(s) : tr[k] = Exec(tr[k - 1], s[k])
        /\ \A k \in 0 .. Len(s) : Ranked(tr[k])
      BY DEF Leads
<1>2. PICK tq \in [0 .. Len(q) -> Trees] :
        /\ tq[0] = u /\ tq[Len(q)] = v
        /\ \A k \in 1 .. Len(q) : tq[k] = Exec(tq[k - 1], q[k])
        /\ \A k \in 0 .. Len(q) : Ranked(tq[k])
      BY DEF Leads
<1>3. /\ s \in Seq(StoreSet) /\ Len(s) \in Nat
      /\ q \in Seq(StoreSet) /\ Len(q) \in Nat
      BY LenProperties DEF Leads
<1>4. PICK x : x = s \o q
      OBVIOUS
<1>5. /\ x \in Seq(StoreSet) /\ Len(x) = Len(s) + Len(q)
      /\ \A k \in 1 .. Len(s) : x[k] = s[k]
      /\ \A k \in 1 .. Len(q) : x[k + Len(s)] = q[k]
      BY <1>3, <1>4
<1>6. PICK tx : tx = [k \in 0 .. Len(x) |-> IF k <= Len(s) THEN tr[k]
                                          ELSE tq[k - Len(s)]]
      OBVIOUS
<1>7. /\ tx \in [0 .. Len(x) -> Trees]
      /\ \A k \in 0 .. Len(s) : tx[k] = tr[k]
      /\ \A k \in 1 .. Len(q) : tx[k + Len(s)] = tq[k]
      BY <1>1, <1>2, <1>3, <1>5, <1>6
<1>8. tx[Len(s)] = tq[0] /\ tx[0] = t /\ tx[Len(x)] = v
      BY <1>1, <1>2, <1>3, <1>5, <1>7
<1>9. ASSUME NEW k \in 1 .. Len(x) PROVE tx[k] = Exec(tx[k - 1], x[k])
  <2>1. CASE k <= Len(s)
    <3>1. k \in 1 .. Len(s) /\ k \in 0 .. Len(s) /\ k - 1 \in 0 .. Len(s)
          BY <1>3, <1>5, <2>1
    <3>2. x[k] = s[k] /\ tx[k] = tr[k] /\ tx[k - 1] = tr[k - 1]
          BY <1>5, <1>7, <3>1
    <3> QED BY <1>1, <3>1, <3>2
  <2>2. CASE k > Len(s)
    <3>0. k - Len(s) \in 1 .. Len(q) /\ k = (k - Len(s)) + Len(s)
          BY <1>3, <1>5, <2>2
    <3>1. PICK j \in 1 .. Len(q) : k = j + Len(s)
          BY <3>0
    <3>2. tq[j] = Exec(tq[j - 1], q[j])
          BY <1>2
    <3>3. tx[k] = tq[j] /\ x[k] = q[j]
          BY <1>5, <1>7, <3>1
    <3>4. tx[k - 1] = tq[j - 1]
      <4>1. CASE j = 1
            BY <1>3, <1>8, <3>1, <4>1
      <4>2. CASE j # 1
        <5>1. j - 1 \in 1 .. Len(q) /\ k - 1 = (j - 1) + Len(s)
              BY <1>3, <3>1, <4>2
        <5> QED BY <1>7, <5>1
      <4> QED BY <4>1, <4>2
    <3> QED BY <3>2, <3>3, <3>4
  <2> QED BY <1>3, <1>5, <2>1, <2>2
<1>10. ASSUME NEW k \in 0 .. Len(x) PROVE Ranked(tx[k])
  <2>1. CASE k <= Len(s)
        BY <1>1, <1>3, <1>7, <2>1
  <2>2. CASE k > Len(s)
    <3>0. k - Len(s) \in 1 .. Len(q) /\ k = (k - Len(s)) + Len(s)
          BY <1>3, <1>5, <2>2
    <3>1. PICK j \in 1 .. Len(q) : k = j + Len(s)
          BY <3>0
    <3> QED BY <1>2, <1>7, <3>1
  <2> QED BY <1>3, <2>1, <2>2
<1> QED BY <1>4, <1>5, <1>7, <1>8, <1>9, <1>10 DEF Leads

-----------------------------------------------------------------------------
(* What the building blocks of the steps do.                               *)

KidSet(t, u, n, side, c) ==
  /\ SameUp(t, u) /\ SameAnchors(t, u)
  /\ \A m \in Nodes, s \in Sides :
       Kid(u, m, s) = IF m = n /\ s = side THEN c ELSE Kid(t, m, s)

UpSet(t, u, n, p, b) ==
  /\ SameKids(t, u) /\ SameAnchors(t, u)
  /\ \A m \in Nodes : /\ Up(u, m) = (IF m = n THEN p ELSE Up(t, m))
                      /\ Hue(u, m) = (IF m = n THEN b ELSE Hue(t, m))

AnchorSet(t, u, f, c) ==
  /\ SameKids(t, u) /\ SameUp(t, u)
  /\ u.root = IF f = "root" THEN c ELSE t.root
  /\ u.leftmost = IF f = "leftmost" THEN c ELSE t.leftmost

LEMMA DoKid ==
  ASSUME NEW t \in Trees, NEW r, Ranks(r, t), NEW n \in Nodes, NEW side \in Sides,
         NEW c \in Ptr, c \in Nodes => r[c] < r[n]
  PROVE  \E u \in Trees : /\ Leads(t, SetChild(n, side, c), u)
                          /\ Ranks(r, u) /\ KidSet(t, u, n, side, c)
<1>1. PICK x : x = [field |-> side, at |-> n, to |-> c]
      OBVIOUS
<1>2. PICK u : u = Exec(t, x)
      OBVIOUS
<1>3. u \in Trees /\ KidSet(t, u, n, side, c)
      BY <1>1, <1>2, ExecKid DEF KidSet
<1>4. Ranks(r, u)
      BY <1>3 DEF Ranks, KidSet
<1>5. x \in StoreSet /\ SetChild(n, side, c) = <<x>>
      BY <1>1 DEF StoreSet, SetChild
<1>6. Leads(t, <<x>>, u)
      BY <1>2, <1>4, <1>5, LeadsOne, RanksRanked
<1> QED BY <1>3, <1>4, <1>5, <1>6

LEMMA DoUp ==
  ASSUME NEW t \in Trees, NEW r, Ranks(r, t), NEW n \in Nodes, NEW p \in Ptr,
         NEW b \in BOOLEAN
  PROVE  \E u \in Trees : /\ Leads(t, SetParentColor(n, p, b), u)
                          /\ Ranks(r, u) /\ UpSet(t, u, n, p, b)
<1>1. PICK x : x = [field |-> "pc", at |-> n, to |-> p, red |-> b]
      OBVIOUS
<1>2. PICK u : u = Exec(t, x)
      OBVIOUS
<1>3. x.field = "pc" /\ x.at = n /\ x.to = p /\ x.red = b
      BY <1>1
<1>4. u \in Trees /\ UpSet(t, u, n, p, b)
      BY <1>2, <1>3, ExecUp DEF UpSet
<1>5. Ranks(r, u)
      BY <1>4, RanksKeep DEF UpSet
<1>6. x \in StoreSet /\ SetParentColor(n, p, b) = <<x>>
      BY <1>1 DEF StoreSet, SetParentColor
<1>7. Leads(t, <<x>>, u)
      BY <1>2, <1>5, <1>6, LeadsOne, RanksRanked
<1> QED BY <1>4, <1>5, <1>6, <1>7

LEMMA DoUpIf ==
  ASSUME NEW t \in Trees, NEW r, Ranks(r, t), NEW n \in Ptr, NEW p \in Ptr,
         NEW b, n # Nil => b \in BOOLEAN
  PROVE  \E u \in Trees : /\ Leads(t, IfNode(n, SetParentColor(n, p, b)), u)
                          /\ Ranks(r, u) /\ UpSet(t, u, n, p, b)
<1>1. CASE n = Nil
  <2>1. Leads(t, <<>>, t)
        BY LeadsNil, RanksRanked
  <2>2. UpSet(t, t, n, p, b)
        BY <1>1, NilIsNoNode DEF UpSet, SameKids, SameAnchors
  <2> QED BY <1>1, <2>1, <2>2 DEF IfNode
<1>2. CASE n # Nil
  <2>1. n \in Nodes /\ b \in BOOLEAN
        BY <1>2 DEF Ptr
  <2> QED BY <1>2, <2>1, DoUp DEF IfNode
<1> QED BY <1>1, <1>2

LEMMA DoAnchor ==
  ASSUME NEW t \in Trees, NEW r, Ranks(r, t), NEW f \in {"root", "leftmost"},
         NEW c \in Ptr
  PROVE  \E u \in Trees : /\ Leads(t, <<[field |-> f, to |-> c]>>, u)
                          /\ Ranks(r, u) /\ AnchorSet(t, u, f, c)
<1>1. PICK x : x = [field |-> f, to |-> c]
      OBVIOUS
<1>2. PICK u : u = Exec(t, x)
      OBVIOUS
<1>3. u \in Trees /\ AnchorSet(t, u, f, c)
  <2>1. x.field = f /\ x.to = c
        BY <1>1
  <2> QED BY <1>2, <2>1, ExecRoot DEF AnchorSet
<1>4. Ranks(r, u)
      BY <1>3, RanksKeep DEF AnchorSet
<1>5. x \in StoreSet
      BY <1>1 DEF StoreSet
<1>6. Leads(t, <<x>>, u)
      BY <1>2, <1>4, <1>5, LeadsOne, RanksRanked
<1> QED BY <1>1, <1>3, <1>4, <1>6

(* __rb_change_child(): which link is redirected is read from the tree in  *)
(* memory when the step begins.                                            *)
LinkSet(t, u, old, new, p) ==
  /\ p = Nil => AnchorSet(t, u, "root", new)
  /\ p # Nil => KidSet(t, u, p,
                       IF Child(p, "left") = old THEN "left" ELSE "right", new)

LEMMA DoChange ==
  ASSUME NEW t \in Trees, NEW r, Ranks(r, t), NEW old, NEW new \in Ptr, NEW p \in Ptr,
         p # Nil /\ new # Nil => r[new] < r[p]
  PROVE  \E u \in Trees : /\ Leads(t, ChangeChild(old, new, p), u)
                          /\ Ranks(r, u) /\ LinkSet(t, u, old, new, p)
<1>1. CASE p = Nil
  <2>1. ChangeChild(old, new, p) = <<[field |-> "root", to |-> new]>>
        BY <1>1 DEF ChangeChild
  <2>2. PICK u \in Trees : /\ Leads(t, <<[field |-> "root", to |-> new]>>, u)
                           /\ Ranks(r, u) /\ AnchorSet(t, u, "root", new)
        BY DoAnchor
  <2> QED BY <1>1, <2>1, <2>2 DEF LinkSet
<1>2. CASE p # Nil
  <2>1. PICK side \in Sides :
          side = IF Child(p, "left") = old THEN "left" ELSE "right"
        BY DEF Sides
  <2>2. ChangeChild(old, new, p) = SetChild(p, side, new)
        BY <1>2, <2>1 DEF ChangeChild
  <2>3. p \in Nodes /\ new \in Nodes => r[new] < r[p]
        BY <1>2, NilIsNoNode DEF Ptr
  <2>4. PICK u \in Trees : /\ Leads(t, SetChild(p, side, new), u)
                           /\ Ranks(r, u) /\ KidSet(t, u, p, side, new)
        BY <1>2, <2>3, DoKid DEF Ptr
  <2> QED BY <1>2, <2>1, <2>2, <2>4 DEF LinkSet
<1> QED BY <1>1, <1>2

(* A node that nothing above points to can be ranked just above another    *)
(* one, and a node just below it.                                          *)
Lifted(r, r2, a, b, up) ==
  /\ \A m \in Nodes \ {a}, k \in Nodes \ {a} : r[m] < r[k] => r2[m] < r2[k]
  /\ \A m \in Nodes \ {a} : /\ r[m] < r[b] => r2[m] < r2[a]
                            /\ r[b] < r[m] => r2[a] < r2[m]
  /\ IF up THEN r2[b] < r2[a] ELSE r2[a] < r2[b]

LEMMA Lift ==
  ASSUME NEW t \in Trees, NEW r, Ranks(r, t), NEW a \in Nodes, NEW b \in Nodes,
         a # b, NEW up \in BOOLEAN,
         \A side \in Sides : Kid(t, a, side) \in Nodes => r[Kid(t, a, side)] < r[b],
         \A m \in Nodes, side \in Sides :
           Kid(t, m, side) = a => IF up THEN r[b] < r[m] ELSE r[b] <= r[m]
  PROVE  \E r2 : Ranks(r2, t) /\ Lifted(r, r2, a, b, up)
<1>1. /\ r \in [Nodes -> Nat]
      /\ \A n \in Nodes, side \in Sides :
           Kid(t, n, side) \in Nodes => r[Kid(t, n, side)] < r[n]
      BY DEF Ranks
<1>2. PICK d \in {3, 5} : d = IF up THEN 5 ELSE 3
      OBVIOUS
<1>3. PICK r2 : r2 = [n \in Nodes |-> IF n = a THEN 4 * r[b] + d ELSE 4 * r[n] + 4]
      OBVIOUS
<1>4. /\ r2 \in [Nodes -> Nat] /\ r2[a] = 4 * r[b] + d
      /\ \A n \in Nodes \ {a} : r2[n] = 4 * r[n] + 4
      /\ \A n \in Nodes : r[n] \in Nat
      BY <1>1, <1>2, <1>3
<1>5. Lifted(r, r2, a, b, up)
      BY <1>2, <1>4 DEF Lifted
<1>6. ASSUME NEW n \in Nodes, NEW side \in Sides, Kid(t, n, side) \in Nodes
      PROVE  r2[Kid(t, n, side)] < r2[n]
  <2>1. r[Kid(t, n, side)] < r[n]
        BY <1>1, <1>6
  <2>2. CASE n = a
        BY <1>1, <1>2, <1>4, <1>6, <2>1, <2>2
  <2>3. CASE n # a /\ Kid(t, n, side) = a
        BY <1>1, <1>2, <1>4, <1>6, <2>3
  <2>4. CASE n # a /\ Kid(t, n, side) # a
        BY <1>4, <1>6, <2>1, <2>4
  <2> QED BY <2>2, <2>3, <2>4
<1> QED BY <1>4, <1>5, <1>6 DEF Ranks

(* A node without children can be ranked below all others.                 *)
LEMMA Lower ==
  ASSUME NEW t \in Trees, NEW r, Ranks(r, t), NEW a \in Nodes,
         \A side \in Sides : Kid(t, a, side) \notin Nodes
  PROVE  \E r2 : Ranks(r2, t) /\ \A m \in Nodes \ {a} : r2[a] < r2[m]
<1>1. /\ r \in [Nodes -> Nat]
      /\ \A n \in Nodes, side \in Sides :
           Kid(t, n, side) \in Nodes => r[Kid(t, n, side)] < r[n]
      BY DEF Ranks
<1>2. PICK r2 : r2 = [n \in Nodes |-> IF n = a THEN 0 ELSE r[n] + 1]
      OBVIOUS
<1>3. /\ r2 \in [Nodes -> Nat] /\ r2[a] = 0
      /\ \A n \in Nodes \ {a} : r2[n] = r[n] + 1
      /\ \A n \in Nodes : r[n] \in Nat
      BY <1>1, <1>2
<1>4. ASSUME NEW n \in Nodes, NEW side \in Sides, Kid(t, n, side) \in Nodes
      PROVE  r2[Kid(t, n, side)] < r2[n]
  <2>1. r[Kid(t, n, side)] < r[n] /\ n # a
        BY <1>1, <1>4
  <2> QED BY <1>1, <1>3, <1>4, <2>1
<1>5. \A m \in Nodes \ {a} : r2[a] < r2[m]
      BY <1>3
<1> QED BY <1>3, <1>4, <1>5 DEF Ranks

-----------------------------------------------------------------------------
(* The shape of a tree: sub is what is below each node, and pos numbers    *)
(* the nodes from left to right.                                           *)

Toward(pos, side, x, n) ==
  IF side = "left" THEN pos[x] < pos[n] ELSE pos[n] < pos[x]

LinksAt(t, mem, n) ==
  /\ \A side \in Sides : /\ Kid(t, n, side) \in mem \cup {Nil}
                         /\ Kid(t, n, side) # Nil => Up(t, Kid(t, n, side)) = n
  /\ IF Up(t, n) = Nil THEN t.root = n
     ELSE Up(t, n) \in mem /\ \E side \in Sides : Kid(t, Up(t, n), side) = n

SplitAt(t, sub, pos, n) ==
  \A side \in Sides :
    /\ sub[n] = {n} \cup sub[Kid(t, n, side)] \cup sub[Kid(t, n, Other(side))]
    /\ \A x \in sub[Kid(t, n, side)] : Toward(pos, side, x, n)

Shape(t, mem, sub, pos) ==
  /\ mem \subseteq Nodes
  /\ sub \in [Ptr -> SUBSET mem] /\ pos \in [Nodes -> Int]
  /\ t.root \in mem \cup {Nil} /\ sub[Nil] = {} /\ sub[t.root] = mem
  /\ t.root # Nil => Up(t, t.root) = Nil
  /\ \A n \in mem : LinksAt(t, mem, n) /\ SplitAt(t, sub, pos, n)

LEMMA OtherSide ==
  \A side \in Sides : /\ Other(side) \in Sides /\ Other(side) # side
                      /\ Other(Other(side)) = side
                      /\ \A s \in Sides : s = side \/ s = Other(side)
BY DEF Sides, Other

LEMMA TowardOrder ==
  ASSUME NEW pos \in [Nodes -> Int], NEW side \in Sides
  PROVE  /\ \A x, y \in Nodes : Toward(pos, side, x, y) <=> Toward(pos, Other(side), y, x)
         /\ \A x \in Nodes : ~ Toward(pos, side, x, x)
         /\ \A x, y, z \in Nodes :
              Toward(pos, side, x, y) /\ Toward(pos, side, y, z) => Toward(pos, side, x, z)
BY DEF Toward, Sides, Other

(* What is known of a node and its children.                               *)
LEMMA Around ==
  ASSUME NEW t, NEW mem, NEW sub, NEW pos, Shape(t, mem, sub, pos), NEW p \in mem,
         NEW side \in Sides, NEW c, c = Kid(t, p, side)
  PROVE  /\ p \in Nodes /\ p # Nil /\ p \in sub[p]
         /\ c \in mem \cup {Nil} /\ c # p /\ sub[c] \subseteq sub[p]
         /\ c # Nil => /\ Up(t, c) = p /\ c # Kid(t, p, Other(side))
                       /\ c # Up(t, p)
         /\ p \notin sub[c]
         /\ Up(t, p) # p /\ Up(t, p) \in mem \cup {Nil}
<1>1. /\ mem \subseteq Nodes /\ Nil \notin Nodes /\ pos \in [Nodes -> Int]
      /\ sub \in [Ptr -> SUBSET mem] /\ sub[Nil] = {}
      /\ \A n \in mem : LinksAt(t, mem, n) /\ SplitAt(t, sub, pos, n)
      BY NilIsNoNode DEF Shape
<1>2. \A n \in mem, s \in Sides :
        /\ Kid(t, n, s) \in mem \cup {Nil}
        /\ Kid(t, n, s) # Nil => Up(t, Kid(t, n, s)) = n
        /\ sub[n] = {n} \cup sub[Kid(t, n, s)] \cup sub[Kid(t, n, Other(s))]
        /\ \A x \in sub[Kid(t, n, s)] : Toward(pos, s, x, n)
      BY <1>1 DEF LinksAt, SplitAt
<1>3. \A n \in mem, s \in Sides, x \in Nodes : x \in sub[Kid(t, n, s)] => x # n
      BY <1>1, <1>2, TowardOrder
<1>4. \A n \in mem, s \in Sides : Kid(t, n, s) # n /\ n \in sub[n]
  <2>1. \A n \in mem, s \in Sides : n \in sub[n]
        BY <1>2
  <2> QED BY <1>1, <1>3, <2>1
<1>5. c # Nil => c # Kid(t, p, Other(side))
  <2> SUFFICES ASSUME c # Nil, c = Kid(t, p, Other(side)) PROVE FALSE
      OBVIOUS
  <2>0. c \in mem
        BY <1>2
  <2>1. c \in mem /\ c \in sub[c] /\ c \in Nodes /\ p \in Nodes
        BY <1>1, <1>4, <2>0
  <2>2. Toward(pos, side, c, p) /\ Toward(pos, Other(side), c, p)
        BY <1>2, <2>1, OtherSide
  <2> QED BY <1>1, <2>1, <2>2, TowardOrder
<1>6. Up(t, p) # p /\ Up(t, p) \in mem \cup {Nil}
  <2>1. Up(t, p) # Nil => Up(t, p) \in mem
                          /\ \E s \in Sides : Kid(t, Up(t, p), s) = p
        BY <1>1 DEF LinksAt
  <2> QED BY <1>1, <1>4, <2>1
<1>7. c # Nil => c # Up(t, p)
  <2> SUFFICES ASSUME c # Nil, c = Up(t, p) PROVE FALSE
      OBVIOUS
  <2>1. c \in mem
        BY <1>2
  <2>2. PICK s \in Sides : Kid(t, c, s) = p
        BY <1>1 DEF LinksAt
  <2>3. p \in sub[c]
        BY <1>2, <1>4, <2>1, <2>2
  <2> QED BY <1>1, <1>3, <2>3
<1> QED BY <1>1, <1>2, <1>3, <1>4, <1>5, <1>6, <1>7

(* A rotation: c, the child of p on the given side, goes up above p, which *)
(* takes the inner child of c.                                             *)
Rotated(t, u, p, c, side) ==
  /\ \A m \in Nodes, s \in Sides :
       Kid(u, m, s) = IF m = p /\ s = side THEN Kid(t, c, Other(side))
                      ELSE IF m = c /\ s = Other(side) THEN p
                      ELSE IF m = Up(t, p) /\ Kid(t, m, s) = p THEN c
                      ELSE Kid(t, m, s)
  /\ \A m \in Nodes :
       Up(u, m) = IF m = c THEN Up(t, p)
                  ELSE IF m = p THEN c
                  ELSE IF m = Kid(t, c, Other(side)) THEN p
                  ELSE Up(t, m)
  /\ u.root = IF Up(t, p) = Nil THEN c ELSE t.root
  /\ u.leftmost = t.leftmost

LEMMA RotShape ==
  ASSUME NEW t, NEW mem, NEW sub, NEW pos, Shape(t, mem, sub, pos),
         NEW p \in mem, NEW side \in Sides, NEW c, c = Kid(t, p, side), c # Nil,
         NEW u, Rotated(t, u, p, c, side)
  PROVE  \E sub2 : Shape(u, mem, sub2, pos)
<1> DEFINE far == Other(side)
           inner == Kid(t, c, far)
           outer == Kid(t, c, side)
           d == Kid(t, p, far)
           g == Up(t, p)
<1>1. /\ mem \subseteq Nodes /\ Nil \notin Nodes /\ pos \in [Nodes -> Int]
      /\ sub \in [Ptr -> SUBSET mem] /\ sub[Nil] = {}
      /\ t.root \in mem \cup {Nil} /\ sub[t.root] = mem
      /\ t.root # Nil => Up(t, t.root) = Nil
      /\ \A n \in mem : LinksAt(t, mem, n) /\ SplitAt(t, sub, pos, n)
      BY NilIsNoNode DEF Shape
<1>2. \A n \in mem, s \in Sides :
        /\ Kid(t, n, s) \in mem \cup {Nil}
        /\ Kid(t, n, s) # Nil => Up(t, Kid(t, n, s)) = n
        /\ sub[n] = {n} \cup sub[Kid(t, n, s)] \cup sub[Kid(t, n, Other(s))]
        /\ \A x \in sub[Kid(t, n, s)] : Toward(pos, s, x, n)
      BY <1>1 DEF LinksAt, SplitAt
<1>3. /\ far \in Sides /\ far # side /\ Other(far) = side
      /\ \A s \in Sides : s = side \/ s = far
      BY OtherSide
<1>4. /\ c \in mem /\ inner \in mem \cup {Nil} /\ outer \in mem \cup {Nil}
      /\ d \in mem \cup {Nil} /\ g \in mem \cup {Nil}
      /\ c # p /\ c # d /\ c # g /\ p # g /\ p # d /\ Up(t, c) = p
      /\ inner # c /\ outer # c /\ inner # p /\ outer # p
      /\ inner # Nil => Up(t, inner) = c /\ inner # outer
      /\ outer # Nil => Up(t, outer) = c
      /\ d # Nil => Up(t, d) = p
      BY <1>1, <1>2, <1>3, Around
<1>5. \A m \in mem, s \in Sides :
        Kid(u, m, s) = IF m = p /\ s = side THEN inner
                       ELSE IF m = c /\ s = far THEN p
                       ELSE IF m = g /\ Kid(t, m, s) = p THEN c
                       ELSE Kid(t, m, s)
      BY <1>1 DEF Rotated
<1>6. \A m \in mem : Up(u, m) = IF m = c THEN g ELSE IF m = p THEN c
                                ELSE IF m = inner THEN p ELSE Up(t, m)
      BY <1>1 DEF Rotated
<1>7. u.root = IF g = Nil THEN c ELSE t.root
      BY DEF Rotated
<1>8. PICK sub2 : sub2 = [m \in Ptr |-> IF m = c THEN sub[p]
                           ELSE IF m = p THEN {p} \cup sub[inner] \cup sub[d]
                           ELSE sub[m]]
      OBVIOUS
<1>9. /\ sub2 \in [Ptr -> SUBSET mem] /\ sub2[c] = sub[p]
      /\ sub2[p] = {p} \cup sub[inner] \cup sub[d]
      /\ \A m \in Ptr : m # c /\ m # p => sub2[m] = sub[m]
  <2>1. c \in Ptr /\ p \in Ptr /\ inner \in Ptr /\ d \in Ptr
        BY <1>1, <1>4 DEF Ptr
  <2> QED BY <1>1, <1>4, <1>8, <2>1
<1> HIDE DEF far, inner, outer, d, g
<1>10. mem \subseteq Ptr /\ Nil \in Ptr /\ p \in Nodes /\ c \in Nodes /\ c # Nil /\ p # Nil
       BY <1>1, <1>4 DEF Ptr
<1>11. p = t.root <=> g = Nil
       BY <1>1, <1>10 DEF LinksAt, g
<1>12. /\ u.root \in mem \cup {Nil} /\ sub2[Nil] = {} /\ sub2[u.root] = mem
       /\ u.root # Nil => Up(u, u.root) = Nil
  <2>1. CASE g = Nil
        BY <1>1, <1>4, <1>6, <1>7, <1>9, <1>10, <1>11, <2>1
  <2>2. CASE g # Nil
    <3>1. u.root = t.root /\ t.root # p
          BY <1>7, <1>11, <2>2
    <3>2. t.root # c /\ t.root # inner /\ t.root # Nil
          BY <1>1, <1>4, <1>10, <2>2
    <3> QED BY <1>1, <1>6, <1>9, <1>10, <3>1, <3>2
  <2> QED BY <2>1, <2>2
<1>13. ASSUME NEW n \in mem PROVE LinksAt(u, mem, n)
  <2>1. ASSUME NEW s \in Sides
        PROVE  /\ Kid(u, n, s) \in mem \cup {Nil}
               /\ Kid(u, n, s) # Nil => Up(u, Kid(u, n, s)) = n
    <3>1. CASE n = p /\ s = side
          BY <1>4, <1>5, <1>6, <3>1
    <3>2. CASE n = c /\ s = far
          BY <1>4, <1>5, <1>6, <3>2
    <3>3. CASE n = g /\ Kid(t, n, s) = p
          BY <1>4, <1>5, <1>6, <3>3
    <3>4. CASE ~ (n = p /\ s = side) /\ ~ (n = c /\ s = far)
               /\ ~ (n = g /\ Kid(t, n, s) = p)
      <4>1. Kid(u, n, s) = Kid(t, n, s)
            BY <1>5, <3>4
      <4>2. Kid(t, n, s) # c \/ Kid(t, n, s) = Nil
            BY <1>2, <1>3, <1>4, <3>4, OtherSide DEF d
      <4>3. Kid(t, n, s) # p
            BY <1>2, <1>10, <3>4 DEF g
      <4>4. Kid(t, n, s) # inner \/ Kid(t, n, s) = Nil
            BY <1>2, <1>3, <1>4, <3>4 DEF outer
      <4> QED BY <1>2, <1>6, <1>10, <4>1, <4>2, <4>3, <4>4
    <3> QED BY <3>1, <3>2, <3>3, <3>4
  <2>2. IF Up(u, n) = Nil THEN u.root = n
        ELSE Up(u, n) \in mem /\ \E s \in Sides : Kid(u, Up(u, n), s) = n
    <3>0. IF Up(t, n) = Nil THEN t.root = n
          ELSE Up(t, n) \in mem /\ \E s \in Sides : Kid(t, Up(t, n), s) = n
          BY <1>1 DEF LinksAt
    <3>1. CASE n = c
      <4>1. CASE g = Nil
            BY <1>6, <1>7, <3>1, <4>1
      <4>2. CASE g # Nil
        <5>1. PICK s \in Sides : Kid(t, g, s) = p
              BY <1>1, <4>2 DEF LinksAt, g
        <5> QED BY <1>4, <1>5, <1>6, <3>1, <4>2, <5>1
      <4> QED BY <4>1, <4>2
    <3>2. CASE n = p
      <4>1. Kid(u, c, far) = p /\ Up(u, n) = c
            BY <1>3, <1>4, <1>5, <1>6, <3>2
      <4> QED BY <1>3, <1>4, <1>10, <3>2, <4>1
    <3>3. CASE n = inner /\ n # p /\ n # c
      <4>1. Kid(u, p, side) = inner /\ Up(u, n) = p
            BY <1>5, <1>6, <3>3
      <4> QED BY <1>10, <3>3, <4>1
    <3>4. CASE n # c /\ n # p /\ n # inner
      <4>1. Up(u, n) = Up(t, n)
            BY <1>6, <3>4
      <4>2. CASE Up(t, n) = Nil
        <5>1. t.root = n /\ g # Nil
              BY <1>11, <3>0, <3>4, <4>2
        <5> QED BY <1>7, <4>1, <4>2, <5>1
      <4>3. CASE Up(t, n) # Nil
        <5>1. PICK s \in Sides : Kid(t, Up(t, n), s) = n
              BY <3>0, <4>3
        <5>2. Kid(u, Up(t, n), s) = n
          <6>1. ~ (Up(t, n) = p /\ s = side)
                BY <3>4, <5>1
          <6>2. ~ (Up(t, n) = c /\ s = far)
                BY <3>4, <5>1 DEF inner
          <6> QED BY <1>5, <3>0, <3>4, <4>3, <5>1, <6>1, <6>2
        <5> QED BY <3>0, <4>1, <4>3, <5>2
      <4> QED BY <4>2, <4>3
    <3> QED BY <3>1, <3>2, <3>3, <3>4
  <2> QED BY <2>1, <2>2 DEF LinksAt
<1>14. ASSUME NEW n \in mem PROVE SplitAt(u, sub2, pos, n)
  <2>1. CASE n = c
    <3>1. Kid(u, n, far) = p /\ Kid(u, n, side) = outer
          BY <1>3, <1>4, <1>5, <2>1 DEF outer
    <3>2. sub2[n] = sub[p] /\ sub2[outer] = sub[outer]
          BY <1>4, <1>9, <1>10, <2>1
    <3>3. sub[p] = {p} \cup {c} \cup sub[outer] \cup sub[inner] \cup sub[d]
          BY <1>2, <1>4 DEF d, inner, outer, far
    <3>4. \A x \in sub[outer] : Toward(pos, side, x, c)
          BY <1>2, <1>4 DEF outer
    <3>5. c \in sub[c] /\ Toward(pos, far, p, c)
          BY <1>1, <1>2, <1>4, <1>10, TowardOrder DEF far
    <3>6. ASSUME NEW x \in sub2[p] PROVE Toward(pos, far, x, c)
      <4>0. x \in Nodes
            BY <1>1, <1>9, <1>10
      <4>1. CASE x = p
            BY <3>5, <4>1
      <4>2. CASE x \in sub[inner]
            BY <1>2, <1>3, <1>4, <4>2 DEF inner
      <4>3. CASE x \in sub[d]
        <5>1. Toward(pos, far, x, p)
              BY <1>2, <1>3, <4>3 DEF d
        <5> QED BY <1>1, <1>3, <1>10, <3>5, <4>0, <5>1, TowardOrder
      <4> QED BY <1>9, <4>1, <4>2, <4>3
    <3> QED BY <1>3, <1>9, <2>1, <3>1, <3>2, <3>3, <3>4, <3>6 DEF SplitAt, far
  <2>2. CASE n = p
    <3>1. Kid(u, n, side) = inner /\ Kid(u, n, far) = d
          BY <1>3, <1>4, <1>5, <2>2 DEF d
    <3>2. sub2[inner] = sub[inner] /\ sub2[d] = sub[d]
          BY <1>4, <1>9, <1>10
    <3>3. \A x \in sub[d] : Toward(pos, far, x, p)
          BY <1>2, <1>3 DEF d
    <3>4. \A x \in sub[inner] : Toward(pos, side, x, p)
      <4>1. sub[inner] \subseteq sub[c]
            BY <1>2, <1>3, <1>4 DEF inner
      <4> QED BY <1>2, <4>1
    <3> QED BY <1>3, <1>9, <2>2, <3>1, <3>2, <3>3, <3>4 DEF SplitAt, far
  <2>3. CASE n # c /\ n # p
    <3>1. \A s \in Sides : sub2[Kid(u, n, s)] = sub[Kid(t, n, s)]
      <4> SUFFICES ASSUME NEW s \in Sides PROVE sub2[Kid(u, n, s)] = sub[Kid(t, n, s)]
          OBVIOUS
      <4>1. CASE n = g /\ Kid(t, n, s) = p
            BY <1>5, <1>9, <2>3, <4>1
      <4>2. CASE ~ (n = g /\ Kid(t, n, s) = p)
        <5>1. Kid(u, n, s) = Kid(t, n, s)
              BY <1>5, <2>3, <4>2
        <5>2. Kid(t, n, s) # p /\ Kid(t, n, s) # c
              BY <1>2, <1>4, <1>10, <2>3, <4>2 DEF g
        <5> QED BY <1>2, <1>9, <1>10, <5>1, <5>2
      <4> QED BY <4>1, <4>2
    <3>2. sub2[n] = sub[n]
          BY <1>9, <1>10, <2>3
    <3> QED BY <1>2, <3>1, <3>2, OtherSide DEF SplitAt
  <2> QED BY <2>1, <2>2, <2>3
<1> QED BY <1>1, <1>9, <1>12, <1>13, <1>14 DEF Shape

(* The stores of a rotation, with the nodes whose parent or colour they    *)
(* change on the way: the inner child, and x below c.                      *)
Turn(p, c, side, inner, x, b, red) ==
  SetChild(p, side, inner) \o SetChild(c, Other(side), p)
    \o IfNode(x, SetParentColor(x, c, FALSE))
    \o IfNode(inner, SetParentColor(inner, p, b))
    \o RotateSetParents(p, c, red)

(* What they make of t.  What p hung below is read from memory before.     *)
Turned(t, u, p, c, side, inner, x, b, red) ==
  /\ \A m \in Nodes, s \in Sides :
       Kid(u, m, s) = IF m = p /\ s = side THEN inner
                      ELSE IF m = c /\ s = Other(side) THEN p
                      ELSE IF m = Parent(p) /\ (s = "left" <=> Child(m, "left") = p)
                      THEN c
                      ELSE Kid(t, m, s)
  /\ \A m \in Nodes :
       Up(u, m) = IF m = p THEN c ELSE IF m = c THEN Parent(p)
                  ELSE IF m = inner THEN p ELSE IF m = x THEN c ELSE Up(t, m)
  /\ \A m \in Nodes :
       Hue(u, m) = IF m = p THEN red ELSE IF m = c THEN IsRed(p)
                   ELSE IF m = inner THEN b ELSE IF m = x THEN FALSE ELSE Hue(t, m)
  /\ u.root = IF Parent(p) = Nil THEN c ELSE t.root
  /\ u.leftmost = t.leftmost

LEMMA DoTurn ==
  ASSUME NEW t \in Trees, NEW r, Ranks(r, t), NEW p \in Nodes, NEW c \in Nodes,
         NEW side \in Sides, NEW inner \in Ptr, NEW x \in Ptr, NEW b, NEW red \in BOOLEAN,
         inner # Nil => b \in BOOLEAN, IsRed(p) \in BOOLEAN,
         p # c, inner # p, inner # c, x # p, x # c,
         r[c] < r[p], inner \in Nodes => r[inner] < r[p],
         \A m \in Nodes, s \in Sides :
           Kid(t, m, s) = c => (m = p /\ s = side) \/ r[p] < r[m],
         Parent(p) \in Ptr,
         Parent(p) # Nil => r[p] < r[Parent(p)] /\ Parent(p) # c
  PROVE  \E u, r2 : /\ u \in Trees
                    /\ Leads(t, Turn(p, c, side, inner, x, b, red), u)
                    /\ Ranks(r2, u)
                    /\ Turned(t, u, p, c, side, inner, x, b, red)
<1> DEFINE far == Other(side)
           g == Parent(p)
           gs == IF Child(g, "left") = p THEN "left" ELSE "right"
<1>1. far \in Sides /\ far # side /\ gs \in Sides /\ Nil \notin Nodes
      BY OtherSide, NilIsNoNode DEF Sides
<1>2. r \in [Nodes -> Nat]
      BY DEF Ranks
<1>3. PICK t1 \in Trees : /\ Leads(t, SetChild(p, side, inner), t1)
                          /\ Ranks(r, t1) /\ KidSet(t, t1, p, side, inner)
      BY DoKid
<1>4. \A m \in Nodes, s \in Sides : Kid(t1, m, s) = c => r[p] < r[m]
      BY <1>3 DEF KidSet
<1>5. \A s \in Sides : Kid(t1, c, s) \in Nodes => r[Kid(t1, c, s)] < r[p]
  <2> SUFFICES ASSUME NEW s \in Sides, Kid(t1, c, s) \in Nodes
               PROVE  r[Kid(t1, c, s)] < r[p]
      OBVIOUS
  <2>1. r[Kid(t1, c, s)] < r[c]
        BY <1>3 DEF Ranks
  <2>2. r[Kid(t1, c, s)] \in Nat /\ r[c] \in Nat /\ r[p] \in Nat
        BY <1>2
  <2> QED BY <2>1, <2>2
<1>6. PICK r2 : Ranks(r2, t1) /\ Lifted(r, r2, c, p, TRUE)
      BY <1>3, <1>4, <1>5, Lift
<1>7. /\ r2[p] < r2[c]
      /\ inner \in Nodes => r2[inner] < r2[p]
      /\ g # Nil => r2[c] < r2[g] /\ r2[p] < r2[g]
      BY <1>1, <1>6 DEF Lifted, Ptr
<1> HIDE DEF far, g, gs
<1>8. PICK t2 \in Trees : /\ Leads(t1, SetChild(c, far, p), t2)
                          /\ Ranks(r2, t2) /\ KidSet(t1, t2, c, far, p)
      BY <1>1, <1>6, <1>7, DoKid DEF Ptr
<1>9. PICK t3 \in Trees : /\ Leads(t2, IfNode(x, SetParentColor(x, c, FALSE)), t3)
                          /\ Ranks(r2, t3) /\ UpSet(t2, t3, x, c, FALSE)
      BY <1>8, DoUpIf DEF Ptr
<1>10. PICK t4 \in Trees : /\ Leads(t3, IfNode(inner, SetParentColor(inner, p, b)), t4)
                           /\ Ranks(r2, t4) /\ UpSet(t3, t4, inner, p, b)
      BY <1>9, DoUpIf DEF Ptr
<1>11. PICK t5 \in Trees : /\ Leads(t4, SetParentColor(c, g, IsRed(p)), t5)
                           /\ Ranks(r2, t5) /\ UpSet(t4, t5, c, g, IsRed(p))
      BY <1>10, DoUp DEF g
<1>12. PICK t6 \in Trees : /\ Leads(t5, SetParentColor(p, c, red), t6)
                           /\ Ranks(r2, t6) /\ UpSet(t5, t6, p, c, red)
      BY <1>11, DoUp DEF Ptr
<1>13. PICK u \in Trees : /\ Leads(t6, ChangeChild(p, c, g), u)
                          /\ Ranks(r2, u) /\ LinkSet(t6, u, p, c, g)
      BY <1>7, <1>12, DoChange DEF Ptr, g
<1>14. Leads(t, Turn(p, c, side, inner, x, b, red), u)
  <2>1. Leads(t4, RotateSetParents(p, c, red), u)
        BY <1>11, <1>12, <1>13, LeadsOn DEF RotateSetParents, g
  <2>2. Leads(t, SetChild(p, side, inner) \o SetChild(c, far, p), t2)
        BY <1>3, <1>8, LeadsOn
  <2>3. Leads(t, SetChild(p, side, inner) \o SetChild(c, far, p)
                   \o IfNode(x, SetParentColor(x, c, FALSE)), t3)
        BY <1>9, <2>2, LeadsOn
  <2>4. Leads(t, SetChild(p, side, inner) \o SetChild(c, far, p)
                   \o IfNode(x, SetParentColor(x, c, FALSE))
                   \o IfNode(inner, SetParentColor(inner, p, b)), t4)
        BY <1>10, <2>3, LeadsOn
  <2> QED BY <2>1, <2>4, LeadsOn DEF Turn, far
<1>15. \A m \in Nodes, s \in Sides :
         Kid(t6, m, s) = IF m = p /\ s = side THEN inner
                         ELSE IF m = c /\ s = far THEN p ELSE Kid(t, m, s)
       BY <1>3, <1>8, <1>9, <1>10, <1>11, <1>12 DEF KidSet, UpSet, SameKids
<1>16. /\ \A m \in Nodes : Up(t6, m) = IF m = p THEN c ELSE IF m = c THEN g
             ELSE IF m = inner THEN p ELSE IF m = x THEN c ELSE Up(t, m)
       BY <1>3, <1>8, <1>9, <1>10, <1>11, <1>12 DEF KidSet, UpSet, SameUp
<1>17. \A m \in Nodes :
         Hue(t6, m) = IF m = p THEN red ELSE IF m = c THEN IsRed(p)
                      ELSE IF m = inner THEN b ELSE IF m = x THEN FALSE ELSE Hue(t, m)
       BY <1>3, <1>8, <1>9, <1>10, <1>11, <1>12 DEF KidSet, UpSet, SameUp
<1>18. t6.root = t.root /\ t6.leftmost = t.leftmost
       BY <1>3, <1>8, <1>9, <1>10, <1>11, <1>12 DEF KidSet, UpSet, SameAnchors
<1>19. Turned(t, u, p, c, side, inner, x, b, red)
  <2>1. CASE g = Nil
    <3>1. SameKids(t6, u) /\ SameUp(t6, u) /\ u.root = c /\ u.leftmost = t.leftmost
          BY <1>13, <1>18, <2>1 DEF LinkSet, AnchorSet
    <3>2. \A m \in Nodes : m # Parent(p)
          BY <1>1, <2>1 DEF g
    <3>3. \A m \in Nodes, s \in Sides :
            Kid(u, m, s) = IF m = p /\ s = side THEN inner
                      ELSE IF m = c /\ s = Other(side) THEN p
                      ELSE IF m = Parent(p) /\ (s = "left" <=> Child(m, "left") = p)
                      THEN c
                      ELSE Kid(t, m, s)
          BY <1>15, <3>1, <3>2 DEF SameKids, far
    <3>4. \A m \in Nodes : Up(u, m) = Up(t6, m) /\ Hue(u, m) = Hue(t6, m)
          BY <3>1 DEF SameUp
    <3> QED BY <1>16, <1>17, <2>1, <3>1, <3>3, <3>4 DEF Turned, g
  <2>2. CASE g # Nil
    <3>1. KidSet(t6, u, g, gs, c) /\ g \in Nodes
          BY <1>13, <2>2 DEF LinkSet, Ptr, g, gs
    <3>2. \A m \in Nodes, s \in Sides :
            Kid(u, m, s) = IF m = g /\ s = gs THEN c ELSE Kid(t6, m, s)
          BY <3>1 DEF KidSet
    <3>3. g # p /\ g # c
          BY <1>2, <2>2, <3>1 DEF g
    <3>4. \A s \in Sides : s = gs <=> (s = "left" <=> Child(g, "left") = p)
          BY DEF gs, Sides
    <3>5. SameUp(t6, u) /\ u.root = t.root /\ u.leftmost = t.leftmost
          BY <1>18, <3>1 DEF KidSet, SameAnchors
    <3>6. \A m \in Nodes, s \in Sides :
            Kid(u, m, s) = IF m = p /\ s = side THEN inner
                      ELSE IF m = c /\ s = far THEN p
                      ELSE IF m = g /\ (s = "left" <=> Child(m, "left") = p)
                      THEN c
                      ELSE Kid(t, m, s)
          BY <1>15, <3>2, <3>3, <3>4
    <3> QED BY <1>16, <1>17, <2>2, <3>5, <3>6 DEF Turned, SameUp, far, g
  <2> QED BY <2>1, <2>2
<1> QED BY <1>13, <1>14, <1>19

-----------------------------------------------------------------------------
(* The tree that the pending stores lead to, by what the call is about to  *)
(* do with it.                                                             *)

(* bh[n] is the number of black nodes on each path down from n; the paths  *)
(* to the given side of p have one less.                                   *)
Bal(t, mem, bh, p, side) ==
  /\ bh \in [Ptr -> Nat] /\ bh[Nil] = 0
  /\ \A n \in mem, s \in Sides :
       bh[n] = bh[Kid(t, n, s)] + (IF n = p /\ s = side THEN 1 ELSE 0)
                 + (IF Hue(t, n) THEN 0 ELSE 1)

(* Only x may be red below a red node.                                     *)
NoRedRed(t, mem, x) ==
  \A n \in mem, s \in Sides :
    Hue(t, n) /\ Red(t, Kid(t, n, s)) => Kid(t, n, s) = x

Colours(t, pc, node, parent, mem, bh) ==
  \/ /\ pc \in {"idle", "done"}
     /\ Bal(t, mem, bh, Nil, "left") /\ NoRedRed(t, mem, Nil)
     /\ ~ Red(t, t.root)
  \/ /\ pc = "insert"
     /\ Bal(t, mem, bh, Nil, "left") /\ NoRedRed(t, mem, node)
     /\ Red(t, t.root) => t.root = node
     /\ node \in mem /\ Hue(t, node) /\ parent = Up(t, node)
  \/ /\ pc = "erase"
     /\ \E side \in Sides : /\ Bal(t, mem, bh, parent, side)
                            /\ Kid(t, parent, side) = node
     /\ NoRedRed(t, mem, Nil)
     /\ ~ Red(t, t.root)
     /\ parent \in mem /\ ~ Red(t, node)

(* The comparison of the caller compares keys: as get_tree() does, it goes *)
(* left when the node in the tree has the smaller one.                     *)
IsKey(key) ==
  /\ key \in [Nodes -> Int]
  /\ \A m, n \in Nodes :
       Cmp(m, n) = IF key[m] < key[n] THEN -1 ELSE IF key[m] > key[n] THEN 1 ELSE 0

Keyed == \E key : IsKey(key)

Sorted(mem, pos) == \A m, n \in mem : pos[m] < pos[n] => Cmp(n, m) = -1

LeftmostOf(t, mem, pos) ==
  /\ t.leftmost \in mem \cup {Nil}
  /\ \A n \in mem : t.leftmost # Nil
       /\ (n # t.leftmost => pos[t.leftmost] < pos[n])

(* What was erased may point into the tree until it is freed.              *)
Loose(t, pc, mem) ==
  \A n \in Nodes \ mem, side \in Sides :
    Kid(t, n, side) \in IF pc = "idle" THEN {Nil} ELSE mem \cup {Nil}

Head_(t, pc, node, parent, mem) ==
  /\ IsFiniteSet(mem) /\ Loose(t, pc, mem)
  /\ \E pos, sub, bh : /\ Shape(t, mem, sub, pos)
                       /\ Keyed => Sorted(mem, pos)
                       /\ LeftmostOf(t, mem, pos)
                       /\ Colours(t, pc, node, parent, mem, bh)

(* A bound of the ranks of finitely many nodes.                            *)
LEMMA Highest ==
  ASSUME NEW S, IsFiniteSet(S), S \subseteq Nodes, NEW r \in [Nodes -> Nat]
  PROVE  \E k \in Nat : \A n \in S : r[n] < k
<1> DEFINE Good == {s \in SUBSET S : \E k \in Nat : \A n \in s : r[n] < k}
<1>1. ASSUME NEW s \in SUBSET S,
             \A u \in SUBSET S : Cardinality(u) < Cardinality(s) => u \in Good
      PROVE  s \in Good
  <2>1. CASE s = {}
        BY <2>1
  <2>2. CASE s # {}
    <3>1. PICK x \in s : TRUE
          BY <2>2
    <3>2. /\ IsFiniteSet(s) /\ Cardinality(s \ {x}) = Cardinality(s) - 1
          /\ Cardinality(s) \in Nat
          BY <3>1, FS_Subset, FS_RemoveElement, FS_CardinalityType
    <3>3. s \ {x} \in Good
          BY <1>1, <3>2
    <3>4. PICK k \in Nat : \A n \in s \ {x} : r[n] < k
          BY <3>3
    <3>5. PICK j \in Nat : j > k /\ j > r[x]
      <4>1. r[x] \in Nat /\ k + r[x] + 1 \in Nat
            BY <3>1
      <4> QED BY <4>1
    <3>6. \A n \in s : r[n] < j
          BY <3>4, <3>5
    <3> QED BY <3>6
  <2> QED BY <2>1, <2>2
<1>2. \A s \in SUBSET S :
        (\A u \in SUBSET S : Cardinality(u) < Cardinality(s) => u \in Good)
          => s \in Good
      BY <1>1
<1> HIDE DEF Good
<1>3. \A s \in SUBSET S : s \in Good
      BY <1>2, CardinalityInduction
<1>4. S \in Good
      BY <1>3
<1> QED BY <1>4 DEF Good

(* What is not in the tree can be ranked above what is.                    *)
LEMMA HighRank ==
  ASSUME NEW t, NEW mem, NEW pc, NEW sub, NEW pos, Ranked(t), IsFiniteSet(mem),
         Loose(t, pc, mem), Shape(t, mem, sub, pos)
  PROVE  \E r : Ranks(r, t) /\ \A n \in Nodes \ mem, m \in mem : r[m] < r[n]
<1>1. PICK r \in [Nodes -> Nat] : Ranks(r, t)
      BY DEF Ranked
<1>2. mem \subseteq Nodes /\ Nil \notin Nodes
      BY NilIsNoNode DEF Shape
<1>3. PICK k \in Nat : \A n \in mem : r[n] < k
      BY <1>2, Highest
<1>4. PICK r2 : r2 = [n \in Nodes |-> IF n \in mem THEN r[n] ELSE k]
      OBVIOUS
<1>5. /\ r2 \in [Nodes -> Nat]
      /\ \A n \in mem : r2[n] = r[n]
      /\ \A n \in Nodes \ mem : r2[n] = k
      BY <1>2, <1>4
<1>6. ASSUME NEW n \in Nodes, NEW s \in Sides, Kid(t, n, s) \in Nodes
      PROVE  r2[Kid(t, n, s)] < r2[n]
  <2>1. Kid(t, n, s) \in mem
        BY <1>2, <1>6 DEF Shape, LinksAt, Loose
  <2>2. r[Kid(t, n, s)] < r[n]
        BY <1>1, <1>6 DEF Ranks
  <2> QED BY <1>3, <1>5, <2>1, <2>2
<1> QED BY <1>3, <1>5, <1>6 DEF Ranks

(* The children after a rotation.                                          *)
LEMMA RotKids ==
  ASSUME NEW t, NEW mem, NEW sub, NEW pos, Shape(t, mem, sub, pos),
         NEW p \in mem, NEW side \in Sides, NEW c, c = Kid(t, p, side), c # Nil,
         NEW u, Rotated(t, u, p, c, side)
  PROVE  /\ c \in mem /\ c # p
         /\ Kid(u, p, side) = Kid(t, c, Other(side))
         /\ Kid(u, p, Other(side)) = Kid(t, p, Other(side))
         /\ Kid(u, c, side) = Kid(t, c, side)
         /\ Kid(u, c, Other(side)) = p
         /\ \A n \in mem \ {p, c}, s \in Sides :
              /\ Kid(t, n, s) # c
              /\ Kid(u, n, s) = IF Kid(t, n, s) = p THEN c ELSE Kid(t, n, s)
         /\ u.root = IF t.root = p THEN c ELSE t.root
<1>1. /\ mem \subseteq Nodes /\ Nil \notin Nodes
      /\ \A n \in mem : LinksAt(t, mem, n)
      BY NilIsNoNode DEF Shape
<1>2. /\ c \in mem /\ c # p /\ c # Up(t, p) /\ Up(t, p) # p /\ Up(t, c) = p
      /\ Kid(t, p, Other(side)) # p /\ Kid(t, p, Other(side)) # c
      /\ Kid(t, c, side) # p
  <2>1. /\ p # Nil /\ c \in mem /\ c # p /\ c # Up(t, p) /\ Up(t, p) # p /\ Up(t, c) = p
        /\ c # Kid(t, p, Other(side))
        BY Around
  <2>2. PICK far \in Sides : far = Other(side)
        BY OtherSide
  <2>3. Kid(t, p, far) # p
        BY Around
  <2>4. Kid(t, c, side) # Nil => Up(t, Kid(t, c, side)) = c
        BY <1>1, <2>1 DEF LinksAt
  <2> QED BY <2>1, <2>2, <2>3, <2>4
<1>3. \A m \in mem, s \in Sides :
        Kid(u, m, s) = IF m = p /\ s = side THEN Kid(t, c, Other(side))
                       ELSE IF m = c /\ s = Other(side) THEN p
                       ELSE IF m = Up(t, p) /\ Kid(t, m, s) = p THEN c
                       ELSE Kid(t, m, s)
      BY <1>1 DEF Rotated
<1>4. \A n \in mem, s \in Sides : Kid(t, n, s) # Nil => Up(t, Kid(t, n, s)) = n
      BY <1>1 DEF LinksAt
<1>5. Up(t, p) = Nil <=> t.root = p
      BY <1>1 DEF Shape, LinksAt
<1>6. u.root = IF t.root = p THEN c ELSE t.root
      BY <1>5 DEF Rotated
<1>7. \A n \in mem \ {p, c}, s \in Sides :
              /\ Kid(t, n, s) # c
              /\ Kid(u, n, s) = IF Kid(t, n, s) = p THEN c ELSE Kid(t, n, s)
      BY <1>1, <1>2, <1>3, <1>4
<1> QED BY <1>2, <1>3, <1>6, <1>7, OtherSide

(* A rotation whose links are known.                                       *)
LEMMA TurnRotates ==
  ASSUME tree \in Trees, NEW mem, NEW sub, NEW pos, Shape(tree, mem, sub, pos),
         NEW p \in mem, NEW side \in Sides, NEW c, c = Kid(tree, p, side), c # Nil,
         NEW x, x = Nil \/ x = Kid(tree, c, side),
         NEW b, NEW red, NEW u,
         Turned(tree, u, p, c, side, Kid(tree, c, Other(side)), x, b, red)
  PROVE  Rotated(tree, u, p, c, side)
<1>1. /\ mem \subseteq Nodes /\ Nil \notin Nodes
      /\ \A n \in mem : LinksAt(tree, mem, n)
      BY NilIsNoNode DEF Shape
<1>2. /\ c \in mem /\ Up(tree, c) = p /\ c # p
      /\ Kid(tree, c, side) # p
      /\ Kid(tree, c, side) # Nil => Up(tree, Kid(tree, c, side)) = c
      BY Around
<1>3. ASSUME NEW m \in Nodes, NEW s \in Sides
      PROVE  m = Up(tree, p) =>
               ((s = "left" <=> Kid(tree, m, "left") = p) <=> Kid(tree, m, s) = p)
  <2> SUFFICES ASSUME m = Up(tree, p)
               PROVE  (s = "left" <=> Kid(tree, m, "left") = p) <=> Kid(tree, m, s) = p
      OBVIOUS
  <2>1. m \in mem /\ \E z \in Sides : Kid(tree, m, z) = p
        BY <1>1 DEF LinksAt
  <2>2. Kid(tree, m, "left") = p \/ Kid(tree, m, "right") = p
        BY <2>1 DEF Sides
  <2>3. ~ (Kid(tree, m, "left") = p /\ Kid(tree, m, "right") = p)
        BY <1>1, <2>1, Around DEF Sides, Other
  <2> QED BY <2>2, <2>3 DEF Sides
<1>4. Parent(p) = Up(tree, p) /\ \A m, s : Child(m, s) = Kid(tree, m, s)
      BY DEF Parent, Child, Up, Kid
<1>5. \A m \in Nodes, s \in Sides :
       Kid(u, m, s) = IF m = p /\ s = side THEN Kid(tree, c, Other(side))
                      ELSE IF m = c /\ s = Other(side) THEN p
                      ELSE IF m = Up(tree, p) /\ Kid(tree, m, s) = p THEN c
                      ELSE Kid(tree, m, s)
      BY <1>3, <1>4 DEF Turned
<1>6. \A m \in Nodes :
       Up(u, m) = IF m = c THEN Up(tree, p)
                  ELSE IF m = p THEN c
                  ELSE IF m = Kid(tree, c, Other(side)) THEN p
                  ELSE Up(tree, m)
      BY <1>1, <1>2, <1>4 DEF Turned
<1> QED BY <1>4, <1>5, <1>6 DEF Turned, Rotated

-----------------------------------------------------------------------------
(* Rotations from the head of a loop, where memory is the whole tree.      *)

LEMMA Reads ==
  /\ \A m, s : Child(m, s) = Kid(tree, m, s)
  /\ \A m : Parent(m) = Up(tree, m) /\ (IsRed(m) <=> Red(tree, m))
BY DEF Child, Parent, IsRed, Kid, Up, Red, Hue

(* What stays of the head of a loop when only links inside the tree have   *)
(* changed.                                                                *)
LEMMA RotKeeps ==
  ASSUME NEW t, NEW mem, NEW sub, NEW pos, Shape(t, mem, sub, pos),
         NEW p \in mem, NEW side \in Sides, NEW c, c = Kid(t, p, side), c # Nil,
         NEW u, Rotated(t, u, p, c, side),
         NEW pc, pc # "idle", Loose(t, pc, mem), LeftmostOf(t, mem, pos)
  PROVE  /\ LeftmostOf(u, mem, pos)
         /\ \A pc2 : pc2 # "idle" => Loose(u, pc2, mem)
<1>1. mem \subseteq Nodes /\ Nil \notin Nodes
      BY NilIsNoNode DEF Shape
<1>2. c \in mem /\ Up(t, p) \in mem \cup {Nil}
      BY Around
<1>3. \A n \in Nodes \ mem, s \in Sides : Kid(u, n, s) = Kid(t, n, s)
      BY <1>1, <1>2 DEF Rotated
<1>4. u.leftmost = t.leftmost
      BY DEF Rotated
<1> QED BY <1>3, <1>4 DEF Loose, LeftmostOf

(* Memory at the head of a loop, the stores of a rotation of it, and what  *)
(* they make of it.                                                        *)
Framed(pc, mem, sub, pos) ==
  /\ tree \in Trees /\ Ranked(tree) /\ IsFiniteSet(mem)
  /\ pc # "idle" /\ Loose(tree, pc, mem)
  /\ Shape(tree, mem, sub, pos) /\ LeftmostOf(tree, mem, pos)

StillFramed(u, mem, pos) ==
  /\ u \in Trees
  /\ \E sub2 : Shape(u, mem, sub2, pos)
  /\ LeftmostOf(u, mem, pos)
  /\ \A pc2 : pc2 # "idle" => Loose(u, pc2, mem)

TurnOf(stores, p, c, side, inner, x, b, red) ==
  /\ side \in Sides /\ c = Kid(tree, p, side) /\ c # Nil
  /\ inner = Kid(tree, c, Other(side))
  /\ x = Nil \/ x = Kid(tree, c, side)
  /\ inner # Nil => b \in BOOLEAN
  /\ red \in BOOLEAN
  /\ stores = Turn(p, c, side, inner, x, b, red)

NewHues(t, u, p, c, inner, x, b, red) ==
  \A m \in Nodes :
    Hue(u, m) = IF m = p THEN red ELSE IF m = c THEN Hue(tree, p)
                ELSE IF m = inner THEN b
                ELSE IF m = x THEN FALSE ELSE Hue(t, m)

LEMMA SingleTurn ==
  ASSUME NEW pc, NEW mem, NEW sub, NEW pos, Framed(pc, mem, sub, pos),
         NEW p \in mem, NEW stores, NEW c, NEW side, NEW inner, NEW x, NEW b, NEW red,
         TurnOf(stores, p, c, side, inner, x, b, red)
  PROVE  \E u : /\ Leads(tree, stores, u) /\ Rotated(tree, u, p, c, side)
                /\ NewHues(tree, u, p, c, inner, x, b, red)
                /\ StillFramed(u, mem, pos)
<1>a. /\ tree \in Trees /\ Ranked(tree) /\ IsFiniteSet(mem)
      /\ pc # "idle" /\ Loose(tree, pc, mem)
      /\ Shape(tree, mem, sub, pos) /\ LeftmostOf(tree, mem, pos)
      BY DEF Framed
<1>b. /\ side \in Sides /\ c = Kid(tree, p, side) /\ c # Nil
      /\ inner = Kid(tree, c, Other(side))
      /\ x = Nil \/ x = Kid(tree, c, side)
      /\ inner # Nil => b \in BOOLEAN
      /\ red \in BOOLEAN
      /\ stores = Turn(p, c, side, inner, x, b, red)
      BY DEF TurnOf
<1> USE <1>a, <1>b
<1>1. PICK r : Ranks(r, tree) /\ \A n \in Nodes \ mem, m \in mem : r[m] < r[n]
      BY HighRank
<1>2. /\ mem \subseteq Nodes /\ Nil \notin Nodes /\ mem \cup {Nil} \subseteq Ptr
      /\ \A n \in mem : LinksAt(tree, mem, n)
      BY NilIsNoNode DEF Shape, Ptr
<1>3. /\ c \in mem /\ c # p /\ c # Up(tree, p) /\ Up(tree, p) # p
      /\ Up(tree, p) \in mem \cup {Nil} /\ Up(tree, c) = p
      /\ p # Nil
      BY Around
<1>4. /\ inner \in mem \cup {Nil} /\ inner # c
      /\ inner # Nil => Up(tree, inner) = c /\ inner # p
      BY <1>3, Around, OtherSide
<1>5. /\ x \in mem \cup {Nil} /\ x # c
      /\ x # Nil => Up(tree, x) = c /\ x # p
      BY <1>3, Around, OtherSide
<1>6. IsRed(p) = Hue(tree, p) /\ Hue(tree, p) \in BOOLEAN /\ IsRed(p) \in BOOLEAN
  <2>1. Hue(tree, p) \in BOOLEAN
        BY <1>2, TreeType
  <2> QED BY <1>3, <2>1 DEF IsRed, Hue
<1>7. r \in [Nodes -> Nat]
      /\ \A n \in Nodes, s \in Sides : Kid(tree, n, s) \in Nodes => r[Kid(tree, n, s)] < r[n]
      BY <1>1 DEF Ranks
<1>8. r[c] < r[p]
      BY <1>2, <1>3, <1>7
<1>9. inner \in Nodes => r[inner] < r[p]
  <2> SUFFICES ASSUME inner \in Nodes PROVE r[inner] < r[p]
      OBVIOUS
  <2>1. r[inner] < r[c]
        BY <1>2, <1>3, <1>7, OtherSide
  <2>2. r[inner] \in Nat /\ r[c] \in Nat /\ r[p] \in Nat
        BY <1>2, <1>3, <1>7
  <2> QED BY <1>8, <2>1, <2>2
<1>10. ASSUME NEW m \in Nodes, NEW s \in Sides, Kid(tree, m, s) = c
       PROVE  (m = p /\ s = side) \/ r[p] < r[m]
  <2>1. CASE m \in mem
    <3>1. m = p
          BY <1>2, <1>3, <1>10, <2>1 DEF LinksAt
    <3> QED BY <1>10, <3>1, Around, OtherSide
  <2>2. CASE m \notin mem
        BY <1>1, <2>2
  <2> QED BY <2>1, <2>2
<1>11. Up(tree, p) # Nil => r[p] < r[Up(tree, p)]
  <2> SUFFICES ASSUME Up(tree, p) # Nil PROVE r[p] < r[Up(tree, p)]
      OBVIOUS
  <2>1. PICK s \in Sides : Kid(tree, Up(tree, p), s) = p
        BY <1>2 DEF LinksAt
  <2> QED BY <1>2, <1>3, <1>7, <2>1
<1>12. PICK u, r2 :
         /\ u \in Trees
         /\ Leads(tree, stores, u)
         /\ Turned(tree, u, p, c, side, inner, x, b, red)
  <2>1. /\ p \in Nodes /\ c \in Nodes /\ inner \in Ptr /\ x \in Ptr /\ Parent(p) \in Ptr
        /\ inner # p /\ x # p
        BY <1>2, <1>3, <1>4, <1>5, Reads
  <2>2. Parent(p) # Nil => r[p] < r[Parent(p)] /\ Parent(p) # c
        BY <1>3, <1>11, Reads
  <2> QED BY <1>1, <1>3, <1>4, <1>5, <1>6, <1>8, <1>9, <1>10, <2>1, <2>2, DoTurn
<1>13. Rotated(tree, u, p, c, side)
       BY <1>12, TurnRotates
<1>14. \E sub2 : Shape(u, mem, sub2, pos)
       BY <1>13, RotShape
<1>15. LeftmostOf(u, mem, pos) /\ \A pc2 : pc2 # "idle" => Loose(u, pc2, mem)
       BY <1>13, RotKeeps
<1>16. NewHues(tree, u, p, c, inner, x, b, red)
       BY <1>6, <1>12 DEF Turned, NewHues
<1> QED BY <1>12, <1>13, <1>14, <1>15, <1>16 DEF StillFramed

(* A part of the tree, the nodes of part with p on top, is rearranged with *)
(* top on top.  Black counts and colours have to be looked at only there.  *)
Reworked(t, u, mem, part, p, top) ==
  /\ mem \subseteq Nodes /\ part \subseteq mem /\ p \in part /\ top \in part
  /\ \A n \in mem \ part, s \in Sides :
       /\ Kid(t, n, s) \in mem \cup {Nil}
       /\ Kid(t, n, s) \in part => Kid(t, n, s) = p
       /\ Kid(u, n, s) = IF Kid(t, n, s) = p THEN top ELSE Kid(t, n, s)
  /\ \A n \in mem \ part : Hue(u, n) = Hue(t, n)

LEMMA RestBal ==
  ASSUME NEW t, NEW u, NEW mem, NEW part, NEW p, NEW top,
         Reworked(t, u, mem, part, p, top),
         NEW bh, NEW q \in part \cup {Nil}, NEW z, Bal(t, mem, bh, q, z),
         NEW bh2 \in [Ptr -> Nat], bh2[Nil] = 0, bh2[top] = bh[p],
         \A n \in mem \ part : bh2[n] = bh[n],
         NEW q2 \in part \cup {Nil}, NEW z2,
         \A n \in part, s \in Sides :
           bh2[n] = bh2[Kid(u, n, s)] + (IF n = q2 /\ s = z2 THEN 1 ELSE 0)
                     + (IF Hue(u, n) THEN 0 ELSE 1)
  PROVE  Bal(u, mem, bh2, q2, z2)
<1>1. Nil \notin Nodes /\ bh[Nil] = 0
      BY NilIsNoNode DEF Bal
<1>2. ASSUME NEW n \in mem \ part, NEW s \in Sides
      PROVE  bh2[n] = bh2[Kid(u, n, s)] + (IF n = q2 /\ s = z2 THEN 1 ELSE 0)
                     + (IF Hue(u, n) THEN 0 ELSE 1)
  <2>1. bh2[Kid(u, n, s)] = bh[Kid(t, n, s)]
        BY <1>1 DEF Reworked
  <2>2. n # q /\ n # q2
        BY <1>1 DEF Reworked
  <2>3. bh[n] = bh[Kid(t, n, s)] + 0 + (IF Hue(t, n) THEN 0 ELSE 1)
        BY <2>2 DEF Bal
  <2> QED BY <2>1, <2>2, <2>3 DEF Reworked
<1> QED BY <1>2 DEF Bal

LEMMA RestRed ==
  ASSUME NEW t, NEW u, NEW mem, NEW part, NEW p, NEW top,
         Reworked(t, u, mem, part, p, top),
         NEW y, NoRedRed(t, mem, y),
         \A n \in mem \ part, s \in Sides : Kid(t, n, s) = y => y = Nil,
         Hue(u, top) => Hue(t, p),
         \A n \in part, s \in Sides : Hue(u, n) => ~ Red(u, Kid(u, n, s)),
         ~ Red(t, t.root), t.root \in mem \cup {Nil}, t.root \in part => t.root = p,
         u.root = IF t.root = p THEN top ELSE t.root
  PROVE  NoRedRed(u, mem, Nil) /\ ~ Red(u, u.root)
<1>1. Nil \notin Nodes
      BY NilIsNoNode
<1>2. ASSUME NEW n \in mem \ part, NEW s \in Sides, Hue(u, n), Red(u, Kid(u, n, s))
      PROVE  FALSE
  <2>1. Hue(t, n) /\ Kid(t, n, s) \in mem \cup {Nil}
        BY <1>2 DEF Reworked
  <2>2. CASE Kid(t, n, s) = p
    <3>1. Red(t, p) /\ p # Nil
          BY <1>1, <1>2, <2>2 DEF Red, Reworked
    <3> QED BY <2>1, <2>2, <3>1 DEF NoRedRed
  <2>3. CASE Kid(t, n, s) # p
    <3>1. Red(t, Kid(t, n, s)) /\ Kid(t, n, s) # Nil
          BY <1>1, <1>2, <2>1, <2>3 DEF Red, Reworked
    <3> QED BY <2>1, <3>1 DEF NoRedRed
  <2> QED BY <2>2, <2>3
<1>3. ~ Red(u, u.root)
      BY <1>1 DEF Red, Reworked
<1> QED BY <1>2, <1>3 DEF NoRedRed

(* The side that the code computes for a node that has a parent.           *)
LEMMA SideIs ==
  ASSUME NEW t, NEW mem, NEW sub, NEW pos, Shape(t, mem, sub, pos),
         NEW n \in mem, NEW g, g = Up(t, n), g # Nil,
         NEW side, side = IF n # Kid(t, g, "right") THEN "left" ELSE "right"
  PROVE  g \in mem /\ side \in Sides /\ Kid(t, g, side) = n /\ Kid(t, g, Other(side)) # n
<1>1. g \in mem /\ n # Nil
      BY NilIsNoNode DEF Shape, LinksAt
<1>2. PICK s \in Sides : Kid(t, g, s) = n
      BY DEF Shape, LinksAt
<1>3. Kid(t, g, Other(s)) # n
      BY <1>1, <1>2, Around
<1> QED BY <1>1, <1>2, <1>3 DEF Sides, Other

(* The black counts, taken apart.                                          *)
LEMMA BalNone ==
  ASSUME NEW t, NEW mem, NEW sub, NEW pos, Shape(t, mem, sub, pos),
         NEW bh, NEW z, Bal(t, mem, bh, Nil, z)
  PROVE  /\ bh \in [Ptr -> Nat] /\ bh[Nil] = 0
         /\ \A n \in mem, s \in Sides :
              /\ Kid(t, n, s) \in mem \cup {Nil}
              /\ bh[Kid(t, n, s)] \in Nat /\ bh[n] \in Nat
              /\ Hue(t, n) => bh[n] = bh[Kid(t, n, s)]
              /\ ~ Hue(t, n) => bh[n] = bh[Kid(t, n, s)] + 1
<1>1. bh \in [Ptr -> Nat] /\ bh[Nil] = 0
      BY DEF Bal
<1>2. mem \subseteq Nodes /\ Nil \notin Nodes /\ mem \cup {Nil} \subseteq Ptr
      BY NilIsNoNode DEF Shape, Ptr
<1>3. ASSUME NEW n \in mem, NEW s \in Sides
      PROVE  /\ Kid(t, n, s) \in mem \cup {Nil}
             /\ bh[Kid(t, n, s)] \in Nat /\ bh[n] \in Nat
             /\ Hue(t, n) => bh[n] = bh[Kid(t, n, s)]
             /\ ~ Hue(t, n) => bh[n] = bh[Kid(t, n, s)] + 1
  <2>1. bh[n] = bh[Kid(t, n, s)] + (IF n = Nil /\ s = z THEN 1 ELSE 0)
                 + (IF Hue(t, n) THEN 0 ELSE 1)
        BY DEF Bal
  <2>2. n # Nil /\ Kid(t, n, s) \in mem \cup {Nil}
        BY <1>2 DEF Shape, LinksAt
  <2>3. bh[Kid(t, n, s)] \in Nat /\ bh[n] \in Nat
        BY <1>1, <1>2, <2>2
  <2> QED BY <2>1, <2>2, <2>3
<1> QED BY <1>1, <1>3

LEMMA BalShort ==
  ASSUME NEW t, NEW mem, NEW sub, NEW pos, Shape(t, mem, sub, pos),
         NEW bh, NEW p \in mem, NEW side \in Sides, Bal(t, mem, bh, p, side)
  PROVE  /\ bh \in [Ptr -> Nat] /\ bh[Nil] = 0
         /\ \A n \in mem, s \in Sides :
              /\ Kid(t, n, s) \in mem \cup {Nil}
              /\ bh[Kid(t, n, s)] \in Nat /\ bh[n] \in Nat
              /\ Hue(t, n) /\ n # p => bh[n] = bh[Kid(t, n, s)]
              /\ ~ Hue(t, n) /\ n # p => bh[n] = bh[Kid(t, n, s)] + 1
         /\ bh[Kid(t, p, Other(side))] = bh[Kid(t, p, side)] + 1
         /\ Hue(t, p) => bh[p] = bh[Kid(t, p, side)] + 1
         /\ ~ Hue(t, p) => bh[p] = bh[Kid(t, p, side)] + 2
<1>1. bh \in [Ptr -> Nat] /\ bh[Nil] = 0
      BY DEF Bal
<1>2. mem \subseteq Nodes /\ Nil \notin Nodes /\ mem \cup {Nil} \subseteq Ptr
      BY NilIsNoNode DEF Shape, Ptr
<1>3. ASSUME NEW n \in mem, NEW s \in Sides
      PROVE  /\ Kid(t, n, s) \in mem \cup {Nil}
             /\ bh[Kid(t, n, s)] \in Nat /\ bh[n] \in Nat
             /\ bh[n] = bh[Kid(t, n, s)] + (IF n = p /\ s = side THEN 1 ELSE 0)
                 + (IF Hue(t, n) THEN 0 ELSE 1)
  <2>1. bh[n] = bh[Kid(t, n, s)] + (IF n = p /\ s = side THEN 1 ELSE 0)
                 + (IF Hue(t, n) THEN 0 ELSE 1)
        BY DEF Bal
  <2>2. n # Nil /\ Kid(t, n, s) \in mem \cup {Nil}
        BY <1>2 DEF Shape, LinksAt
  <2>3. bh[Kid(t, n, s)] \in Nat /\ bh[n] \in Nat
        BY <1>1, <1>2, <2>2
  <2> QED BY <2>1, <2>2, <2>3
<1>4. ASSUME NEW n \in mem, NEW s \in Sides, n # p
      PROVE  /\ Hue(t, n) => bh[n] = bh[Kid(t, n, s)]
             /\ ~ Hue(t, n) => bh[n] = bh[Kid(t, n, s)] + 1
      BY <1>3, <1>4
<1>5. /\ bh[p] = bh[Kid(t, p, side)] + 1 + (IF Hue(t, p) THEN 0 ELSE 1)
      /\ bh[p] = bh[Kid(t, p, Other(side))] + 0 + (IF Hue(t, p) THEN 0 ELSE 1)
      /\ bh[Kid(t, p, side)] \in Nat /\ bh[Kid(t, p, Other(side))] \in Nat
  <2>1. Other(side) \in Sides /\ Other(side) # side
        BY OtherSide
  <2> QED BY <1>3, <2>1
<1> QED BY <1>1, <1>3, <1>4, <1>5

LEMMA BalElse ==
  ASSUME NEW t, NEW mem, NEW sub, NEW pos, Shape(t, mem, sub, pos),
         NEW bh, NEW p \in mem, NEW side \in Sides, Bal(t, mem, bh, p, side),
         NEW n \in mem, NEW s \in Sides, n # p
  PROVE  /\ Hue(t, n) => bh[n] = bh[Kid(t, n, s)]
         /\ ~ Hue(t, n) => bh[n] = bh[Kid(t, n, s)] + 1
<1>1. bh[n] = bh[Kid(t, n, s)] + (IF n = p /\ s = side THEN 1 ELSE 0)
                 + (IF Hue(t, n) THEN 0 ELSE 1)
      BY DEF Bal
<1>2. bh[Kid(t, n, s)] \in Nat /\ bh[n] \in Nat
      BY BalShort
<1> QED BY <1>1, <1>2

(* What __rb_insert() knows when the parent is red.                        *)
LEMMA InsertAround ==
  ASSUME NEW t, NEW mem, NEW sub, NEW pos, Shape(t, mem, sub, pos),
         NEW node, NEW parent, NEW bh, Colours(t, "insert", node, parent, mem, bh),
         Red(t, parent), NEW g, g = Up(t, parent)
  PROVE  /\ Bal(t, mem, bh, Nil, "left") /\ NoRedRed(t, mem, node)
         /\ node \in mem /\ Hue(t, node)
         /\ parent \in mem /\ Up(t, node) = parent /\ Hue(t, parent)
         /\ g \in mem /\ ~ Hue(t, g) /\ g # Nil
         /\ \E s \in Sides : Kid(t, parent, s) = node
         /\ ~ Red(t, t.root)
<1>1. /\ Bal(t, mem, bh, Nil, "left") /\ NoRedRed(t, mem, node)
      /\ Red(t, t.root) => t.root = node
      /\ node \in mem /\ Hue(t, node) /\ parent = Up(t, node)
      BY DEF Colours
<1>2. /\ mem \subseteq Nodes /\ Nil \notin Nodes /\ t.root \in mem \cup {Nil}
      /\ t.root # Nil => Up(t, t.root) = Nil
      /\ \A n \in mem : LinksAt(t, mem, n)
      BY NilIsNoNode DEF Shape
<1>3. parent # Nil /\ Hue(t, parent)
      BY DEF Red
<1>4. parent \in mem /\ \E s \in Sides : Kid(t, parent, s) = node
      BY <1>1, <1>2, <1>3 DEF LinksAt
<1>5. parent # node
      BY <1>1, <1>4, Around
<1>6. ~ Red(t, t.root)
      BY <1>1, <1>2, <1>3
<1>7. g # Nil
  <2> SUFFICES ASSUME g = Nil PROVE FALSE
      OBVIOUS
  <2>1. t.root = parent
        BY <1>2, <1>4 DEF LinksAt
  <2> QED BY <1>3, <1>6, <2>1 DEF Red
<1>8. PICK s \in Sides : g \in mem /\ Kid(t, g, s) = parent
      BY <1>2, <1>4, <1>7 DEF LinksAt
<1>9. ~ Hue(t, g)
  <2>1. Hue(t, g) => Kid(t, g, s) = node
        BY <1>1, <1>8 DEF NoRedRed
  <2> QED BY <1>5, <1>8, <2>1
<1> QED BY <1>1, <1>3, <1>4, <1>6, <1>7, <1>8, <1>9

-----------------------------------------------------------------------------
(* The steps of __rb_insert().                                             *)

(* The stores lead from the tree in memory to a tree as it should be.      *)
Goes(stores, pc, node, parent, mem) ==
  \E u : Leads(tree, stores, u) /\ Head_(u, pc, node, parent, mem)

(* Stores that leave all links as they are.                                *)
LEMMA SameShape ==
  ASSUME NEW t, NEW u, NEW mem, NEW sub, NEW pos, Shape(t, mem, sub, pos),
         SameKids(t, u), SameAnchors(t, u), \A m \in Nodes : Up(u, m) = Up(t, m),
         NEW pc, pc # "idle", Loose(t, pc, mem), LeftmostOf(t, mem, pos)
  PROVE  /\ Shape(u, mem, sub, pos) /\ LeftmostOf(u, mem, pos)
         /\ \A pc2 : pc2 # "idle" => Loose(u, pc2, mem)
<1>1. mem \subseteq Nodes /\ t.root \in mem \cup {Nil} /\ Nil \notin Nodes
      BY NilIsNoNode DEF Shape
<1>2. /\ u.root = t.root /\ u.leftmost = t.leftmost
      /\ \A m \in Nodes, s \in Sides : Kid(u, m, s) = Kid(t, m, s)
      BY DEF SameKids, SameAnchors
<1>3. \A n \in mem : LinksAt(t, mem, n) /\ SplitAt(t, sub, pos, n)
      BY DEF Shape
<1>4. ASSUME NEW n \in mem PROVE LinksAt(u, mem, n) /\ SplitAt(u, sub, pos, n)
  <2>1. SplitAt(u, sub, pos, n)
        BY <1>1, <1>2, <1>3, OtherSide DEF SplitAt
  <2>2. LinksAt(u, mem, n)
        BY <1>1, <1>2, <1>3 DEF LinksAt
  <2> QED BY <2>1, <2>2
<1>5. Shape(u, mem, sub, pos)
      BY <1>1, <1>2, <1>4 DEF Shape
<1>6. LeftmostOf(u, mem, pos) /\ \A pc2 : pc2 # "idle" => Loose(u, pc2, mem)
      BY <1>2 DEF LeftmostOf, Loose
<1> QED BY <1>5, <1>6

LEMMA InsertDoneGoes ==
  ASSUME tree \in Trees, Ranked(tree), NEW mem, NEW node, NEW parent,
         Head_(tree, "insert", node, parent, mem), ~ Red(tree, parent)
  PROVE  Goes(IF parent = Nil THEN SetParentColor(node, Nil, FALSE) ELSE <<>>,
              "done", Nil, Nil, mem)
<1>1. PICK pos, sub, bh : /\ Shape(tree, mem, sub, pos)
                          /\ Keyed => Sorted(mem, pos)
                          /\ LeftmostOf(tree, mem, pos)
                          /\ Colours(tree, "insert", node, parent, mem, bh)
      BY DEF Head_
<1>2. /\ Bal(tree, mem, bh, Nil, "left") /\ NoRedRed(tree, mem, node)
      /\ Red(tree, tree.root) => tree.root = node
      /\ node \in mem /\ Hue(tree, node) /\ parent = Up(tree, node)
      BY <1>1 DEF Colours
<1>3. /\ mem \subseteq Nodes /\ Nil \notin Nodes /\ tree.root \in mem \cup {Nil}
      /\ tree.root # Nil => Up(tree, tree.root) = Nil
      /\ \A n \in mem : LinksAt(tree, mem, n)
      BY <1>1, NilIsNoNode DEF Shape
<1>4. IsFiniteSet(mem) /\ Loose(tree, "insert", mem)
      BY DEF Head_
<1>5. ASSUME NEW n \in mem, NEW s \in Sides, Kid(tree, n, s) = node
      PROVE  n = parent
  <2>1. LinksAt(tree, mem, n) /\ node # Nil
        BY <1>2, <1>3
  <2>2. Up(tree, Kid(tree, n, s)) = n
        BY <1>5, <2>1 DEF LinksAt
  <2> QED BY <1>2, <1>5, <2>2
<1>6. CASE parent # Nil
  <2>1. NoRedRed(tree, mem, Nil)
    <3> SUFFICES ASSUME NEW n \in mem, NEW s \in Sides, Hue(tree, n),
                        Red(tree, Kid(tree, n, s))
                 PROVE  FALSE
        BY DEF NoRedRed
    <3>1. Kid(tree, n, s) = node
          BY <1>2 DEF NoRedRed
    <3> QED BY <1>3, <1>5, <3>1 DEF Red
  <2>2. ~ Red(tree, tree.root)
        BY <1>2, <1>3, <1>6
  <2>3. Colours(tree, "done", Nil, Nil, mem, bh)
        BY <1>2, <2>1, <2>2 DEF Colours
  <2>4. Loose(tree, "done", mem)
        BY <1>4 DEF Loose
  <2>5. Head_(tree, "done", Nil, Nil, mem)
        BY <1>1, <1>4, <2>3, <2>4 DEF Head_
  <2> QED BY <1>6, <2>5, LeadsNil DEF Goes
<1>7. CASE parent = Nil
  <2>1. PICK r : Ranks(r, tree)
        BY DEF Ranked
  <2>2. PICK u \in Trees : /\ Leads(tree, SetParentColor(node, Nil, FALSE), u)
                           /\ UpSet(tree, u, node, Nil, FALSE)
        BY <1>2, <1>3, <2>1, DoUp DEF Ptr
  <2>3. /\ Shape(u, mem, sub, pos) /\ LeftmostOf(u, mem, pos) /\ Loose(u, "done", mem)
    <3>1. /\ SameKids(tree, u) /\ SameAnchors(tree, u)
          /\ \A m \in Nodes : Up(u, m) = Up(tree, m)
          BY <1>2, <1>7, <2>2 DEF UpSet
    <3> QED BY <1>1, <1>4, <3>1, SameShape
  <2>4. tree.root = node
        BY <1>2, <1>3, <1>7 DEF LinksAt
  <2>5. /\ \A m \in mem, s \in Sides : Kid(u, m, s) = Kid(tree, m, s)
        /\ \A m \in mem : Hue(u, m) = IF m = node THEN FALSE ELSE Hue(tree, m)
        /\ u.root = node
        BY <1>3, <2>2, <2>4 DEF UpSet, SameKids, SameAnchors
  <2>6. \A n \in mem, s \in Sides : Kid(tree, n, s) # node
        BY <1>3, <1>5, <1>7
  <2>7. bh \in [Ptr -> Nat] /\ bh[Nil] = 0 /\ node \in Ptr /\ node # Nil
        BY <1>2, <1>3 DEF Bal, Ptr
  <2>8. PICK bh2 : bh2 = [bh EXCEPT ![node] = bh[node] + 1]
        OBVIOUS
  <2>9. /\ bh2 \in [Ptr -> Nat] /\ bh2[node] = bh[node] + 1
        /\ \A n \in Ptr : n # node => bh2[n] = bh[n]
        BY <2>7, <2>8
  <2>10. \A n \in mem, s \in Sides :
           /\ bh[n] = bh[Kid(tree, n, s)] + 0 + (IF Hue(tree, n) THEN 0 ELSE 1)
           /\ Kid(tree, n, s) \in Ptr /\ n \in Ptr
         BY <1>2, <1>3 DEF Bal, LinksAt, Ptr
  <2>11. Bal(u, mem, bh2, Nil, "left")
    <3>1. ASSUME NEW n \in mem, NEW s \in Sides
          PROVE  bh2[n] = bh2[Kid(u, n, s)] + (IF n = Nil /\ s = "left" THEN 1 ELSE 0)
                            + (IF Hue(u, n) THEN 0 ELSE 1)
      <4>1. bh2[Kid(u, n, s)] = bh[Kid(tree, n, s)] /\ n # Nil
            BY <1>3, <2>5, <2>6, <2>9, <2>10
      <4>2. bh[n] = bh[Kid(tree, n, s)] + 0 + (IF Hue(tree, n) THEN 0 ELSE 1)
            BY <2>10
      <4>3. bh[Kid(tree, n, s)] \in Nat /\ bh[n] \in Nat
            BY <2>7, <2>10
      <4>4. CASE n = node
        <5>1. ~ Hue(u, n) /\ Hue(tree, n)
              BY <1>2, <2>5, <4>4
        <5>2. bh[n] = bh[Kid(tree, n, s)]
              BY <4>2, <4>3, <5>1
        <5> QED BY <2>9, <4>1, <4>3, <4>4, <5>1, <5>2
      <4>5. CASE n # node
            BY <2>5, <2>9, <2>10, <4>1, <4>2, <4>3, <4>5
      <4> QED BY <4>4, <4>5
    <3>2. bh2[Nil] = 0
          BY <2>7, <2>9 DEF Ptr
    <3> QED BY <2>9, <3>1, <3>2 DEF Bal
  <2>12. NoRedRed(u, mem, Nil) /\ ~ Red(u, u.root)
    <3>1. ~ Red(u, u.root)
          BY <1>2, <2>5 DEF Red
    <3>2. ASSUME NEW n \in mem, NEW s \in Sides, Hue(u, n), Red(u, Kid(u, n, s))
          PROVE  FALSE
      <4>1. Kid(tree, n, s) \in mem /\ Kid(tree, n, s) # node
            BY <1>3, <2>5, <2>6, <3>2 DEF LinksAt, Red
      <4>2. Hue(tree, n) /\ Red(tree, Kid(tree, n, s))
            BY <2>5, <3>2, <4>1 DEF Red
      <4> QED BY <1>2, <4>1, <4>2 DEF NoRedRed
    <3> QED BY <3>1, <3>2 DEF NoRedRed
  <2>13. Colours(u, "done", Nil, Nil, mem, bh2)
         BY <2>11, <2>12 DEF Colours
  <2>14. Head_(u, "done", Nil, Nil, mem)
         BY <1>1, <1>4, <2>3, <2>13 DEF Head_
  <2> QED BY <1>7, <2>2, <2>14 DEF Goes
<1> QED BY <1>6, <1>7

LEMMA InsertFlipGoes ==
  ASSUME tree \in Trees, Ranked(tree), NEW mem, NEW node, NEW parent,
         Head_(tree, "insert", node, parent, mem), Red(tree, parent),
         NEW g, g = Up(tree, parent),
         NEW side \in Sides, Kid(tree, g, side) = parent,
         NEW uncle, uncle = Kid(tree, g, Other(side)), Red(tree, uncle)
  PROVE  Goes(SetParentColor(uncle, g, FALSE) \o SetParentColor(parent, g, FALSE)
                \o SetParentColor(g, Up(tree, g), TRUE),
              "insert", g, Up(tree, g), mem)
<1>1. PICK pos, sub, bh : /\ Shape(tree, mem, sub, pos)
                          /\ Keyed => Sorted(mem, pos)
                          /\ LeftmostOf(tree, mem, pos)
                          /\ Colours(tree, "insert", node, parent, mem, bh)
      BY DEF Head_
<1>2. /\ Bal(tree, mem, bh, Nil, "left") /\ NoRedRed(tree, mem, node)
      /\ node \in mem /\ Hue(tree, node)
      /\ parent \in mem /\ Up(tree, node) = parent /\ Hue(tree, parent)
      /\ g \in mem /\ ~ Hue(tree, g)
      /\ ~ Red(tree, tree.root)
      BY <1>1, InsertAround
<1>3. /\ mem \subseteq Nodes /\ Nil \notin Nodes /\ tree.root \in mem \cup {Nil}
      /\ \A n \in mem : LinksAt(tree, mem, n)
      /\ mem \cup {Nil} \subseteq Ptr
      BY <1>1, NilIsNoNode DEF Shape, Ptr
<1>4. IsFiniteSet(mem) /\ Loose(tree, "insert", mem)
      BY DEF Head_
<1>5. /\ uncle \in mem /\ uncle # g /\ parent # g /\ Hue(tree, uncle)
      /\ Up(tree, uncle) = g /\ Up(tree, g) \in mem \cup {Nil} /\ uncle # parent
  <2>1. parent # g /\ uncle # parent /\ Up(tree, g) \in mem \cup {Nil}
        BY <1>1, <1>2, <1>3, Around
  <2>2. Other(side) \in Sides /\ uncle # Nil /\ Hue(tree, uncle)
        BY OtherSide DEF Red
  <2> QED BY <1>1, <1>2, <2>1, <2>2, Around
<1>6. PICK r : Ranks(r, tree)
      BY DEF Ranked
<1>7. PICK t1 \in Trees : /\ Leads(tree, SetParentColor(uncle, g, FALSE), t1)
                          /\ Ranks(r, t1) /\ UpSet(tree, t1, uncle, g, FALSE)
      BY <1>2, <1>3, <1>5, <1>6, DoUp
<1>8. PICK t2 \in Trees : /\ Leads(t1, SetParentColor(parent, g, FALSE), t2)
                          /\ Ranks(r, t2) /\ UpSet(t1, t2, parent, g, FALSE)
      BY <1>2, <1>3, <1>7, DoUp
<1>9. PICK u \in Trees : /\ Leads(t2, SetParentColor(g, Up(tree, g), TRUE), u)
                         /\ Ranks(r, u) /\ UpSet(t2, u, g, Up(tree, g), TRUE)
      BY <1>2, <1>3, <1>5, <1>8, DoUp
<1>10. Leads(tree, SetParentColor(uncle, g, FALSE) \o SetParentColor(parent, g, FALSE)
                     \o SetParentColor(g, Up(tree, g), TRUE), u)
  <2>1. Leads(tree, SetParentColor(uncle, g, FALSE) \o SetParentColor(parent, g, FALSE), t2)
        BY <1>7, <1>8, LeadsOn
  <2> QED BY <1>9, <2>1, LeadsOn
<1>11. SameKids(tree, u) /\ SameAnchors(tree, u)
       BY <1>7, <1>8, <1>9 DEF UpSet, SameKids, SameAnchors
<1>12. \A m \in Nodes :
         /\ Up(u, m) = Up(tree, m)
         /\ Hue(u, m) = IF m = g THEN TRUE ELSE IF m \in {parent, uncle} THEN FALSE
                        ELSE Hue(tree, m)
  <2>1. Up(tree, parent) = g
        OBVIOUS
  <2> QED BY <1>5, <1>7, <1>8, <1>9, <2>1 DEF UpSet
<1>13. Shape(u, mem, sub, pos) /\ LeftmostOf(u, mem, pos) /\ Loose(u, "insert", mem)
  <2>1. \A m \in Nodes : Up(u, m) = Up(tree, m)
        BY <1>12
  <2>2. Shape(tree, mem, sub, pos) /\ LeftmostOf(tree, mem, pos)
        BY <1>1
  <2>3. Loose(tree, "insert", mem) /\ "insert" # "idle"
        BY <1>4
  <2>4. SameKids(tree, u) /\ SameAnchors(tree, u)
        BY <1>11
  <2>5. PICK pc : pc = "insert" /\ pc # "idle" /\ Loose(tree, pc, mem)
        BY <2>3
  <2>6. Shape(u, mem, sub, pos) /\ LeftmostOf(u, mem, pos)
        BY <2>1, <2>2, <2>4, <2>5, SameShape
  <2>7. \A pc2 : pc2 # "idle" => Loose(u, pc2, mem)
        BY <2>1, <2>2, <2>4, <2>5, SameShape
  <2> QED BY <2>3, <2>6, <2>7
<1>14. PICK part : part = {g, parent, uncle}
       OBVIOUS
<1>15. /\ \A m \in mem, s \in Sides : Kid(u, m, s) = Kid(tree, m, s)
       /\ u.root = tree.root
       BY <1>3, <1>11 DEF SameKids, SameAnchors
<1>16. Reworked(tree, u, mem, part, g, g)
  <2>1. ASSUME NEW n \in mem \ part, NEW s \in Sides
        PROVE  /\ Kid(tree, n, s) \in mem \cup {Nil}
               /\ Kid(tree, n, s) \in part => Kid(tree, n, s) = g
    <3>1. /\ Kid(tree, n, s) \in mem \cup {Nil}
          /\ Kid(tree, n, s) # Nil => Up(tree, Kid(tree, n, s)) = n
          BY <1>3 DEF LinksAt
    <3> QED BY <1>2, <1>3, <1>5, <1>14, <3>1
  <2>2. \A n \in mem \ part : Hue(u, n) = Hue(tree, n)
        BY <1>3, <1>12, <1>14
  <2>3. part \subseteq mem /\ g \in part
        BY <1>2, <1>5, <1>14
  <2>4. \A n \in mem \ part, s \in Sides :
          Kid(u, n, s) = IF Kid(tree, n, s) = g THEN g ELSE Kid(tree, n, s)
        BY <1>15
  <2> QED BY <1>3, <2>1, <2>2, <2>3, <2>4 DEF Reworked
<1>17. PICK bh2 : bh2 = [bh EXCEPT ![parent] = bh[g], ![uncle] = bh[g]]
       OBVIOUS
<1>18. /\ bh \in [Ptr -> Nat] /\ bh[Nil] = 0
       /\ \A n \in mem, s \in Sides :
              /\ Kid(tree, n, s) \in mem \cup {Nil}
              /\ bh[Kid(tree, n, s)] \in Nat /\ bh[n] \in Nat
              /\ Hue(tree, n) => bh[n] = bh[Kid(tree, n, s)]
              /\ ~ Hue(tree, n) => bh[n] = bh[Kid(tree, n, s)] + 1
       BY <1>1, <1>2, BalNone
<1>19. /\ bh2 \in [Ptr -> Nat] /\ bh2[parent] = bh[g] /\ bh2[uncle] = bh[g]
       /\ \A n \in Ptr : n \notin {parent, uncle} => bh2[n] = bh[n]
       BY <1>2, <1>3, <1>5, <1>17, <1>18
<1>21. bh[g] = bh[parent] + 1 /\ bh[g] = bh[uncle] + 1
  <2>1. Other(side) \in Sides
        BY OtherSide
  <2> QED BY <1>2, <1>18, <2>1
<1>22. ASSUME NEW n \in part, NEW s \in Sides
       PROVE  bh2[n] = bh2[Kid(u, n, s)] + (IF n = Nil /\ s = "left" THEN 1 ELSE 0)
                        + (IF Hue(u, n) THEN 0 ELSE 1)
  <2>0. n # Nil /\ n \in mem /\ Kid(u, n, s) = Kid(tree, n, s)
        BY <1>2, <1>3, <1>5, <1>14, <1>15
  <2>1. CASE n = g
    <3>1. Kid(tree, n, s) = parent \/ Kid(tree, n, s) = uncle
          BY <1>2, <2>1, OtherSide
    <3>2. bh2[Kid(u, n, s)] = bh[g] /\ bh2[n] = bh[g] /\ Hue(u, n)
          BY <1>2, <1>3, <1>5, <1>12, <1>19, <2>0, <2>1, <3>1
    <3> QED BY <1>2, <1>18, <2>0, <3>2
  <2>2. CASE n \in {parent, uncle}
    <3>1. Up(tree, n) = g /\ n # g /\ Hue(tree, n) /\ ~ Hue(u, n) /\ bh2[n] = bh[n] + 1
          BY <1>2, <1>3, <1>5, <1>12, <1>19, <1>21, <2>0, <2>2
    <3>2. Kid(tree, n, s) \notin {parent, uncle}
      <4>1. Kid(tree, n, s) # Nil => Up(tree, Kid(tree, n, s)) = n
            BY <1>3, <2>0 DEF LinksAt
      <4> QED BY <1>2, <1>3, <1>5, <3>1, <4>1
    <3>3. bh[n] = bh[Kid(tree, n, s)]
          BY <1>18, <2>0, <3>1
    <3>4. bh2[Kid(u, n, s)] = bh[n] /\ bh[n] \in Nat
          BY <1>3, <1>19, <1>18, <2>0, <3>2, <3>3
    <3> QED BY <2>0, <3>1, <3>4
  <2> QED BY <1>14, <2>1, <2>2
<1>23. Bal(u, mem, bh2, Nil, "left")
  <2>1. bh2[Nil] = 0 /\ bh2[g] = bh[g] /\ \A n \in mem \ part : bh2[n] = bh[n]
        BY <1>2, <1>3, <1>5, <1>14, <1>18, <1>19
  <2> QED BY <1>2, <1>16, <1>19, <1>22, <2>1, RestBal
<1>24. NoRedRed(u, mem, g)
  <2> SUFFICES ASSUME NEW n \in mem, NEW s \in Sides, Hue(u, n),
                      Red(u, Kid(u, n, s)), Kid(u, n, s) # g
               PROVE  FALSE
      BY DEF NoRedRed
  <2>1. /\ Kid(u, n, s) = Kid(tree, n, s) /\ Kid(tree, n, s) \in mem
        /\ Up(tree, Kid(tree, n, s)) = n
    <3>1. Kid(u, n, s) = Kid(tree, n, s) /\ Kid(u, n, s) # Nil
          BY <1>15 DEF Red
    <3>2. LinksAt(tree, mem, n)
          BY <1>3
    <3> QED BY <3>1, <3>2 DEF LinksAt
  <2>2. /\ Kid(tree, n, s) \notin {parent, uncle} /\ Red(tree, Kid(tree, n, s))
        BY <1>3, <1>12, <2>1 DEF Red
  <2>3. n # g
        BY <1>2, <2>2, OtherSide
  <2>4. Hue(tree, n) /\ n \notin {parent, uncle}
        BY <1>3, <1>12, <2>3
  <2>5. Kid(tree, n, s) = node
        BY <1>2, <2>2, <2>4 DEF NoRedRed
  <2> QED BY <1>2, <2>1, <2>4, <2>5
<1>25. Red(u, u.root) => u.root = g
       BY <1>2, <1>3, <1>12, <1>15 DEF Red
<1>26. Colours(u, "insert", g, Up(tree, g), mem, bh2)
       BY <1>2, <1>3, <1>12, <1>23, <1>24, <1>25 DEF Colours
<1>27. Head_(u, "insert", g, Up(tree, g), mem)
       BY <1>1, <1>4, <1>13, <1>26 DEF Head_
<1> QED BY <1>10, <1>27 DEF Goes

-----------------------------------------------------------------------------
(* Two rotations at once: d, the inner child of c, goes up above c and     *)
(* then above p.  The code does not store the link that is overwritten at  *)
(* once, so the tree in between is not one of those in memory.             *)

LEMMA GhostRotate ==
  ASSUME NEW t \in Trees, NEW mem, NEW sub, NEW pos, Shape(t, mem, sub, pos),
         NEW p \in mem, NEW side \in Sides, NEW c, c = Kid(t, p, side), c # Nil
  PROVE  \E u : Rotated(t, u, p, c, side)
<1>1. mem \subseteq Nodes /\ Nil \notin Nodes /\ mem \cup {Nil} \subseteq Ptr
      BY NilIsNoNode DEF Shape, Ptr
<1>2. c \in mem /\ Up(t, p) \in Ptr /\ Other(side) \in Sides
      BY <1>1, Around, OtherSide
<1>3. PICK f : f = [m \in Nodes |-> [s \in Sides |->
                      IF m = p /\ s = side THEN Kid(t, c, Other(side))
                      ELSE IF m = c /\ s = Other(side) THEN p
                      ELSE IF m = Up(t, p) /\ Kid(t, m, s) = p THEN c
                      ELSE Kid(t, m, s)]]
      OBVIOUS
<1>4. PICK g : g = [m \in Nodes |->
                      IF m = c THEN Up(t, p)
                      ELSE IF m = p THEN c
                      ELSE IF m = Kid(t, c, Other(side)) THEN p
                      ELSE Up(t, m)]
      OBVIOUS
<1>5. PICK root : root = IF Up(t, p) = Nil THEN c ELSE t.root
      OBVIOUS
<1>7. \A m \in Nodes, s \in Sides :
        f[m][s] = IF m = p /\ s = side THEN Kid(t, c, Other(side))
                      ELSE IF m = c /\ s = Other(side) THEN p
                      ELSE IF m = Up(t, p) /\ Kid(t, m, s) = p THEN c
                      ELSE Kid(t, m, s)
      BY <1>3
<1>8. \A m \in Nodes :
        g[m] = IF m = c THEN Up(t, p)
                      ELSE IF m = p THEN c
                      ELSE IF m = Kid(t, c, Other(side)) THEN p
                      ELSE Up(t, m)
      BY <1>4
<1>9. PICK u : u = [root |-> root, leftmost |-> t.leftmost,
                    node |-> [m \in Nodes |-> [left |-> f[m]["left"],
                                               right |-> f[m]["right"],
                                               parent |-> g[m], red |-> FALSE]]]
      OBVIOUS
<1>10. u.root = root /\ u.leftmost = t.leftmost
       BY <1>9
<1>11. ASSUME NEW m \in Nodes
       PROVE  /\ u.node[m]["left"] = f[m]["left"] /\ u.node[m]["right"] = f[m]["right"]
              /\ u.node[m].parent = g[m]
       BY <1>9
<1>12. \A m \in Nodes, s \in Sides : Kid(u, m, s) = f[m][s]
       BY <1>11 DEF Kid, Sides
<1>13. \A m \in Nodes : Up(u, m) = g[m]
       BY <1>11 DEF Up
<1> QED BY <1>5, <1>7, <1>8, <1>10, <1>12, <1>13 DEF Rotated

(* Which link of the parent is redirected.                                 *)
LEMMA LinkSide ==
  ASSUME NEW t, NEW mem, NEW sub, NEW pos, Shape(t, mem, sub, pos),
         NEW p \in mem, NEW m \in Nodes, m = Up(t, p), NEW s \in Sides
  PROVE  (s = "left" <=> Kid(t, m, "left") = p) <=> Kid(t, m, s) = p
<1>1. Nil \notin Nodes
      BY NilIsNoNode
<1>2. m \in mem /\ \E z \in Sides : Kid(t, m, z) = p
      BY <1>1 DEF Shape, LinksAt
<1>3. Kid(t, m, "left") = p \/ Kid(t, m, "right") = p
      BY <1>2 DEF Sides
<1>4. p # Nil
      BY <1>1 DEF Shape
<1>5. ~ (Kid(t, m, "left") = p /\ Kid(t, m, "right") = p)
      BY <1>2, <1>4, Around DEF Sides, Other
<1> QED BY <1>3, <1>5 DEF Sides

(* The tree after both rotations, and what must be in memory before the    *)
(* second one.                                                             *)
LEMMA TwiceRotated ==
  ASSUME tree \in Trees,
         NEW mem, NEW sub, NEW pos, Shape(tree, mem, sub, pos),
         NEW p \in mem, NEW side \in Sides, NEW far, far = Other(side),
         NEW c, c = Kid(tree, p, side), c # Nil,
         NEW d, d = Kid(tree, c, far), d # Nil,
         NEW near, near = Kid(tree, d, side), NEW inner, inner = Kid(tree, d, far),
         NEW t, t.root = tree.root, t.leftmost = tree.leftmost, NEW e,
         \A m \in Nodes, s \in Sides :
           Kid(t, m, s) = IF m = c /\ s = far THEN near
                          ELSE IF m = d /\ s = side THEN c
                          ELSE IF m = p /\ s = side THEN e ELSE Kid(tree, m, s),
         NEW x, (x = Nil /\ Up(t, c) = d) \/ x = c,
         \A m \in Nodes : m # c /\ m # d =>
           Up(t, m) = IF m = near THEN c ELSE Up(tree, m),
         NEW b, NEW red, NEW u, Turned(t, u, p, d, side, inner, x, b, red)
  PROVE  \E t1 : Rotated(tree, t1, c, d, far) /\ Rotated(t1, u, p, d, side)
<1>1. mem \subseteq Nodes /\ Nil \notin Nodes /\ \A n \in mem : LinksAt(tree, mem, n)
      BY NilIsNoNode DEF Shape
<1>2. far \in Sides /\ far # side /\ Other(far) = side /\ \A s \in Sides : s = side \/ s = far
      BY OtherSide
<1>3. /\ c \in mem /\ c # p /\ c # Up(tree, p) /\ Up(tree, p) # p /\ Up(tree, c) = p
      /\ p # Nil /\ c # Kid(tree, p, far) /\ Up(tree, p) \in mem \cup {Nil}
      BY Around
<1>4. d \in mem /\ d # c /\ Up(tree, d) = c /\ d # p /\ d # Nil
      BY <1>2, <1>3, Around
<1>5. /\ near \in mem \cup {Nil} /\ near # c /\ near # d
      /\ near # Nil => Up(tree, near) = d
      BY <1>3, <1>4, Around
<1>6. /\ inner \in mem \cup {Nil} /\ inner # c /\ inner # d
      /\ inner # Nil => Up(tree, inner) = d
      BY <1>2, <1>3, <1>4, Around
<1>7. d # Up(tree, p) /\ near # p /\ inner # p
  <2>0. sub[d] \subseteq sub[c]
        BY <1>2, <1>3, Around
  <2>1. d # Up(tree, p)
    <3> SUFFICES ASSUME d = Up(tree, p) PROVE FALSE
        OBVIOUS
    <3>1. PICK s \in Sides : Kid(tree, d, s) = p
          BY <1>1, <1>4 DEF LinksAt
    <3>2. /\ sub[p] \subseteq sub[d] /\ sub[d] \subseteq sub[c] /\ sub[c] \subseteq sub[p]
          /\ p \in sub[p] /\ p \notin sub[c]
      <4>1. sub[p] \subseteq sub[d]
            BY <1>4, <3>1, Around
      <4>3. sub[c] \subseteq sub[p] /\ p \in sub[p] /\ p \notin sub[c]
            BY Around
      <4> QED BY <2>0, <4>1, <4>3
    <3> QED BY <3>2
  <2> QED BY <1>3, <1>5, <1>6, <2>1
<1>8. PICK t1 : Rotated(tree, t1, c, d, far)
      BY <1>2, <1>3, <1>4, GhostRotate
<1>9. \A m \in Nodes, s \in Sides :
        Kid(t1, m, s) = IF m = c /\ s = far THEN near
                        ELSE IF m = d /\ s = side THEN c
                        ELSE IF m = p /\ Kid(tree, m, s) = c THEN d
                        ELSE Kid(tree, m, s)
      BY <1>2, <1>3, <1>8 DEF Rotated
<1>10. \A m \in Nodes : Up(t1, m) = IF m = d THEN p ELSE IF m = c THEN d
                                    ELSE IF m = near THEN c ELSE Up(tree, m)
       BY <1>2, <1>3, <1>8 DEF Rotated
<1>11. t1.root = tree.root /\ t1.leftmost = tree.leftmost
       BY <1>3, <1>8 DEF Rotated
<1>12. Kid(t1, d, far) = inner /\ Up(t1, p) = Up(tree, p)
       BY <1>1, <1>2, <1>3, <1>4, <1>7, <1>9, <1>10
<1>13. Parent(p) = Up(tree, p) /\ \A m, s : Child(m, s) = Kid(tree, m, s)
       BY Reads
<1>14. ASSUME NEW m \in Nodes, NEW s \in Sides
       PROVE  Kid(u, m, s) = IF m = p /\ s = side THEN Kid(t1, d, far)
                      ELSE IF m = d /\ s = far THEN p
                      ELSE IF m = Up(t1, p) /\ Kid(t1, m, s) = p THEN d
                      ELSE Kid(t1, m, s)
  <2>1. Kid(u, m, s) = IF m = p /\ s = side THEN inner
                      ELSE IF m = d /\ s = far THEN p
                      ELSE IF m = Up(tree, p) /\ (s = "left" <=> Kid(tree, m, "left") = p)
                      THEN d
                      ELSE Kid(t, m, s)
        BY <1>13 DEF Turned
  <2>2. CASE (m = p /\ s = side) \/ (m = d /\ s = far)
        BY <1>12, <2>1, <2>2
  <2>3. CASE m = Up(tree, p)
    <3>1. (s = "left" <=> Kid(tree, m, "left") = p) <=> Kid(tree, m, s) = p
          BY <2>3, LinkSide
    <3>2. m # p /\ m # c /\ m # d
          BY <1>3, <1>7, <2>3
    <3>3. Kid(t1, m, s) = Kid(tree, m, s) /\ Kid(t, m, s) = Kid(tree, m, s)
          BY <1>9, <3>2
    <3> QED BY <1>12, <2>1, <2>3, <3>1, <3>2, <3>3
  <2>4. CASE m # Up(tree, p) /\ ~ ((m = p /\ s = side) \/ (m = d /\ s = far))
    <3>1. Kid(u, m, s) = Kid(t, m, s)
          BY <2>1, <2>4
    <3>2. m = p => s = far /\ Kid(tree, m, s) # c
          BY <1>2, <1>3, <2>4
    <3>3. Kid(t, m, s) = Kid(t1, m, s)
          BY <1>9, <2>4, <3>2
    <3> QED BY <1>12, <2>4, <3>1, <3>3
  <2> QED BY <2>2, <2>3, <2>4
<1>15. ASSUME NEW m \in Nodes
       PROVE  Up(u, m) = IF m = d THEN Up(t1, p)
                  ELSE IF m = p THEN d
                  ELSE IF m = Kid(t1, d, far) THEN p
                  ELSE Up(t1, m)
  <2>1. Up(u, m) = IF m = p THEN d ELSE IF m = d THEN Up(tree, p)
                   ELSE IF m = inner THEN p ELSE IF m = x THEN d ELSE Up(t, m)
        BY <1>13 DEF Turned
  <2>2. CASE m = d \/ m = p \/ m = inner
        BY <1>4, <1>6, <1>7, <1>12, <2>1, <2>2
  <2>3. CASE m = c
        BY <1>3, <1>4, <1>6, <1>10, <1>12, <2>1, <2>3
  <2>4. CASE m # d /\ m # p /\ m # inner /\ m # c
    <3>1. m # x /\ Up(u, m) = Up(t, m)
          BY <1>1, <2>1, <2>4
    <3>2. Up(t, m) = Up(t1, m)
          BY <1>10, <2>4
    <3> QED BY <1>12, <2>4, <3>1, <3>2
  <2> QED BY <2>2, <2>3, <2>4
<1>16. /\ u.root = IF Up(t1, p) = Nil THEN d ELSE t1.root
       /\ u.leftmost = t1.leftmost
       BY <1>11, <1>12, <1>13 DEF Turned
<1>17. Rotated(t1, u, p, d, side)
       BY <1>2, <1>14, <1>15, <1>16 DEF Rotated
<1> QED BY <1>8, <1>17

LEMMA TwiceKids ==
  ASSUME NEW t, NEW mem, NEW sub, NEW pos, Shape(t, mem, sub, pos),
         NEW pc, pc # "idle", Loose(t, pc, mem), LeftmostOf(t, mem, pos),
         NEW p \in mem, NEW side \in Sides, NEW far, far = Other(side),
         NEW c, c = Kid(t, p, side), c # Nil, NEW d, d = Kid(t, c, far), d # Nil,
         NEW t1, Rotated(t, t1, c, d, far), NEW u, Rotated(t1, u, p, d, side)
  PROVE  /\ c \in mem /\ d \in mem /\ c # p /\ d # c /\ d # p
         /\ Kid(u, p, side) = Kid(t, d, far) /\ Kid(u, p, far) = Kid(t, p, far)
         /\ Kid(u, c, side) = Kid(t, c, side) /\ Kid(u, c, far) = Kid(t, d, side)
         /\ Kid(u, d, side) = c /\ Kid(u, d, far) = p
         /\ \A n \in mem \ {p, c, d}, s \in Sides :
              /\ Kid(t, n, s) \notin {c, d}
              /\ Kid(u, n, s) = IF Kid(t, n, s) = p THEN d ELSE Kid(t, n, s)
         /\ u.root = IF t.root = p THEN d ELSE t.root
         /\ \E sub2 : Shape(u, mem, sub2, pos)
         /\ LeftmostOf(u, mem, pos)
         /\ \A pc2 : pc2 # "idle" => Loose(u, pc2, mem)
<1>1. far \in Sides /\ far # side /\ Other(far) = side
      BY OtherSide
<1>2. c \in mem /\ c # p
      BY Around
<1>3. /\ d \in mem /\ d # c
      /\ Kid(t1, c, far) = Kid(t, d, side) /\ Kid(t1, c, side) = Kid(t, c, side)
      /\ Kid(t1, d, far) = Kid(t, d, far) /\ Kid(t1, d, side) = c
      /\ \A n \in mem \ {c, d}, s \in Sides :
              /\ Kid(t, n, s) # d
              /\ Kid(t1, n, s) = IF Kid(t, n, s) = c THEN d ELSE Kid(t, n, s)
      /\ t1.root = IF t.root = c THEN d ELSE t.root
      BY <1>1, <1>2, RotKids
<1>4. /\ \E sub1 : Shape(t1, mem, sub1, pos)
      /\ LeftmostOf(t1, mem, pos)
      /\ \A pc2 : pc2 # "idle" => Loose(t1, pc2, mem)
      BY <1>1, <1>2, RotShape, RotKeeps
<1>5. PICK sub1 : Shape(t1, mem, sub1, pos)
      BY <1>4
<1>6. d # p
  <2>1. sub[d] \subseteq sub[c] /\ d \in sub[d]
        BY <1>1, <1>2, <1>3, Around
  <2>2. p \notin sub[c]
        BY Around
  <2> QED BY <2>1, <2>2
<1>7. Kid(t1, p, side) = d /\ Kid(t1, p, far) = Kid(t, p, far)
  <2>1. Kid(t, p, far) # c
        BY <1>1, Around
  <2> QED BY <1>1, <1>2, <1>3, <1>6, <2>1
<1>8. /\ Kid(u, p, side) = Kid(t1, d, far)
      /\ Kid(u, p, far) = Kid(t1, p, far)
      /\ Kid(u, d, side) = Kid(t1, d, side)
      /\ Kid(u, d, far) = p
      /\ \A n \in mem \ {p, d}, s \in Sides :
           /\ Kid(t1, n, s) # d
           /\ Kid(u, n, s) = IF Kid(t1, n, s) = p THEN d ELSE Kid(t1, n, s)
      /\ u.root = IF t1.root = p THEN d ELSE t1.root
      BY <1>5, <1>7, RotKids
<1>9. /\ \E sub2 : Shape(u, mem, sub2, pos)
      /\ LeftmostOf(u, mem, pos)
      /\ \A pc2 : pc2 # "idle" => Loose(u, pc2, mem)
  <2>1. \E sub2 : Shape(u, mem, sub2, pos)
        BY <1>5, <1>7, RotShape
  <2>2. LeftmostOf(u, mem, pos) /\ \A pc2 : pc2 # "idle" => Loose(u, pc2, mem)
        BY <1>4, <1>5, <1>7, RotKeeps
  <2> QED BY <2>1, <2>2
<1>10. Kid(u, c, side) = Kid(t, c, side) /\ Kid(u, c, far) = Kid(t, d, side)
  <2>1. Kid(t, c, side) # p /\ Kid(t, d, side) # p
    <3>1. p \notin sub[c] /\ sub[d] \subseteq sub[c] /\ p \in sub[p] /\ p \in mem
      <4>1. sub[d] \subseteq sub[c]
            BY <1>1, <1>2, Around
      <4> QED BY <4>1, Around
    <3>2. Kid(t, c, side) = p => p \in sub[c]
          BY <1>2, <3>1, Around
    <3>3. Kid(t, d, side) = p => p \in sub[d]
          BY <1>3, <3>1, Around
    <3> QED BY <3>1, <3>2, <3>3
  <2> QED BY <1>1, <1>2, <1>3, <1>8, <2>1
<1>11. ASSUME NEW n \in mem \ {p, c, d}, NEW s \in Sides
       PROVE  /\ Kid(t, n, s) \notin {c, d}
              /\ Kid(u, n, s) = IF Kid(t, n, s) = p THEN d ELSE Kid(t, n, s)
  <2>1. Kid(t, n, s) # d /\ Kid(t1, n, s) = IF Kid(t, n, s) = c THEN d ELSE Kid(t, n, s)
        BY <1>3
  <2>2. Kid(t1, n, s) # d /\ Kid(u, n, s) = IF Kid(t1, n, s) = p THEN d ELSE Kid(t1, n, s)
        BY <1>8
  <2> QED BY <2>1, <2>2
<1>12. u.root = IF t.root = p THEN d ELSE t.root
  <2>1. t.root # c
    <3>1. Up(t, c) = p /\ p # Nil
          BY Around
    <3> QED BY <3>1 DEF Shape
  <2> QED BY <1>3, <1>8, <2>1
<1> QED BY <1>2, <1>3, <1>6, <1>7, <1>8, <1>9, <1>10, <1>11, <1>12

(* The tree t that the first stores lead to, up to the second rotation.    *)
MidTree(t, mem, p, c, d, side, near, x) ==
  /\ t \in Trees /\ t.root = tree.root /\ t.leftmost = tree.leftmost
  /\ \E e : \A m \in Nodes, s \in Sides :
       Kid(t, m, s) = IF m = c /\ s = Other(side) THEN near
                      ELSE IF m = d /\ s = side THEN c
                      ELSE IF m = p /\ s = side THEN e ELSE Kid(tree, m, s)
  /\ (x = Nil /\ Up(t, c) = d) \/ x = c
  /\ \A m \in Nodes : m # c /\ m # d =>
       Up(t, m) = IF m = near THEN c ELSE Up(tree, m)
  /\ \E r : /\ Ranks(r, t) /\ r[d] < r[p]
            /\ Up(tree, p) # Nil => r[p] < r[Up(tree, p)]
            /\ \A n \in Nodes \ mem : r[p] < r[n]

TwiceOf(p, c, d, side, near, inner, b, red) ==
  /\ side \in Sides /\ c = Kid(tree, p, side) /\ c # Nil
  /\ d = Kid(tree, c, Other(side)) /\ d # Nil
  /\ near = Kid(tree, d, side) /\ inner = Kid(tree, d, Other(side))
  /\ inner # Nil => b \in BOOLEAN
  /\ red \in BOOLEAN

LEMMA Double ==
  ASSUME NEW pc, NEW mem, NEW sub, NEW pos, Framed(pc, mem, sub, pos),
         NEW p \in mem, NEW c, NEW d, NEW side, NEW near, NEW inner, NEW x, NEW b, NEW red,
         TwiceOf(p, c, d, side, near, inner, b, red),
         NEW t, MidTree(t, mem, p, c, d, side, near, x),
         NEW first, Leads(tree, first, t),
         NEW stores, stores = Turn(p, d, side, inner, x, b, red)
  PROVE  \E u, t1 : /\ Leads(tree, first \o stores, u)
                    /\ Rotated(tree, t1, c, d, Other(side)) /\ Rotated(t1, u, p, d, side)
                    /\ NewHues(t, u, p, d, inner, x, b, red)
                    /\ StillFramed(u, mem, pos)
<1>a. /\ tree \in Trees /\ pc # "idle" /\ Loose(tree, pc, mem)
      /\ Shape(tree, mem, sub, pos) /\ LeftmostOf(tree, mem, pos)
      BY DEF Framed
<1>b. PICK far : far = Other(side)
      OBVIOUS
<1>c. /\ side \in Sides /\ c = Kid(tree, p, side) /\ c # Nil
      /\ d = Kid(tree, c, far) /\ d # Nil
      /\ near = Kid(tree, d, side) /\ inner = Kid(tree, d, far)
      /\ inner # Nil => b \in BOOLEAN
      /\ red \in BOOLEAN
      BY <1>b DEF TwiceOf
<1>d. PICK e :
      \A m \in Nodes, s \in Sides :
       Kid(t, m, s) = IF m = c /\ s = far THEN near
                      ELSE IF m = d /\ s = side THEN c
                      ELSE IF m = p /\ s = side THEN e ELSE Kid(tree, m, s)
      BY <1>b DEF MidTree
<1>e. /\ t \in Trees /\ t.root = tree.root /\ t.leftmost = tree.leftmost
      /\ (x = Nil /\ Up(t, c) = d) \/ x = c
      /\ \A m \in Nodes : m # c /\ m # d =>
           Up(t, m) = IF m = near THEN c ELSE Up(tree, m)
      BY DEF MidTree
<1>f. PICK r : /\ Ranks(r, t) /\ r[d] < r[p]
               /\ Up(tree, p) # Nil => r[p] < r[Up(tree, p)]
               /\ \A n \in Nodes \ mem : r[p] < r[n]
      BY DEF MidTree
<1> USE <1>a, <1>b, <1>c, <1>d, <1>e, <1>f
<1>1. mem \subseteq Nodes /\ Nil \notin Nodes /\ mem \cup {Nil} \subseteq Ptr
      /\ \A n \in mem : LinksAt(tree, mem, n)
      BY NilIsNoNode DEF Shape, Ptr
<1>2. far \in Sides /\ far # side /\ Other(far) = side /\ \A s \in Sides : s = side \/ s = far
      BY OtherSide
<1>3. /\ c \in mem /\ c # p /\ Up(tree, p) \in mem \cup {Nil}
      /\ p # Nil
      BY Around
<1>4. d \in mem /\ d # c /\ Up(tree, d) = c /\ d # Kid(tree, c, side)
      BY <1>2, <1>3, Around
<1>5. near \in mem \cup {Nil} /\ near # d
      BY <1>4, Around
<1>6. inner \in mem \cup {Nil} /\ inner # d
      BY <1>2, <1>4, Around
<1>7. d # p /\ d # Up(tree, p) /\ inner # p
  <2>1. sub[d] \subseteq sub[c] /\ d \in sub[d]
        BY <1>2, <1>3, <1>4, Around
  <2>2. p \notin sub[c] /\ p \in sub[p]
        BY Around
  <2>3. inner = p => p \in sub[d]
    <3>1. sub[inner] \subseteq sub[d]
          BY <1>2, <1>4, Around
    <3> QED BY <2>2, <3>1
  <2>4. d # Up(tree, p)
    <3> SUFFICES ASSUME d = Up(tree, p) PROVE FALSE
        OBVIOUS
    <3>1. PICK s \in Sides : Kid(tree, d, s) = p
          BY <1>1, <1>4 DEF LinksAt
    <3>2. sub[p] \subseteq sub[d]
          BY <1>4, <3>1, Around
    <3> QED BY <2>1, <2>2, <3>2
  <2> QED BY <2>1, <2>2, <2>3, <2>4
<1>8. Hue(tree, p) \in BOOLEAN /\ IsRed(p) = Hue(tree, p) /\ IsRed(p) \in BOOLEAN
  <2>1. Hue(tree, p) \in BOOLEAN
        BY <1>1, TreeType
  <2> QED BY <1>3, <2>1 DEF IsRed, Hue
<1>9. inner \in Nodes => r[inner] < r[p]
  <2> SUFFICES ASSUME inner \in Nodes PROVE r[inner] < r[p]
      OBVIOUS
  <2>1. Kid(t, d, far) = inner
        BY <1>1, <1>2, <1>4, <1>7
  <2>2. r[inner] < r[d] /\ r \in [Nodes -> Nat]
        BY <1>1, <1>2, <1>4, <2>1 DEF Ranks
  <2>3. r[inner] \in Nat /\ r[d] \in Nat /\ r[p] \in Nat
        BY <1>1, <1>4, <2>2
  <2> QED BY <2>2, <2>3
<1>10. ASSUME NEW m \in Nodes, NEW s \in Sides, Kid(t, m, s) = d
       PROVE  (m = p /\ s = side) \/ r[p] < r[m]
  <2>1. CASE m \notin mem
        BY <2>1
  <2>2. CASE m \in mem
    <3>1. ~ (m = c /\ s = far) /\ ~ (m = d /\ s = side)
          BY <1>4, <1>5, <1>10
    <3>2. CASE m = p /\ s = side
          BY <3>2
    <3>3. CASE ~ (m = p /\ s = side)
      <4>1. Kid(tree, m, s) = d
            BY <1>10, <3>1, <3>3
      <4>2. m = c
            BY <1>1, <1>4, <2>2, <4>1 DEF LinksAt
      <4> QED BY <1>2, <1>4, <3>1, <4>1, <4>2
    <3> QED BY <3>2, <3>3
  <2> QED BY <2>1, <2>2
<1>11. PICK u, r2 :
         /\ u \in Trees
         /\ Leads(t, stores, u)
         /\ Turned(t, u, p, d, side, inner, x, b, red)
  <2>1. /\ p \in Nodes /\ d \in Nodes /\ inner \in Ptr /\ x \in Ptr /\ Parent(p) \in Ptr
        /\ x # p /\ x # d
        BY <1>1, <1>3, <1>4, <1>6, Reads
  <2>2. Parent(p) # Nil => r[p] < r[Parent(p)] /\ Parent(p) # d
        BY <1>7, Reads
  <2> QED BY <1>6, <1>7, <1>8, <1>9, <1>10, <2>1, <2>2, DoTurn
<1>12. PICK t1 : Rotated(tree, t1, c, d, far) /\ Rotated(t1, u, p, d, side)
       BY <1>11, TwiceRotated
<1>13. /\ \E sub2 : Shape(u, mem, sub2, pos)
       /\ LeftmostOf(u, mem, pos)
       /\ \A pc2 : pc2 # "idle" => Loose(u, pc2, mem)
       BY <1>12, TwiceKids
<1>14. NewHues(t, u, p, d, inner, x, b, red)
       BY <1>8, <1>11 DEF Turned, NewHues
<1>15. Leads(tree, first \o stores, u)
       BY <1>11, LeadsOn
<1> QED BY <1>11, <1>12, <1>13, <1>14, <1>15 DEF StillFramed

LEMMA TurnAtGparent ==
  ASSUME NEW p, NEW c, NEW side, NEW inner
  PROVE  RotateAtGparent(c, p, side, inner) = Turn(p, c, side, inner, Nil, FALSE, TRUE)
<1>1. PICK x, y : /\ x = [field |-> side, at |-> p, to |-> inner]
                  /\ y = [field |-> Other(side), at |-> c, to |-> p]
      OBVIOUS
<1>2. SetChild(p, side, inner) = <<x>> /\ SetChild(c, Other(side), p) = <<y>>
      BY <1>1 DEF SetChild
<1>3. PICK q : q = <<x>> \o <<y>>
      OBVIOUS
<1>4. q \in Seq({x, y})
      BY <1>3
<1>5. q \o <<>> = q
      BY <1>4, ConcatEmptySeq
<1>6. IfNode(Nil, SetParentColor(Nil, c, FALSE)) = <<>>
      BY DEF IfNode
<1> QED BY <1>2, <1>3, <1>5, <1>6 DEF Turn, RotateAtGparent

(* Case 3 of the insertion: one rotation at the grandparent.               *)
LEMMA InsertOnceGoes ==
  ASSUME tree \in Trees, Ranked(tree), NEW mem, NEW node, NEW parent,
         Head_(tree, "insert", node, parent, mem), Red(tree, parent),
         NEW g, g = Up(tree, parent),
         NEW side \in Sides, Kid(tree, g, side) = parent,
         ~ Red(tree, Kid(tree, g, Other(side))), Kid(tree, parent, side) = node,
         NEW inner, inner = Kid(tree, parent, Other(side))
  PROVE  Goes(RotateAtGparent(parent, g, side, inner), "done", Nil, Nil, mem)
<1> DEFINE far == Other(side)
<1>1. PICK pos, sub, bh : /\ Shape(tree, mem, sub, pos)
                          /\ Keyed => Sorted(mem, pos)
                          /\ LeftmostOf(tree, mem, pos)
                          /\ Colours(tree, "insert", node, parent, mem, bh)
      BY DEF Head_
<1>2. /\ Bal(tree, mem, bh, Nil, "left") /\ NoRedRed(tree, mem, node)
      /\ node \in mem /\ Hue(tree, node)
      /\ parent \in mem /\ Up(tree, node) = parent /\ Hue(tree, parent)
      /\ g \in mem /\ ~ Hue(tree, g)
      /\ ~ Red(tree, tree.root)
      BY <1>1, InsertAround
<1>3. /\ mem \subseteq Nodes /\ Nil \notin Nodes /\ tree.root \in mem \cup {Nil}
      /\ mem \subseteq Ptr /\ Nil \in Ptr
      /\ tree.root # Nil => Up(tree, tree.root) = Nil
      BY <1>1, NilIsNoNode DEF Shape, Ptr
<1>4. IsFiniteSet(mem) /\ Loose(tree, "insert", mem) /\ "insert" # "idle"
      BY DEF Head_
<1>5. far \in Sides /\ far # side /\ Other(far) = side /\ \A s \in Sides : s = side \/ s = far
      BY OtherSide
<1> HIDE DEF far
<1>6. /\ bh \in [Ptr -> Nat] /\ bh[Nil] = 0
      /\ \A n \in mem, s \in Sides :
              /\ Kid(tree, n, s) \in mem \cup {Nil}
              /\ bh[Kid(tree, n, s)] \in Nat /\ bh[n] \in Nat
              /\ Hue(tree, n) => bh[n] = bh[Kid(tree, n, s)]
              /\ ~ Hue(tree, n) => bh[n] = bh[Kid(tree, n, s)] + 1
      BY <1>1, <1>2, BalNone
<1>7. /\ inner \in mem \cup {Nil} /\ inner # parent /\ ~ Red(tree, inner)
      /\ inner # node
  <2>1. inner \in mem \cup {Nil} /\ inner # parent /\ inner # node
        BY <1>1, <1>2, <1>3, <1>5, Around DEF far
  <2>2. ~ Red(tree, inner)
        BY <1>2, <1>5, <2>1 DEF NoRedRed, far
  <2> QED BY <2>1, <2>2
<1>8. PICK u :
        /\ Leads(tree, Turn(g, parent, side, inner, Nil, FALSE, TRUE), u)
        /\ Rotated(tree, u, g, parent, side)
        /\ NewHues(tree, u, g, parent, inner, Nil, FALSE, TRUE)
        /\ StillFramed(u, mem, pos)
  <2>1. Framed("insert", mem, sub, pos)
        BY <1>1, <1>4 DEF Framed
  <2>2. PICK stores : stores = Turn(g, parent, side, inner, Nil, FALSE, TRUE)
        OBVIOUS
  <2>3. TurnOf(stores, g, parent, side, inner, Nil, FALSE, TRUE)
        BY <1>2, <1>3, <2>2 DEF TurnOf
  <2> QED BY <1>2, <2>1, <2>2, <2>3, SingleTurn
<1>9. RotateAtGparent(parent, g, side, inner) = Turn(g, parent, side, inner, Nil, FALSE, TRUE)
      BY TurnAtGparent
<1>10. /\ parent # g
       /\ Kid(u, g, side) = inner /\ Kid(u, g, far) = Kid(tree, g, far)
       /\ Kid(u, parent, side) = node /\ Kid(u, parent, far) = g
       /\ \A n \in mem \ {g, parent}, s \in Sides :
            /\ Kid(tree, n, s) # parent
            /\ Kid(u, n, s) = IF Kid(tree, n, s) = g THEN parent ELSE Kid(tree, n, s)
       /\ u.root = IF tree.root = g THEN parent ELSE tree.root
  <2>1. parent # Nil
        BY <1>2, <1>3
  <2> QED BY <1>1, <1>2, <1>8, <2>1, RotKids DEF far
<1>11. /\ Hue(u, g) /\ ~ Hue(u, parent)
       /\ \A m \in mem \ {g, parent} : Hue(u, m) <=> Hue(tree, m)
       /\ \A m \in mem \ {g, parent} : Hue(tree, m) \in BOOLEAN /\ Hue(u, m) \in BOOLEAN
  <2>1. Hue(u, g) /\ ~ Hue(u, parent)
        BY <1>2, <1>3, <1>8, <1>10 DEF NewHues
  <2>2. \A m \in mem \ {g, parent} : Hue(u, m) <=> Hue(tree, m)
        BY <1>3, <1>7, <1>8 DEF Red, NewHues
  <2>3. \A m \in mem : Hue(tree, m) \in BOOLEAN /\ Hue(u, m) \in BOOLEAN
        BY <1>3, <1>8, TreeType DEF StillFramed
  <2> QED BY <2>1, <2>2, <2>3
<1>12. PICK part : part = {g, parent}
       OBVIOUS
<1>13. Reworked(tree, u, mem, part, g, parent)
  <2>1. \A n \in mem \ part : Hue(u, n) = Hue(tree, n)
        BY <1>11, <1>12
  <2>2. \A n \in mem \ part, s \in Sides :
          /\ Kid(tree, n, s) \in mem \cup {Nil}
          /\ Kid(tree, n, s) \in part => Kid(tree, n, s) = g
          /\ Kid(u, n, s) = IF Kid(tree, n, s) = g THEN parent ELSE Kid(tree, n, s)
        BY <1>6, <1>10, <1>12
  <2> QED BY <1>2, <1>3, <1>12, <2>1, <2>2 DEF Reworked
<1>14. PICK bh2 : bh2 = [bh EXCEPT ![g] = bh[parent], ![parent] = bh[g]]
       OBVIOUS
<1>15. /\ bh2 \in [Ptr -> Nat] /\ bh2[g] = bh[parent] /\ bh2[parent] = bh[g]
       /\ \A n \in Ptr : n # g /\ n # parent => bh2[n] = bh[n]
  <2>1. g \in Ptr /\ parent \in Ptr
        BY <1>2, <1>3
  <2> QED BY <1>6, <1>10, <1>14, <2>1
<1>16. /\ bh[g] = bh[parent] + 1 /\ bh[Kid(tree, g, far)] = bh[parent]
       /\ bh[parent] = bh[node] /\ bh[parent] = bh[inner] /\ bh[parent] \in Nat
  <2>1. bh[g] = bh[parent] + 1
        BY <1>2, <1>6
  <2>2. bh[g] = bh[Kid(tree, g, far)] + 1
        BY <1>2, <1>5, <1>6
  <2>3. bh[parent] = bh[node]
        BY <1>2, <1>6
  <2>4. bh[parent] = bh[inner]
        BY <1>2, <1>5, <1>6 DEF far
  <2>5. bh[parent] \in Nat /\ bh[Kid(tree, g, far)] \in Nat
        BY <1>2, <1>5, <1>6
  <2> QED BY <2>1, <2>2, <2>3, <2>4, <2>5
<1>17. /\ Kid(tree, g, far) \in mem \cup {Nil} /\ Kid(tree, g, far) # g
       /\ Kid(tree, g, far) # parent /\ inner # g /\ node # g /\ node # parent
  <2>1. Kid(tree, g, far) \in mem \cup {Nil} /\ Kid(tree, g, far) # g /\ Kid(tree, g, far) # parent
    <3>1. parent # Nil
          BY <1>2, <1>3
    <3> QED BY <1>1, <1>2, <1>5, <3>1, Around DEF far
  <2>2. node # parent /\ node # g
    <3>1. node # Nil
          BY <1>2, <1>3
    <3> QED BY <1>1, <1>2, <3>1, Around
  <2>3. inner # g
    <3>1. g # Nil
          BY <1>2, <1>3
    <3> QED BY <1>1, <1>2, <1>5, <3>1, Around DEF far
  <2> QED BY <2>1, <2>2, <2>3
<1>18. /\ bh2[inner] = bh[parent] /\ bh2[Kid(tree, g, far)] = bh[parent]
       /\ bh2[node] = bh[parent] /\ bh2[Nil] = 0
       BY <1>2, <1>3, <1>6, <1>7, <1>15, <1>16, <1>17
<1>19. ASSUME NEW n \in part, NEW s \in Sides
       PROVE  bh2[n] = bh2[Kid(u, n, s)] + (IF n = Nil /\ s = "left" THEN 1 ELSE 0)
                        + (IF Hue(u, n) THEN 0 ELSE 1)
  <2>1. n # Nil
        BY <1>2, <1>3, <1>12
  <2>2. CASE n = g
    <3>1. bh2[Kid(u, n, s)] = bh[parent]
          BY <1>5, <1>10, <1>18, <2>2
    <3> QED BY <1>11, <1>15, <1>16, <2>1, <2>2, <3>1
  <2>3. CASE n = parent
    <3>1. bh2[Kid(u, n, s)] = bh[parent]
          BY <1>5, <1>10, <1>15, <1>18, <2>3
    <3> QED BY <1>11, <1>15, <1>16, <2>1, <2>3, <3>1
  <2> QED BY <1>12, <2>2, <2>3
<1>20. Bal(u, mem, bh2, Nil, "left")
  <2>1. \A n \in mem \ part : bh2[n] = bh[n]
        BY <1>3, <1>12, <1>15
  <2> QED BY <1>2, <1>13, <1>15, <1>18, <1>19, <2>1, RestBal
<1>21. NoRedRed(u, mem, Nil) /\ ~ Red(u, u.root)
  <2>1. \A n \in mem \ part, s \in Sides : Kid(tree, n, s) = node => node = Nil
    <3>1. \A n \in mem, s \in Sides : Kid(tree, n, s) = node => node = Nil \/ n = parent
      <4>1. \A n \in mem : LinksAt(tree, mem, n)
            BY <1>1 DEF Shape
      <4>2. \A n \in mem, s \in Sides :
              Kid(tree, n, s) # Nil => Up(tree, Kid(tree, n, s)) = n
            BY <4>1 DEF LinksAt
      <4> QED BY <1>2, <4>2
    <3> QED BY <1>12, <3>1
  <2>2. \A n \in part, s \in Sides : Hue(u, n) => ~ Red(u, Kid(u, n, s))
    <3>1. ~ Red(u, inner)
          BY <1>3, <1>7, <1>11, <1>17 DEF Red
    <3>2. ~ Red(u, Kid(tree, g, far))
          BY <1>3, <1>11, <1>17 DEF Red, far
    <3> QED BY <1>5, <1>10, <1>11, <1>12, <3>1, <3>2
  <2>3. tree.root \in part => tree.root = g
        BY <1>2, <1>3, <1>12
  <2> QED BY <1>2, <1>3, <1>10, <1>11, <1>13, <2>1, <2>2, <2>3, RestRed
<1>22. Colours(u, "done", Nil, Nil, mem, bh2)
       BY <1>20, <1>21 DEF Colours
<1>23. Head_(u, "done", Nil, Nil, mem)
       BY <1>1, <1>4, <1>8, <1>22 DEF Head_, StillFramed
<1> QED BY <1>8, <1>9, <1>23 DEF Goes

(* The first two stores of a double rotation: d goes up above c, but the   *)
(* node above still points to c.                                           *)
LineOf(p, c, d, side, near) ==
  /\ side \in Sides /\ c = Kid(tree, p, side) /\ c # Nil
  /\ d = Kid(tree, c, Other(side)) /\ d # Nil
  /\ near = Kid(tree, d, side)

HalfTurned(t, mem, p, c, d, side, near) ==
  /\ t \in Trees
  /\ SameUp(tree, t) /\ SameAnchors(tree, t)
  /\ \A m \in Nodes, s \in Sides :
       Kid(t, m, s) = IF m = c /\ s = Other(side) THEN near
                      ELSE IF m = d /\ s = side THEN c ELSE Kid(tree, m, s)
  /\ \E r : /\ Ranks(r, t) /\ r[d] < r[p]
            /\ Up(tree, p) # Nil => r[p] < r[Up(tree, p)]
            /\ \A n \in Nodes \ mem : r[p] < r[n]

LEMMA HalfTurn ==
  ASSUME NEW pc, NEW mem, NEW sub, NEW pos, Framed(pc, mem, sub, pos),
         NEW p \in mem, NEW c, NEW d, NEW side, NEW near,
         LineOf(p, c, d, side, near),
         NEW stores,
         stores = SetChild(c, Other(side), near) \o SetChild(d, side, c)
  PROVE  \E t : Leads(tree, stores, t) /\ HalfTurned(t, mem, p, c, d, side, near)
<1>a. /\ tree \in Trees /\ Ranked(tree) /\ pc # "idle" /\ Loose(tree, pc, mem)
      /\ IsFiniteSet(mem) /\ Shape(tree, mem, sub, pos)
      BY DEF Framed
<1>b. PICK far : far = Other(side)
      OBVIOUS
<1>c. /\ side \in Sides /\ c = Kid(tree, p, side) /\ c # Nil
      /\ d = Kid(tree, c, far) /\ d # Nil /\ near = Kid(tree, d, side)
      BY <1>b DEF LineOf
<1> USE <1>a, <1>b, <1>c
<1>1. mem \subseteq Nodes /\ Nil \notin Nodes /\ mem \subseteq Ptr /\ Nil \in Ptr
      /\ \A n \in mem : LinksAt(tree, mem, n)
      BY NilIsNoNode DEF Shape, Ptr
<1>2. far \in Sides /\ far # side /\ Other(far) = side /\ \A s \in Sides : s = side \/ s = far
      BY OtherSide
<1>3. /\ c \in mem /\ c # p /\ Up(tree, p) \in mem \cup {Nil} /\ Up(tree, p) # p
      /\ p # Nil
      BY Around
<1>4. d \in mem /\ d # c /\ Up(tree, d) = c /\ d # Kid(tree, c, side)
      BY <1>2, <1>3, Around
<1>5. near \in mem \cup {Nil} /\ near # d
      BY <1>4, Around
<1>6. d # p /\ d # Up(tree, p)
  <2>1. sub[d] \subseteq sub[c] /\ d \in sub[d]
        BY <1>2, <1>3, <1>4, Around
  <2>2. p \notin sub[c] /\ p \in sub[p]
        BY Around
  <2>3. d # Up(tree, p)
    <3> SUFFICES ASSUME d = Up(tree, p) PROVE FALSE
        OBVIOUS
    <3>1. PICK s \in Sides : Kid(tree, d, s) = p
          BY <1>1, <1>4 DEF LinksAt
    <3>2. sub[p] \subseteq sub[d]
          BY <1>4, <3>1, Around
    <3> QED BY <2>1, <2>2, <3>2
  <2> QED BY <2>1, <2>2, <2>3
<1>7. PICK r0 : Ranks(r0, tree) /\ \A n \in Nodes \ mem, m \in mem : r0[m] < r0[n]
      BY HighRank
<1>8. /\ r0 \in [Nodes -> Nat]
      /\ \A n \in Nodes, s \in Sides : Kid(tree, n, s) \in Nodes => r0[Kid(tree, n, s)] < r0[n]
      BY <1>7 DEF Ranks
<1>9. /\ r0[c] < r0[p] /\ r0[d] < r0[c]
      /\ near \in Nodes => r0[near] < r0[d]
      /\ r0[c] \in Nat /\ r0[d] \in Nat /\ r0[p] \in Nat
      BY <1>1, <1>2, <1>3, <1>4, <1>8
<1>10. near \in Nodes => r0[near] < r0[c]
  <2>1. near \in Nodes => r0[near] \in Nat
        BY <1>8
  <2> QED BY <1>9, <2>1
<1>11. Up(tree, p) # Nil => r0[p] < r0[Up(tree, p)]
  <2> SUFFICES ASSUME Up(tree, p) # Nil PROVE r0[p] < r0[Up(tree, p)]
      OBVIOUS
  <2>1. PICK s \in Sides : Kid(tree, Up(tree, p), s) = p
        BY <1>1 DEF LinksAt
  <2> QED BY <1>1, <1>3, <1>8, <2>1
<1>12. PICK t1 \in Trees : /\ Leads(tree, SetChild(c, far, near), t1)
                           /\ Ranks(r0, t1) /\ KidSet(tree, t1, c, far, near)
  <2>1. c \in Nodes /\ near \in Ptr
        BY <1>1, <1>3, <1>5
  <2> QED BY <1>2, <1>7, <1>10, <2>1, DoKid
<1>13. \A s \in Sides : Kid(t1, d, s) \in Nodes => r0[Kid(t1, d, s)] < r0[c]
  <2> SUFFICES ASSUME NEW s \in Sides, Kid(t1, d, s) \in Nodes
               PROVE  r0[Kid(t1, d, s)] < r0[c]
      OBVIOUS
  <2>1. r0[Kid(t1, d, s)] < r0[d]
        BY <1>1, <1>4, <1>12 DEF Ranks
  <2>2. r0[Kid(t1, d, s)] \in Nat
        BY <1>8
  <2> QED BY <1>9, <2>1, <2>2
<1>14. \A m \in Nodes, s \in Sides : Kid(t1, m, s) = d => r0[c] < r0[m]
  <2> SUFFICES ASSUME NEW m \in Nodes, NEW s \in Sides, Kid(t1, m, s) = d
               PROVE  r0[c] < r0[m]
      OBVIOUS
  <2>1. CASE m \notin mem
        BY <1>3, <1>7, <2>1
  <2>2. CASE m \in mem
    <3>1. ~ (m = c /\ s = far)
          BY <1>1, <1>2, <1>3, <1>5, <1>12 DEF KidSet
    <3>2. Kid(tree, m, s) = d
          BY <1>12, <3>1 DEF KidSet
    <3>3. LinksAt(tree, mem, m)
          BY <1>1, <2>2
    <3>4. Kid(tree, m, s) # Nil => Up(tree, Kid(tree, m, s)) = m
          BY <3>3 DEF LinksAt
    <3>5. m = c
          BY <1>1, <1>4, <3>2, <3>4
    <3> QED BY <1>2, <1>4, <3>1, <3>2, <3>5
  <2> QED BY <2>1, <2>2
<1>15. PICK r : Ranks(r, t1) /\ Lifted(r0, r, d, c, TRUE)
  <2>1. c \in Nodes /\ d \in Nodes /\ d # c
        BY <1>1, <1>3, <1>4
  <2> QED BY <1>12, <1>13, <1>14, <2>1, Lift
<1>16. /\ \A m \in Nodes \ {d}, k \in Nodes \ {d} : r0[m] < r0[k] => r[m] < r[k]
       /\ \A m \in Nodes \ {d} : r0[c] < r0[m] => r[d] < r[m]
       /\ r[c] < r[d]
       BY <1>15 DEF Lifted
<1>17. PICK t \in Trees : /\ Leads(t1, SetChild(d, side, c), t)
                          /\ Ranks(r, t) /\ KidSet(t1, t, d, side, c)
  <2>1. d \in Nodes /\ c \in Ptr
        BY <1>1, <1>3, <1>4
  <2> QED BY <1>15, <1>16, <2>1, DoKid
<1>18. Leads(tree, SetChild(c, far, near) \o SetChild(d, side, c), t)
       BY <1>12, <1>17, LeadsOn
<1>19. SameUp(tree, t) /\ SameAnchors(tree, t)
       BY <1>12, <1>17 DEF KidSet, SameUp, SameAnchors
<1>20. \A m \in Nodes, s \in Sides :
         Kid(t, m, s) = IF m = c /\ s = far THEN near
                        ELSE IF m = d /\ s = side THEN c ELSE Kid(tree, m, s)
       BY <1>4, <1>12, <1>17 DEF KidSet
<1>21. /\ r[d] < r[p]
       /\ Up(tree, p) # Nil => r[p] < r[Up(tree, p)]
       /\ \A n \in Nodes \ mem : r[p] < r[n]
  <2>1. p \in Nodes \ {d} /\ Up(tree, p) # Nil => Up(tree, p) \in Nodes \ {d}
        BY <1>1, <1>3, <1>6
  <2>2. r[d] < r[p]
        BY <1>1, <1>6, <1>9, <1>16
  <2>3. ASSUME NEW n \in Nodes \ mem PROVE r[p] < r[n]
        BY <1>1, <1>4, <1>6, <1>7, <1>16
  <2>4. Up(tree, p) # Nil => r[p] < r[Up(tree, p)]
        BY <1>1, <1>6, <1>11, <1>16, <2>1
  <2> QED BY <2>2, <2>3, <2>4
<1>22. HalfTurned(t, mem, p, c, d, side, near)
       BY <1>17, <1>19, <1>20, <1>21 DEF HalfTurned
<1> QED BY <1>18, <1>22

(* Cases 2 and 3 of the insertion: node goes up above its parent and then  *)
(* above its grandparent.                                                  *)
LEMMA InsertTwiceGoes ==
  ASSUME tree \in Trees, Ranked(tree), NEW mem, NEW node, NEW parent,
         Head_(tree, "insert", node, parent, mem), Red(tree, parent),
         NEW g, g = Up(tree, parent),
         NEW side \in Sides, Kid(tree, g, side) = parent,
         NEW far, far = Other(side),
         ~ Red(tree, Kid(tree, g, far)), Kid(tree, parent, far) = node,
         NEW near, near = Kid(tree, node, side),
         NEW inner, inner = Kid(tree, node, far)
  PROVE  Goes(RotateAtParent(node, parent, side) \o RotateAtGparent(node, g, side, inner),
              "done", Nil, Nil, mem)
<1>1. PICK pos, sub, bh : /\ Shape(tree, mem, sub, pos)
                          /\ Keyed => Sorted(mem, pos)
                          /\ LeftmostOf(tree, mem, pos)
                          /\ Colours(tree, "insert", node, parent, mem, bh)
      BY DEF Head_
<1>2. /\ Bal(tree, mem, bh, Nil, "left") /\ NoRedRed(tree, mem, node)
      /\ node \in mem /\ Hue(tree, node)
      /\ parent \in mem /\ Up(tree, node) = parent /\ Hue(tree, parent)
      /\ g \in mem /\ ~ Hue(tree, g)
      /\ ~ Red(tree, tree.root)
      BY <1>1, InsertAround
<1>3. /\ mem \subseteq Nodes /\ Nil \notin Nodes /\ tree.root \in mem \cup {Nil}
      /\ mem \subseteq Ptr /\ Nil \in Ptr
      /\ tree.root # Nil => Up(tree, tree.root) = Nil
      BY <1>1, NilIsNoNode DEF Shape, Ptr
<1>4. IsFiniteSet(mem) /\ Loose(tree, "insert", mem) /\ "insert" # "idle"
      BY DEF Head_
<1>5. far \in Sides /\ far # side /\ Other(far) = side /\ \A s \in Sides : s = side \/ s = far
      BY OtherSide
<1>6. /\ bh \in [Ptr -> Nat] /\ bh[Nil] = 0
      /\ \A n \in mem, s \in Sides :
              /\ Kid(tree, n, s) \in mem \cup {Nil}
              /\ bh[Kid(tree, n, s)] \in Nat /\ bh[n] \in Nat
              /\ Hue(tree, n) => bh[n] = bh[Kid(tree, n, s)]
              /\ ~ Hue(tree, n) => bh[n] = bh[Kid(tree, n, s)] + 1
      BY <1>1, <1>2, BalNone
<1>7. Framed("insert", mem, sub, pos)
      BY <1>1, <1>4 DEF Framed
<1>8. TwiceOf(g, parent, node, side, near, inner, FALSE, TRUE)
      BY <1>2, <1>3 DEF TwiceOf
<1>9. PICK t1, r :
           /\ t1 \in Trees
           /\ Leads(tree, SetChild(parent, far, near) \o SetChild(node, side, parent), t1)
           /\ SameUp(tree, t1) /\ SameAnchors(tree, t1)
           /\ \A m \in Nodes, s \in Sides :
                Kid(t1, m, s) = IF m = parent /\ s = far THEN near
                               ELSE IF m = node /\ s = side THEN parent ELSE Kid(tree, m, s)
           /\ Ranks(r, t1) /\ r[node] < r[g]
           /\ Up(tree, g) # Nil => r[g] < r[Up(tree, g)]
           /\ \A n \in Nodes \ mem : r[g] < r[n]
  <2>1. PICK stores : stores = SetChild(parent, far, near) \o SetChild(node, side, parent)
        OBVIOUS
  <2>2. LineOf(g, parent, node, side, near)
        BY <1>2, <1>3 DEF LineOf
  <2>3. PICK t1 : Leads(tree, stores, t1) /\ HalfTurned(t1, mem, g, parent, node, side, near)
        BY <1>2, <1>7, <2>1, <2>2, HalfTurn
  <2> QED BY <2>1, <2>3 DEF HalfTurned
<1>10. /\ near \in mem \cup {Nil} /\ near # node /\ near # parent /\ near # g
       /\ inner \in mem \cup {Nil} /\ inner # node /\ inner # parent /\ inner # g
       /\ near # Nil => near # inner
       /\ parent # g /\ node # parent /\ node # g
       /\ Kid(tree, parent, side) \notin {node, parent, g}
       /\ Kid(tree, parent, side) \in mem \cup {Nil}
       /\ Kid(tree, g, far) \notin {node, parent, g} /\ Kid(tree, g, far) \in mem \cup {Nil}
  <2>1. parent # g /\ parent # Kid(tree, g, far) /\ g \in sub[g] /\ g \notin sub[parent]
        BY <1>1, <1>2, <1>3, Around
  <2>2. /\ node # parent /\ node # Kid(tree, parent, side) /\ parent \in sub[parent]
        /\ parent \notin sub[node] /\ sub[node] \subseteq sub[parent]
        BY <1>1, <1>2, <1>3, <1>5, Around
  <2>3. /\ near \in mem \cup {Nil} /\ near # node /\ sub[near] \subseteq sub[node]
        /\ near # Nil => near # inner
        /\ node \in sub[node]
        BY <1>1, <1>2, <1>3, <1>5, Around
  <2>4. inner \in mem \cup {Nil} /\ inner # node /\ sub[inner] \subseteq sub[node]
        BY <1>1, <1>2, <1>3, <1>5, Around
  <2>5. /\ Kid(tree, parent, side) \in mem \cup {Nil} /\ Kid(tree, parent, side) # parent
        /\ sub[Kid(tree, parent, side)] \subseteq sub[parent]
        BY <1>1, <1>2, <1>3, <1>5, Around
  <2>6. Kid(tree, g, far) # g /\ Kid(tree, g, far) \in mem \cup {Nil}
        BY <1>1, <1>2, <1>3, <1>5, Around
  <2>7. Kid(tree, g, far) # node
    <3>1. Kid(tree, g, far) = node => Up(tree, node) = g
          BY <1>1, <1>2, <1>3, <1>5, Around
    <3> QED BY <1>2, <2>1, <3>1
  <2>8. node # g
        BY <2>1, <2>2, <2>3
  <2> QED BY <2>1, <2>2, <2>3, <2>4, <2>5, <2>6, <2>7, <2>8
<1>11. PICK t2 \in Trees : /\ Leads(t1, IfNode(near, SetParentColor(near, parent, FALSE)), t2)
                           /\ Ranks(r, t2) /\ UpSet(t1, t2, near, parent, FALSE)
  <2>1. near \in Ptr /\ parent \in Ptr
        BY <1>2, <1>3, <1>10
  <2> QED BY <1>9, <2>1, DoUpIf
<1>12. PICK t \in Trees : /\ Leads(t2, SetParentColor(parent, node, TRUE), t)
                          /\ Ranks(r, t) /\ UpSet(t2, t, parent, node, TRUE)
  <2>1. parent \in Nodes /\ node \in Ptr
        BY <1>2, <1>3
  <2> QED BY <1>11, <2>1, DoUp
<1>13. Leads(tree, RotateAtParent(node, parent, side), t)
  <2>1. Leads(tree, SetChild(parent, far, near) \o SetChild(node, side, parent)
                      \o IfNode(near, SetParentColor(near, parent, FALSE)), t2)
        BY <1>9, <1>11, LeadsOn
  <2>2. Child(node, side) = near
        BY Reads
  <2>3. Leads(tree, SetChild(parent, far, near) \o SetChild(node, side, parent)
                      \o IfNode(near, SetParentColor(near, parent, FALSE))
                      \o SetParentColor(parent, node, TRUE), t)
        BY <1>12, <2>1, LeadsOn
  <2> QED BY <2>2, <2>3 DEF RotateAtParent
<1>14. /\ \A m \in Nodes : Up(t, m) = IF m = parent THEN node ELSE IF m = near THEN parent
                                      ELSE Up(tree, m)
       /\ \A m \in Nodes : Hue(t, m) = IF m = parent THEN TRUE ELSE IF m = near THEN FALSE
                                       ELSE Hue(tree, m)
       BY <1>9, <1>11, <1>12 DEF UpSet, SameUp
<1>15. MidTree(t, mem, g, parent, node, side, near, Nil)
  <2>1. t.root = tree.root /\ t.leftmost = tree.leftmost
        BY <1>9, <1>11, <1>12 DEF UpSet, SameAnchors
  <2>2. \A m \in Nodes, s \in Sides :
          Kid(t, m, s) = IF m = parent /\ s = far THEN near
                      ELSE IF m = node /\ s = side THEN parent
                      ELSE IF m = g /\ s = side THEN parent ELSE Kid(tree, m, s)
        BY <1>9, <1>11, <1>12 DEF UpSet, SameKids
  <2>3. Up(t, parent) = node
        BY <1>2, <1>3, <1>14
  <2> QED BY <1>9, <1>12, <1>14, <2>1, <2>2, <2>3 DEF MidTree
<1>16. PICK u, t3 :
         /\ Leads(tree, RotateAtParent(node, parent, side)
                          \o Turn(g, node, side, inner, Nil, FALSE, TRUE), u)
         /\ Rotated(tree, t3, parent, node, far) /\ Rotated(t3, u, g, node, side)
         /\ NewHues(t, u, g, node, inner, Nil, FALSE, TRUE)
         /\ StillFramed(u, mem, pos)
  <2>1. PICK first : first = RotateAtParent(node, parent, side)
        OBVIOUS
  <2>2. PICK stores : stores = Turn(g, node, side, inner, Nil, FALSE, TRUE)
        OBVIOUS
  <2>3. Leads(tree, first, t)
        BY <1>13, <2>1
  <2>4. \E u, t3 :
          /\ Leads(tree, first \o stores, u)
          /\ Rotated(tree, t3, parent, node, Other(side)) /\ Rotated(t3, u, g, node, side)
          /\ NewHues(t, u, g, node, inner, Nil, FALSE, TRUE)
          /\ StillFramed(u, mem, pos)
    <3>1. PICK pc, c, d, e, i, x, b, red :
            /\ Framed(pc, mem, sub, pos) /\ TwiceOf(g, c, d, side, e, i, b, red)
            /\ MidTree(t, mem, g, c, d, side, e, x)
            /\ stores = Turn(g, d, side, i, x, b, red)
            /\ c = parent /\ d = node /\ i = inner /\ x = Nil /\ b = FALSE /\ red = TRUE
          BY <1>7, <1>8, <1>15, <2>2
    <3>2. \E u, t3 :
            /\ Leads(tree, first \o stores, u)
            /\ Rotated(tree, t3, c, d, Other(side)) /\ Rotated(t3, u, g, d, side)
            /\ NewHues(t, u, g, d, i, x, b, red) /\ StillFramed(u, mem, pos)
      <4>1. /\ g \in mem
            /\ Framed(pc, mem, sub, pos) /\ TwiceOf(g, c, d, side, e, i, b, red)
            /\ MidTree(t, mem, g, c, d, side, e, x)
            /\ stores = Turn(g, d, side, i, x, b, red)
            BY <1>2, <3>1
      <4> QED BY <2>3, <4>1, Double
    <3> QED BY <3>1, <3>2
  <2> QED BY <2>1, <2>2, <2>4
<1>17. RotateAtGparent(node, g, side, inner) = Turn(g, node, side, inner, Nil, FALSE, TRUE)
       BY TurnAtGparent
<1>18. /\ Kid(u, g, side) = inner /\ Kid(u, g, far) = Kid(tree, g, far)
       /\ Kid(u, parent, side) = Kid(tree, parent, side) /\ Kid(u, parent, far) = near
       /\ Kid(u, node, side) = parent /\ Kid(u, node, far) = g
       /\ \A n \in mem \ {g, parent, node}, s \in Sides :
              /\ Kid(tree, n, s) \notin {parent, node}
              /\ Kid(u, n, s) = IF Kid(tree, n, s) = g THEN node ELSE Kid(tree, n, s)
       /\ u.root = IF tree.root = g THEN node ELSE tree.root
  <2>1. parent # Nil /\ node # Nil
        BY <1>2, <1>3
  <2> QED BY <1>1, <1>2, <1>4, <1>16, <2>1, TwiceKids
<1>19. ~ Red(tree, near) /\ ~ Red(tree, inner) /\ ~ Red(tree, Kid(tree, parent, side))
       BY <1>2, <1>5, <1>10 DEF NoRedRed
<1>20. /\ Hue(u, g) /\ ~ Hue(u, node) /\ Hue(u, parent)
       /\ \A m \in mem \ {g, parent, node} : Hue(u, m) = Hue(tree, m)
  <2>1. Hue(u, g) /\ ~ Hue(u, node) /\ Hue(u, parent)
        BY <1>2, <1>3, <1>10, <1>14, <1>16 DEF NewHues
  <2>2. ASSUME NEW m \in mem \ {g, parent, node} PROVE Hue(u, m) = Hue(tree, m)
    <3>1. Hue(tree, m) \in BOOLEAN
          BY <1>3, TreeType
    <3>2. CASE m = near \/ m = inner
      <4>1. Hue(u, m) = FALSE
            BY <1>3, <1>14, <1>16, <3>2 DEF NewHues
      <4>2. ~ Hue(tree, m)
            BY <1>3, <1>19, <3>2 DEF Red
      <4> QED BY <3>1, <4>1, <4>2
    <3>3. CASE m # near /\ m # inner
          BY <1>3, <1>14, <1>16, <3>3 DEF NewHues
    <3> QED BY <3>2, <3>3
  <2> QED BY <2>1, <2>2
<1>21. PICK part : part = {g, parent, node}
       OBVIOUS
<1>22. Reworked(tree, u, mem, part, g, node)
  <2>1. \A n \in mem \ part : Hue(u, n) = Hue(tree, n)
        BY <1>20, <1>21
  <2>2. \A n \in mem \ part, s \in Sides :
          /\ Kid(tree, n, s) \in mem \cup {Nil}
          /\ Kid(tree, n, s) \in part => Kid(tree, n, s) = g
          /\ Kid(u, n, s) = IF Kid(tree, n, s) = g THEN node ELSE Kid(tree, n, s)
        BY <1>6, <1>18, <1>21
  <2> QED BY <1>2, <1>3, <1>21, <2>1, <2>2 DEF Reworked
<1>23. PICK bh2 : bh2 = [bh EXCEPT ![g] = bh[node], ![node] = bh[g]]
       OBVIOUS
<1>24. /\ bh2 \in [Ptr -> Nat] /\ bh2[g] = bh[node] /\ bh2[node] = bh[g]
       /\ \A n \in Ptr : n # g /\ n # node => bh2[n] = bh[n]
  <2>1. g \in Ptr /\ node \in Ptr
        BY <1>2, <1>3
  <2> QED BY <1>6, <1>10, <1>23, <2>1
<1>25. /\ bh[g] = bh[node] + 1 /\ bh[Kid(tree, g, far)] = bh[node] /\ bh[parent] = bh[node]
       /\ bh[near] = bh[node] /\ bh[inner] = bh[node] /\ bh[node] \in Nat
       /\ bh[Kid(tree, parent, side)] = bh[node]
  <2>1. bh[g] = bh[parent] + 1 /\ bh[g] = bh[Kid(tree, g, far)] + 1
        BY <1>2, <1>5, <1>6
  <2>2. bh[parent] = bh[node] /\ bh[parent] = bh[Kid(tree, parent, side)]
        BY <1>2, <1>5, <1>6
  <2>3. bh[node] = bh[near] /\ bh[node] = bh[inner]
        BY <1>2, <1>5, <1>6
  <2>4. bh[node] \in Nat /\ bh[Kid(tree, g, far)] \in Nat /\ bh[parent] \in Nat
        BY <1>2, <1>5, <1>6
  <2>5. bh[Kid(tree, g, far)] = bh[parent]
        BY <2>1, <2>4
  <2> QED BY <2>1, <2>2, <2>3, <2>4, <2>5
<1>26. /\ bh2[inner] = bh[node] /\ bh2[Kid(tree, g, far)] = bh[node] /\ bh2[near] = bh[node]
       /\ bh2[Kid(tree, parent, side)] = bh[node] /\ bh2[parent] = bh[node] /\ bh2[Nil] = 0
       BY <1>2, <1>3, <1>6, <1>10, <1>24, <1>25
<1>27. ASSUME NEW n \in part, NEW s \in Sides
       PROVE  bh2[n] = bh2[Kid(u, n, s)] + (IF n = Nil /\ s = "left" THEN 1 ELSE 0)
                        + (IF Hue(u, n) THEN 0 ELSE 1)
  <2>1. n # Nil
        BY <1>2, <1>3, <1>21
  <2>2. CASE n = g
    <3>1. bh2[Kid(u, n, s)] = bh[node]
          BY <1>5, <1>18, <1>26, <2>2
    <3> QED BY <1>20, <1>24, <1>25, <2>1, <2>2, <3>1
  <2>3. CASE n = parent
    <3>1. bh2[Kid(u, n, s)] = bh[node]
          BY <1>5, <1>18, <1>26, <2>3
    <3> QED BY <1>20, <1>25, <1>26, <2>1, <2>3, <3>1
  <2>4. CASE n = node
    <3>1. bh2[Kid(u, n, s)] = bh[node]
          BY <1>5, <1>18, <1>24, <1>26, <2>4
    <3> QED BY <1>20, <1>24, <1>25, <2>1, <2>4, <3>1
  <2> QED BY <1>21, <2>2, <2>3, <2>4
<1>28. Bal(u, mem, bh2, Nil, "left")
  <2>1. \A n \in mem \ part : bh2[n] = bh[n]
        BY <1>3, <1>21, <1>24
  <2> QED BY <1>2, <1>22, <1>24, <1>26, <1>27, <2>1, RestBal
<1>29. NoRedRed(u, mem, Nil) /\ ~ Red(u, u.root)
  <2>1. \A n \in mem \ part, s \in Sides : Kid(tree, n, s) = node => node = Nil
        BY <1>18, <1>21
  <2>2. \A n \in part, s \in Sides : Hue(u, n) => ~ Red(u, Kid(u, n, s))
    <3>1. \A m \in mem \cup {Nil} : m \notin part /\ ~ Red(tree, m) => ~ Red(u, m)
          BY <1>20, <1>21 DEF Red
    <3>2. ~ Red(u, inner) /\ ~ Red(u, near) /\ ~ Red(u, Kid(tree, parent, side))
          BY <1>10, <1>19, <1>21, <3>1
    <3>3. ~ Red(u, Kid(tree, g, far))
          BY <1>10, <1>21, <3>1
    <3> QED BY <1>5, <1>18, <1>20, <1>21, <3>2, <3>3
  <2>3. tree.root \in part => tree.root = g
        BY <1>2, <1>3, <1>21
  <2> QED BY <1>2, <1>3, <1>18, <1>20, <1>22, <2>1, <2>2, <2>3, RestRed
<1>30. Colours(u, "done", Nil, Nil, mem, bh2)
       BY <1>28, <1>29 DEF Colours
<1>31. Head_(u, "done", Nil, Nil, mem)
       BY <1>1, <1>4, <1>16, <1>30 DEF Head_, StillFramed
<1> QED BY <1>16, <1>17, <1>31 DEF Goes

-----------------------------------------------------------------------------
(* The steps of ____rb_erase_color().                                      *)

(* What it knows of the parent and the sibling.                            *)
LEMMA EraseAround ==
  ASSUME NEW t, NEW mem, NEW sub, NEW pos, Shape(t, mem, sub, pos),
         NEW node, NEW parent, NEW bh, Colours(t, "erase", node, parent, mem, bh),
         NEW side, side = IF node # Kid(t, parent, "right") THEN "left" ELSE "right",
         NEW sibling, sibling = Kid(t, parent, Other(side))
  PROVE  /\ side \in Sides /\ Bal(t, mem, bh, parent, side) /\ NoRedRed(t, mem, Nil)
         /\ ~ Red(t, t.root) /\ ~ Red(t, node)
         /\ parent \in mem /\ Kid(t, parent, side) = node
         /\ sibling \in mem /\ sibling # Nil
         /\ sibling # parent /\ sibling # node /\ node # parent
         /\ node \in mem \cup {Nil}
         /\ bh[sibling] = bh[node] + 1 /\ bh[node] \in Nat
         /\ bh[parent] \in Nat
         /\ Hue(t, parent) => bh[parent] = bh[sibling]
         /\ ~ Hue(t, parent) => bh[parent] = bh[sibling] + 1
<1>1. PICK z \in Sides : Bal(t, mem, bh, parent, z) /\ Kid(t, parent, z) = node
      BY DEF Colours
<1>2. NoRedRed(t, mem, Nil) /\ ~ Red(t, t.root) /\ parent \in mem /\ ~ Red(t, node)
      BY DEF Colours
<1>3. /\ bh[Nil] = 0
      /\ bh[Kid(t, parent, Other(z))] = bh[Kid(t, parent, z)] + 1
      /\ Hue(t, parent) => bh[parent] = bh[Kid(t, parent, z)] + 1
      /\ ~ Hue(t, parent) => bh[parent] = bh[Kid(t, parent, z)] + 2
      BY <1>1, <1>2, BalShort
<1>4. /\ bh[Kid(t, parent, z)] \in Nat /\ bh[parent] \in Nat
      /\ Kid(t, parent, z) \in mem \cup {Nil}
      /\ Kid(t, parent, Other(z)) \in mem \cup {Nil}
      BY <1>1, <1>2, BalShort, OtherSide
<1>5. bh[Kid(t, parent, Other(z))] = bh[node] + 1 /\ bh[node] \in Nat
      BY <1>1, <1>3, <1>4
<1>6. Kid(t, parent, Other(z)) # node
      BY <1>5
<1>7. side = z
      BY <1>1, <1>6 DEF Sides, Other
<1>8. sibling # Nil /\ sibling # node /\ sibling \in mem
      BY <1>3, <1>4, <1>5, <1>6, <1>7
<1>9. sibling # parent /\ node # parent
  <2>1. PICK o \in Sides : o = Other(side)
        BY <1>1, <1>7, OtherSide
  <2>2. Kid(t, parent, o) # parent
        BY <1>2, Around
  <2>3. Kid(t, parent, z) # parent
        BY <1>2, Around
  <2> QED BY <1>1, <2>1, <2>2, <2>3
<1>10. /\ Hue(t, parent) => bh[parent] = bh[sibling]
       /\ ~ Hue(t, parent) => bh[parent] = bh[sibling] + 1
       BY <1>1, <1>3, <1>4, <1>5, <1>7
<1> QED BY <1>1, <1>2, <1>4, <1>5, <1>7, <1>8, <1>9, <1>10

(* Case 1: the red sibling goes up, and the loop body goes on.             *)
LEMMA EraseRotateSiblingGoes ==
  ASSUME tree \in Trees, Ranked(tree), NEW mem, NEW node, NEW parent,
         Head_(tree, "erase", node, parent, mem),
         NEW side, side = IF node # Kid(tree, parent, "right") THEN "left" ELSE "right",
         NEW far, far = Other(side),
         NEW sibling, sibling = Kid(tree, parent, far), Red(tree, sibling),
         NEW tmp1, tmp1 = Kid(tree, sibling, side)
  PROVE  Goes(SetChild(parent, far, tmp1) \o SetChild(sibling, side, parent)
                \o SetParentColor(tmp1, parent, FALSE)
                \o RotateSetParents(parent, sibling, TRUE),
              "erase", node, parent, mem)
<1>1. PICK pos, sub, bh : /\ Shape(tree, mem, sub, pos)
                          /\ Keyed => Sorted(mem, pos)
                          /\ LeftmostOf(tree, mem, pos)
                          /\ Colours(tree, "erase", node, parent, mem, bh)
      BY DEF Head_
<1>2. /\ side \in Sides /\ Bal(tree, mem, bh, parent, side) /\ NoRedRed(tree, mem, Nil)
      /\ ~ Red(tree, tree.root) /\ ~ Red(tree, node)
      /\ parent \in mem /\ Kid(tree, parent, side) = node
      /\ sibling \in mem /\ sibling # Nil
      /\ sibling # parent /\ sibling # node /\ node # parent
      /\ node \in mem \cup {Nil}
      /\ bh[sibling] = bh[node] + 1 /\ bh[node] \in Nat
      /\ bh[parent] \in Nat
      /\ Hue(tree, parent) => bh[parent] = bh[sibling]
      /\ ~ Hue(tree, parent) => bh[parent] = bh[sibling] + 1
      BY <1>1, EraseAround
<1>3. /\ mem \subseteq Nodes /\ Nil \notin Nodes /\ tree.root \in mem \cup {Nil}
      /\ mem \subseteq Ptr /\ Nil \in Ptr
      /\ tree.root # Nil => Up(tree, tree.root) = Nil
      BY <1>1, NilIsNoNode DEF Shape, Ptr
<1>4. IsFiniteSet(mem) /\ Loose(tree, "erase", mem) /\ "erase" # "idle"
      BY DEF Head_
<1>5. far \in Sides /\ far # side /\ Other(far) = side /\ \A s \in Sides : s = side \/ s = far
      BY <1>2, OtherSide
<1>6. PICK outer : outer = Kid(tree, sibling, far)
      OBVIOUS
<1>7. /\ bh \in [Ptr -> Nat] /\ bh[Nil] = 0
      /\ bh[sibling] = bh[tmp1] /\ bh[sibling] = bh[outer]
      /\ tmp1 \in mem \cup {Nil} /\ outer \in mem \cup {Nil}
      /\ Hue(tree, sibling)
  <2>1. Hue(tree, sibling)
        BY DEF Red
  <2>2. /\ bh \in [Ptr -> Nat] /\ bh[Nil] = 0
        /\ \A s \in Sides : /\ Kid(tree, sibling, s) \in mem \cup {Nil}
                            /\ bh[sibling] = bh[Kid(tree, sibling, s)]
        BY <1>1, <1>2, <2>1, BalShort
  <2> QED BY <1>2, <1>5, <1>6, <2>1, <2>2
<1>8. tmp1 # Nil /\ outer # Nil /\ tmp1 \in mem /\ outer \in mem
  <2>1. bh[tmp1] # 0 /\ bh[outer] # 0
        BY <1>2, <1>7
  <2>2. tmp1 # Nil /\ outer # Nil
        BY <1>7, <2>1
  <2> QED BY <1>7, <2>2
<1>9. ~ Hue(tree, parent) /\ ~ Red(tree, tmp1) /\ ~ Red(tree, outer) /\ ~ Hue(tree, tmp1)
  <2>1. ~ Hue(tree, parent)
        BY <1>2, <1>5 DEF NoRedRed
  <2>2. ~ Red(tree, tmp1) /\ ~ Red(tree, outer)
        BY <1>2, <1>5, <1>6, <1>7, <1>8 DEF NoRedRed
  <2> QED BY <1>8, <2>1, <2>2 DEF Red
<1>10. /\ tmp1 # sibling /\ tmp1 # parent /\ tmp1 # node
       /\ outer # sibling /\ outer # parent
       /\ Up(tree, tmp1) = sibling /\ Up(tree, outer) = sibling
       /\ Up(tree, sibling) = parent /\ node # Nil => Up(tree, node) = parent
  <2>1. /\ tmp1 # sibling /\ outer # sibling /\ Up(tree, tmp1) = sibling
        /\ Up(tree, outer) = sibling
        BY <1>1, <1>2, <1>5, <1>6, <1>8, Around
  <2>2. Up(tree, sibling) = parent
        BY <1>1, <1>2, <1>5, Around
  <2>3. node # Nil => Up(tree, node) = parent
        BY <1>1, <1>2, Around
  <2>4. sub[tmp1] \subseteq sub[sibling] /\ sub[outer] \subseteq sub[sibling]
        BY <1>1, <1>2, <1>5, <1>6, Around
  <2>5. parent \in sub[parent] /\ parent \notin sub[sibling]
        BY <1>1, <1>2, <1>5, Around
  <2> QED BY <1>2, <1>8, <2>1, <2>2, <2>3, <2>4, <2>5
<1>11. PICK u :
        /\ Leads(tree, Turn(parent, sibling, far, tmp1, Nil, FALSE, TRUE), u)
        /\ Rotated(tree, u, parent, sibling, far)
        /\ NewHues(tree, u, parent, sibling, tmp1, Nil, FALSE, TRUE)
        /\ StillFramed(u, mem, pos)
  <2>1. Framed("erase", mem, sub, pos)
        BY <1>1, <1>4 DEF Framed
  <2>2. PICK stores : stores = Turn(parent, sibling, far, tmp1, Nil, FALSE, TRUE)
        OBVIOUS
  <2>3. TurnOf(stores, parent, sibling, far, tmp1, Nil, FALSE, TRUE)
        BY <1>2, <1>5, <2>2 DEF TurnOf
  <2>4. \E u : /\ Leads(tree, stores, u) /\ Rotated(tree, u, parent, sibling, far)
               /\ NewHues(tree, u, parent, sibling, tmp1, Nil, FALSE, TRUE)
               /\ StillFramed(u, mem, pos)
        BY <1>2, <2>1, <2>3, SingleTurn
  <2> QED BY <2>2, <2>4
<1>12. Turn(parent, sibling, far, tmp1, Nil, FALSE, TRUE)
         = SetChild(parent, far, tmp1) \o SetChild(sibling, side, parent)
                \o SetParentColor(tmp1, parent, FALSE)
                \o RotateSetParents(parent, sibling, TRUE)
  <2>1. RotateAtGparent(sibling, parent, far, tmp1)
          = Turn(parent, sibling, far, tmp1, Nil, FALSE, TRUE)
        BY TurnAtGparent
  <2>2. IfNode(tmp1, SetParentColor(tmp1, parent, FALSE)) = SetParentColor(tmp1, parent, FALSE)
        BY <1>8 DEF IfNode
  <2> QED BY <1>5, <2>1, <2>2 DEF RotateAtGparent
<1>13. /\ Kid(u, parent, far) = tmp1 /\ Kid(u, parent, side) = node
       /\ Kid(u, sibling, far) = outer /\ Kid(u, sibling, side) = parent
       /\ \A n \in mem \ {parent, sibling}, s \in Sides :
            /\ Kid(tree, n, s) # sibling
            /\ Kid(u, n, s) = IF Kid(tree, n, s) = parent THEN sibling ELSE Kid(tree, n, s)
       /\ u.root = IF tree.root = parent THEN sibling ELSE tree.root
       BY <1>1, <1>2, <1>5, <1>6, <1>11, RotKids
<1>14. /\ Hue(u, parent) /\ ~ Hue(u, sibling)
       /\ \A m \in mem \ {parent, sibling} : Hue(u, m) = Hue(tree, m)
  <2>1. Hue(u, parent) /\ ~ Hue(u, sibling)
        BY <1>2, <1>3, <1>9, <1>11 DEF NewHues
  <2>2. ASSUME NEW m \in mem \ {parent, sibling} PROVE Hue(u, m) = Hue(tree, m)
    <3>1. Hue(tree, m) \in BOOLEAN /\ Hue(tree, tmp1) \in BOOLEAN
          BY <1>3, <1>8, TreeType
    <3> QED BY <1>3, <1>9, <1>11, <3>1 DEF NewHues
  <2> QED BY <2>1, <2>2
<1>15. PICK part : part = {parent, sibling}
       OBVIOUS
<1>16. Reworked(tree, u, mem, part, parent, sibling)
  <2>1. \A n \in mem \ part : Hue(u, n) = Hue(tree, n)
        BY <1>14, <1>15
  <2>2. \A n \in mem, s \in Sides : Kid(tree, n, s) \in mem \cup {Nil}
        BY <1>1, <1>2, BalShort
  <2>3. \A n \in mem \ part, s \in Sides :
          /\ Kid(tree, n, s) \in mem \cup {Nil}
          /\ Kid(tree, n, s) \in part => Kid(tree, n, s) = parent
          /\ Kid(u, n, s) = IF Kid(tree, n, s) = parent THEN sibling ELSE Kid(tree, n, s)
        BY <1>13, <1>15, <2>2
  <2> QED BY <1>2, <1>3, <1>15, <2>1, <2>3 DEF Reworked
<1>17. PICK bh2 : bh2 = [bh EXCEPT ![parent] = bh[sibling], ![sibling] = bh[parent]]
       OBVIOUS
<1>18. /\ bh2 \in [Ptr -> Nat] /\ bh2[parent] = bh[sibling] /\ bh2[sibling] = bh[parent]
       /\ \A n \in Ptr : n # parent /\ n # sibling => bh2[n] = bh[n]
  <2>1. parent \in Ptr /\ sibling \in Ptr /\ bh[parent] \in Nat /\ bh[sibling] \in Nat
        BY <1>2, <1>3
  <2> QED BY <1>2, <1>7, <1>17, <2>1
<1>19. /\ bh2[tmp1] = bh[sibling] /\ bh2[outer] = bh[sibling] /\ bh2[node] = bh[node]
       /\ bh2[Nil] = 0
       BY <1>2, <1>3, <1>7, <1>8, <1>10, <1>18
<1>20. ASSUME NEW n \in part, NEW s \in Sides
       PROVE  bh2[n] = bh2[Kid(u, n, s)] + (IF n = parent /\ s = side THEN 1 ELSE 0)
                        + (IF Hue(u, n) THEN 0 ELSE 1)
  <2>1. CASE n = parent /\ s = side
        BY <1>2, <1>13, <1>14, <1>18, <1>19, <2>1
  <2>2. CASE n = parent /\ s = far
        BY <1>2, <1>5, <1>13, <1>14, <1>18, <1>19, <2>2
  <2>3. CASE n = sibling
    <3>1. bh2[Kid(u, n, s)] = bh[sibling]
          BY <1>5, <1>13, <1>18, <1>19, <2>3
    <3>2. bh2[n] = bh[sibling] + 1 /\ bh[sibling] \in Nat
          BY <1>2, <1>9, <1>18, <2>3
    <3> QED BY <1>2, <1>14, <2>3, <3>1, <3>2
  <2> QED BY <1>5, <1>15, <2>1, <2>2, <2>3
<1>21. Bal(u, mem, bh2, parent, side)
  <2>1. \A n \in mem \ part : bh2[n] = bh[n]
        BY <1>3, <1>15, <1>18
  <2>2. parent \in part \cup {Nil}
        BY <1>15
  <2> QED BY <1>2, <1>16, <1>18, <1>19, <1>20, <2>1, <2>2, RestBal
<1>22. ~ Red(u, node)
       BY <1>2, <1>14 DEF Red
<1>23. NoRedRed(u, mem, Nil) /\ ~ Red(u, u.root)
  <2>1. \A n \in part, s \in Sides : Hue(u, n) => ~ Red(u, Kid(u, n, s))
    <3>1. ~ Red(u, tmp1)
          BY <1>8, <1>9, <1>10, <1>14 DEF Red
    <3> QED BY <1>5, <1>13, <1>14, <1>15, <1>22, <3>1
  <2>2. tree.root \in part => tree.root = parent
        BY <1>2, <1>3, <1>10, <1>15
  <2>3. \A n \in mem \ part, s \in Sides : Kid(tree, n, s) = Nil => Nil = Nil
        OBVIOUS
  <2>4. Hue(u, sibling) => Hue(tree, parent)
        BY <1>14
  <2> QED BY <1>2, <1>3, <1>13, <1>16, <2>1, <2>2, <2>3, <2>4, RestRed
<1>24. Colours(u, "erase", node, parent, mem, bh2)
       BY <1>2, <1>13, <1>21, <1>22, <1>23 DEF Colours
<1>25. Head_(u, "erase", node, parent, mem)
       BY <1>1, <1>4, <1>11, <1>24 DEF Head_, StillFramed
<1> QED BY <1>11, <1>12, <1>25 DEF Goes

(* Case 2: the sibling becomes red, and unless the parent was red, which   *)
(* becomes black, the paths through the parent are one short.  u is the    *)
(* tree after the stores, and black tells whether the parent was red.      *)
Flipped(u, parent, sibling, black) ==
  /\ SameKids(tree, u) /\ SameAnchors(tree, u)
  /\ \A m \in Nodes : Up(u, m) = Up(tree, m)
  /\ Hue(u, sibling) /\ (Hue(u, parent) <=> Hue(tree, parent) /\ ~ black)
  /\ \A m \in Nodes \ {sibling, parent} : Hue(u, m) = Hue(tree, m)

LEMMA FlipRed ==
  ASSUME NEW mem, NEW sub, NEW pos, Shape(tree, mem, sub, pos),
         NoRedRed(tree, mem, Nil), ~ Red(tree, tree.root),
         NEW parent \in mem, NEW far \in Sides,
         NEW sibling \in mem, sibling = Kid(tree, parent, far),
         \A s \in Sides : ~ Red(tree, Kid(tree, sibling, s)),
         NEW u, NEW black, Flipped(u, parent, sibling, black), ~ Hue(u, parent)
  PROVE  NoRedRed(u, mem, Nil) /\ ~ Red(u, u.root)
<1>1. /\ mem \subseteq Nodes /\ Nil \notin Nodes /\ tree.root \in mem \cup {Nil}
      /\ tree.root # Nil => Up(tree, tree.root) = Nil
      /\ \A n \in mem : LinksAt(tree, mem, n)
      BY NilIsNoNode DEF Shape
<1>2. /\ \A m \in Nodes, s \in Sides : Kid(u, m, s) = Kid(tree, m, s)
      /\ u.root = tree.root
      BY DEF Flipped, SameKids, SameAnchors
<1>3. /\ Hue(u, sibling) /\ ~ Hue(u, parent)
      /\ \A m \in Nodes \ {sibling, parent} : Hue(u, m) = Hue(tree, m)
      BY DEF Flipped
<1>4. Up(tree, sibling) = parent /\ sibling # parent /\ parent # Nil
      BY <1>1, Around
<1>5. ASSUME NEW n \in mem, NEW s \in Sides, Hue(u, n), Red(u, Kid(u, n, s))
      PROVE  FALSE
  <2>1. /\ Kid(u, n, s) = Kid(tree, n, s) /\ Kid(tree, n, s) \in mem
        /\ Up(tree, Kid(tree, n, s)) = n /\ Kid(tree, n, s) # Nil
    <3>1. LinksAt(tree, mem, n)
          BY <1>1
    <3>2. Kid(u, n, s) = Kid(tree, n, s) /\ Kid(u, n, s) # Nil
          BY <1>1, <1>2, <1>5 DEF Red
    <3> QED BY <3>1, <3>2 DEF LinksAt
  <2>2. Kid(tree, n, s) # parent /\ n # parent /\ Hue(u, Kid(tree, n, s))
        BY <1>3, <1>5, <2>1 DEF Red
  <2>3. Kid(tree, n, s) # sibling
        BY <1>4, <2>1, <2>2
  <2>4. Red(tree, Kid(tree, n, s))
        BY <1>1, <1>3, <2>1, <2>2, <2>3 DEF Red
  <2>5. n # sibling
        BY <2>4
  <2>6. Hue(tree, n)
        BY <1>1, <1>3, <1>5, <2>2, <2>5
  <2> QED BY <2>1, <2>4, <2>6 DEF NoRedRed
<1>6. ~ Red(u, u.root)
  <2>1. tree.root # sibling
        BY <1>1, <1>4
  <2> QED BY <1>1, <1>2, <1>3, <2>1 DEF Red
<1> QED BY <1>5, <1>6 DEF NoRedRed

(* The black counts when the parent was black.                             *)
LEMMA FlipUpBal ==
  ASSUME NEW mem, NEW sub, NEW pos, Shape(tree, mem, sub, pos),
         NEW parent \in mem, NEW side \in Sides, NEW node, node = Kid(tree, parent, side),
         NEW sibling \in mem, sibling = Kid(tree, parent, Other(side)),
         NEW bh, Bal(tree, mem, bh, parent, side), ~ Hue(tree, parent),
         ~ Hue(tree, sibling),
         NEW u, Flipped(u, parent, sibling, FALSE),
         NEW g, g = Up(tree, parent), NEW gs,
         g # Nil => gs \in Sides /\ Kid(tree, g, gs) = parent
  PROVE  \E bh2 : Bal(u, mem, bh2, g, gs)
<1>1. /\ mem \subseteq Nodes /\ Nil \notin Nodes
      /\ mem \subseteq Ptr /\ Nil \in Ptr
      /\ \A n \in mem : LinksAt(tree, mem, n)
      BY NilIsNoNode DEF Shape, Ptr
<1>2. /\ \A m \in Nodes, s \in Sides : Kid(u, m, s) = Kid(tree, m, s)
      /\ Hue(u, sibling) /\ ~ Hue(u, parent)
      /\ \A m \in Nodes \ {sibling, parent} : Hue(u, m) = Hue(tree, m)
      BY DEF Flipped, SameKids
<1>3. PICK far \in Sides : far = Other(side) /\ far # side /\ \A s \in Sides : s = side \/ s = far
      BY OtherSide
<1>4. /\ bh \in [Ptr -> Nat] /\ bh[Nil] = 0
      /\ \A n \in mem, s \in Sides :
              /\ Kid(tree, n, s) \in mem \cup {Nil}
              /\ bh[Kid(tree, n, s)] \in Nat /\ bh[n] \in Nat
              /\ Hue(tree, n) /\ n # parent => bh[n] = bh[Kid(tree, n, s)]
              /\ ~ Hue(tree, n) /\ n # parent => bh[n] = bh[Kid(tree, n, s)] + 1
  <2>1. bh \in [Ptr -> Nat] /\ bh[Nil] = 0
        BY DEF Bal
  <2>2. ASSUME NEW n \in mem, NEW s \in Sides
        PROVE /\ Kid(tree, n, s) \in mem \cup {Nil}
              /\ bh[Kid(tree, n, s)] \in Nat /\ bh[n] \in Nat
              /\ Hue(tree, n) /\ n # parent => bh[n] = bh[Kid(tree, n, s)]
              /\ ~ Hue(tree, n) /\ n # parent => bh[n] = bh[Kid(tree, n, s)] + 1
    <3>1. Kid(tree, n, s) \in mem \cup {Nil} /\ bh[Kid(tree, n, s)] \in Nat /\ bh[n] \in Nat
          BY BalShort
    <3>2. n # parent => /\ Hue(tree, n) => bh[n] = bh[Kid(tree, n, s)]
                        /\ ~ Hue(tree, n) => bh[n] = bh[Kid(tree, n, s)] + 1
          BY BalElse
    <3> QED BY <3>1, <3>2
  <2> QED BY <2>1, <2>2
<1>5. bh[sibling] = bh[node] + 1 /\ bh[parent] = bh[node] + 2 /\ bh[node] \in Nat
  <2>1. /\ bh[Kid(tree, parent, Other(side))] = bh[Kid(tree, parent, side)] + 1
        /\ bh[parent] = bh[Kid(tree, parent, side)] + 2
        BY BalShort
  <2> QED BY <1>4, <2>1
<1>6. /\ sibling # parent /\ Up(tree, sibling) = parent /\ node # parent /\ node # sibling
      /\ node \in mem \cup {Nil} /\ parent # Nil /\ sibling # Nil
      /\ g # parent
  <2>1. sibling # Nil /\ parent # Nil
        BY <1>1
  <2>2. node # parent /\ node \in mem \cup {Nil} /\ g # parent
        BY Around
  <2>3. sibling # parent /\ Up(tree, sibling) = parent
        BY <1>3, <2>1, Around
  <2>4. node # sibling
        BY <1>5
  <2> QED BY <2>1, <2>2, <2>3, <2>4
<1>7. PICK bh2 : bh2 = [bh EXCEPT ![sibling] = bh[node], ![parent] = bh[node] + 1]
      OBVIOUS
<1>8. /\ bh2 \in [Ptr -> Nat] /\ bh2[sibling] = bh[node] /\ bh2[parent] = bh[node] + 1
      /\ \A n \in Ptr : n # parent /\ n # sibling => bh2[n] = bh[n]
  <2>1. sibling \in Ptr /\ parent \in Ptr /\ bh[node] \in Nat /\ bh[node] + 1 \in Nat
        BY <1>1, <1>5
  <2> QED BY <1>4, <1>6, <1>7, <2>1
<1>9. ASSUME NEW n \in mem, NEW s \in Sides
      PROVE  bh2[n] = bh2[Kid(u, n, s)] + (IF n = g /\ s = gs THEN 1 ELSE 0)
                        + (IF Hue(u, n) THEN 0 ELSE 1)
  <2>0. /\ Kid(u, n, s) = Kid(tree, n, s) /\ Kid(tree, n, s) \in mem \cup {Nil}
        /\ Kid(tree, n, s) # Nil => Up(tree, Kid(tree, n, s)) = n
        BY <1>1, <1>2, <1>4 DEF LinksAt
  <2>1. CASE n = parent
    <3>1. bh2[Kid(u, n, s)] = bh[node]
      <4>1. CASE s = side
            BY <1>1, <1>6, <1>8, <2>0, <2>1, <4>1
      <4>2. CASE s = far
            BY <1>3, <1>8, <2>0, <2>1, <4>2
      <4> QED BY <1>3, <4>1, <4>2
    <3> QED BY <1>2, <1>5, <1>6, <1>8, <2>1, <3>1
  <2>2. CASE n = sibling
    <3>1. Kid(tree, n, s) # parent /\ Kid(tree, n, s) # sibling /\ n # g
      <4>1. Kid(tree, n, s) # sibling
            BY <1>6, <2>0, <2>2
      <4>2. n # g
            BY <1>3, <2>2, Around, <1>6
      <4>3. Kid(tree, n, s) # parent
            BY <1>6, <2>0, <4>2
      <4> QED BY <4>1, <4>2, <4>3
    <3>2. bh2[Kid(u, n, s)] = bh[Kid(tree, n, s)]
          BY <1>1, <1>8, <2>0, <3>1
    <3>3. bh[n] = bh[Kid(tree, n, s)] + 1 /\ bh[Kid(tree, n, s)] \in Nat
          BY <1>4, <1>6, <2>2
    <3> QED BY <1>2, <1>5, <1>8, <2>2, <3>1, <3>2, <3>3
  <2>3. CASE n # parent /\ n # sibling
    <3>1. Kid(tree, n, s) # sibling /\ bh2[n] = bh[n] /\ (Hue(u, n) <=> Hue(tree, n))
          BY <1>1, <1>2, <1>6, <1>8, <2>0, <2>3
    <3>2. /\ Hue(u, n) => bh[n] = bh[Kid(tree, n, s)]
          /\ ~ Hue(u, n) => bh[n] = bh[Kid(tree, n, s)] + 1
          /\ bh[Kid(tree, n, s)] \in Nat
          BY <1>4, <2>3, <3>1
    <3>3. CASE Kid(tree, n, s) = parent
      <4>1. n = g /\ s = gs
        <5>1. n = g /\ g # Nil
              BY <1>1, <1>6, <2>0, <3>3
        <5>2. gs \in Sides /\ Kid(tree, n, gs) = parent
              BY <5>1
        <5>3. Kid(tree, n, Other(s)) # parent
          <6>1. Kid(tree, n, s) # Nil => Kid(tree, n, s) # Kid(tree, n, Other(s))
                BY Around
          <6> QED BY <1>6, <3>3, <6>1
        <5> QED BY <5>1, <5>2, <5>3, OtherSide
      <4>2. bh[Kid(tree, n, s)] = bh2[Kid(u, n, s)] + 1 /\ bh2[Kid(u, n, s)] \in Nat
            BY <1>5, <1>8, <2>0, <3>3
      <4> QED BY <3>1, <3>2, <4>1, <4>2
    <3>4. CASE Kid(tree, n, s) # parent
      <4>1. ~ (n = g /\ s = gs)
            BY <1>1, <3>4
      <4>2. bh2[Kid(u, n, s)] = bh[Kid(tree, n, s)]
            BY <1>1, <1>8, <2>0, <3>1, <3>4
      <4> QED BY <3>1, <3>2, <4>1, <4>2
    <3> QED BY <3>3, <3>4
  <2> QED BY <2>1, <2>2, <2>3
<1>10. bh2[Nil] = 0
       BY <1>1, <1>4, <1>6, <1>8
<1> QED BY <1>8, <1>9, <1>10 DEF Bal

LEMMA EraseFlipGoes ==
  ASSUME tree \in Trees, Ranked(tree), NEW mem, NEW node, NEW parent,
         Head_(tree, "erase", node, parent, mem),
         NEW side, side = IF node # Kid(tree, parent, "right") THEN "left" ELSE "right",
         NEW sibling, sibling = Kid(tree, parent, Other(side)), ~ Red(tree, sibling),
         \A s \in Sides : ~ Red(tree, Kid(tree, sibling, s))
  PROVE  /\ Red(tree, parent) =>
              Goes(SetParentColor(sibling, parent, TRUE)
                     \o SetParentColor(parent, Up(tree, parent), FALSE),
                   "done", Nil, Nil, mem)
         /\ ~ Red(tree, parent) /\ Up(tree, parent) = Nil =>
              Goes(SetParentColor(sibling, parent, TRUE), "done", Nil, Nil, mem)
         /\ ~ Red(tree, parent) /\ Up(tree, parent) # Nil =>
              Goes(SetParentColor(sibling, parent, TRUE),
                   "erase", parent, Up(tree, parent), mem)
<1>1. PICK pos, sub, bh : /\ Shape(tree, mem, sub, pos)
                          /\ Keyed => Sorted(mem, pos)
                          /\ LeftmostOf(tree, mem, pos)
                          /\ Colours(tree, "erase", node, parent, mem, bh)
      BY DEF Head_
<1>2. /\ side \in Sides /\ Bal(tree, mem, bh, parent, side) /\ NoRedRed(tree, mem, Nil)
      /\ ~ Red(tree, tree.root) /\ ~ Red(tree, node)
      /\ parent \in mem /\ Kid(tree, parent, side) = node
      /\ sibling \in mem /\ sibling # Nil
      /\ sibling # parent /\ sibling # node /\ node # parent
      /\ node \in mem \cup {Nil}
      /\ bh[sibling] = bh[node] + 1 /\ bh[node] \in Nat
      /\ bh[parent] \in Nat
      /\ Hue(tree, parent) => bh[parent] = bh[sibling]
      /\ ~ Hue(tree, parent) => bh[parent] = bh[sibling] + 1
      BY <1>1, EraseAround
<1>3. /\ mem \subseteq Nodes /\ Nil \notin Nodes /\ tree.root \in mem \cup {Nil}
      /\ mem \subseteq Ptr /\ Nil \in Ptr
      /\ \A n \in mem : LinksAt(tree, mem, n)
      BY <1>1, NilIsNoNode DEF Shape, Ptr
<1>4. IsFiniteSet(mem) /\ Loose(tree, "erase", mem) /\ "erase" # "idle"
      BY DEF Head_
<1>5. PICK far \in Sides : /\ far = Other(side) /\ far # side /\ Other(far) = side
                           /\ \A s \in Sides : s = side \/ s = far
      BY <1>2, OtherSide
<1>6. Up(tree, sibling) = parent /\ Up(tree, parent) \in mem \cup {Nil} /\ ~ Hue(tree, sibling)
  <2>1. Up(tree, sibling) = parent /\ Up(tree, parent) \in mem \cup {Nil}
        BY <1>1, <1>2, <1>5, Around
  <2> QED BY <1>2, <2>1 DEF Red
<1>7. PICK r : Ranks(r, tree)
      BY DEF Ranked
<1>8. PICK t \in Trees : /\ Leads(tree, SetParentColor(sibling, parent, TRUE), t)
                         /\ Ranks(r, t) /\ UpSet(tree, t, sibling, parent, TRUE)
  <2>1. sibling \in Nodes /\ parent \in Ptr
        BY <1>2, <1>3
  <2> QED BY <1>7, <2>1, DoUp
<1>9. ASSUME NEW u, NEW black, Flipped(u, parent, sibling, black)
      PROVE  /\ Shape(u, mem, sub, pos) /\ LeftmostOf(u, mem, pos)
             /\ \A pc2 : pc2 # "idle" => Loose(u, pc2, mem)
  <2>1. PICK pc : pc = "erase" /\ pc # "idle" /\ Loose(tree, pc, mem)
        BY <1>4
  <2>2. SameKids(tree, u) /\ SameAnchors(tree, u) /\ \A m \in Nodes : Up(u, m) = Up(tree, m)
        BY <1>9 DEF Flipped
  <2>3. Shape(tree, mem, sub, pos) /\ LeftmostOf(tree, mem, pos)
        BY <1>1
  <2>4. Shape(u, mem, sub, pos) /\ LeftmostOf(u, mem, pos)
        BY <2>1, <2>2, <2>3, SameShape
  <2>5. \A pc2 : pc2 # "idle" => Loose(u, pc2, mem)
        BY <2>1, <2>2, <2>3, SameShape
  <2> QED BY <2>4, <2>5
<1>10. Flipped(t, parent, sibling, FALSE)
  <2>1. Hue(t, parent) = Hue(tree, parent) /\ Hue(t, sibling)
        BY <1>2, <1>3, <1>8 DEF UpSet
  <2>2. \A m \in Nodes : Up(t, m) = Up(tree, m)
        BY <1>6, <1>8 DEF UpSet
  <2>3. \A m \in Nodes \ {sibling, parent} : Hue(t, m) = Hue(tree, m)
        BY <1>8 DEF UpSet
  <2>4. SameKids(tree, t) /\ SameAnchors(tree, t)
        BY <1>8 DEF UpSet
  <2> QED BY <2>1, <2>2, <2>3, <2>4 DEF Flipped
<1>11. CASE Red(tree, parent)
  <2>1. PICK u \in Trees : /\ Leads(t, SetParentColor(parent, Up(tree, parent), FALSE), u)
                           /\ UpSet(t, u, parent, Up(tree, parent), FALSE)
    <3>1. parent \in Nodes /\ Up(tree, parent) \in Ptr
          BY <1>2, <1>3, <1>6
    <3> QED BY <1>8, <3>1, DoUp
  <2>2. Flipped(u, parent, sibling, TRUE)
    <3>1. ~ Hue(u, parent) /\ Hue(u, sibling)
          BY <1>2, <1>3, <1>10, <2>1 DEF UpSet, Flipped
    <3>2. \A m \in Nodes : Up(u, m) = Up(tree, m)
          BY <1>10, <2>1 DEF UpSet, Flipped
    <3>3. \A m \in Nodes \ {sibling, parent} : Hue(u, m) = Hue(tree, m)
          BY <1>10, <2>1 DEF UpSet, Flipped
    <3>4. SameKids(tree, u) /\ SameAnchors(tree, u)
          BY <1>10, <2>1 DEF UpSet, SameKids, SameAnchors, Flipped
    <3> QED BY <3>1, <3>2, <3>3, <3>4 DEF Flipped
  <2>3. /\ ~ Hue(u, parent) /\ Hue(u, sibling)
        /\ \A m \in Nodes \ {sibling, parent} : Hue(u, m) = Hue(tree, m)
        /\ \A m \in mem, s \in Sides : Kid(u, m, s) = Kid(tree, m, s)
        /\ u.root = tree.root
        BY <1>3, <2>2 DEF Flipped, SameKids, SameAnchors
  <2>4. NoRedRed(u, mem, Nil) /\ ~ Red(u, u.root)
        BY <1>1, <1>2, <1>5, <2>2, <2>3, FlipRed
  <2>5. Hue(tree, parent) /\ bh[parent] = bh[node] + 1
        BY <1>2, <1>11 DEF Red
  <2>6. PICK part : part = {parent, sibling}
        OBVIOUS
  <2>7. Reworked(tree, u, mem, part, parent, parent)
    <3>1. ASSUME NEW n \in mem \ part, NEW s \in Sides
          PROVE  /\ Kid(tree, n, s) \in mem \cup {Nil}
                 /\ Kid(tree, n, s) \in part => Kid(tree, n, s) = parent
                 /\ Kid(u, n, s) = IF Kid(tree, n, s) = parent THEN parent ELSE Kid(tree, n, s)
      <4>1. /\ Kid(tree, n, s) \in mem \cup {Nil}
            /\ Kid(tree, n, s) # Nil => Up(tree, Kid(tree, n, s)) = n
            BY <1>3 DEF LinksAt
      <4>2. Kid(tree, n, s) # sibling
            BY <1>2, <1>6, <2>6, <4>1
      <4> QED BY <2>3, <2>6, <4>1, <4>2
    <3>2. \A n \in mem \ part : Hue(u, n) = Hue(tree, n)
          BY <1>3, <2>3, <2>6
    <3> QED BY <1>2, <1>3, <2>6, <3>1, <3>2 DEF Reworked
  <2>8. /\ bh \in [Ptr -> Nat] /\ bh[Nil] = 0
        /\ \A s \in Sides : /\ Kid(tree, sibling, s) \in mem \cup {Nil}
                            /\ bh[Kid(tree, sibling, s)] \in Nat
                            /\ bh[sibling] = bh[Kid(tree, sibling, s)] + 1
    <3>1. bh \in [Ptr -> Nat] /\ bh[Nil] = 0
          BY <1>2 DEF Bal
    <3>2. ASSUME NEW s \in Sides
          PROVE  /\ Kid(tree, sibling, s) \in mem \cup {Nil}
                 /\ bh[Kid(tree, sibling, s)] \in Nat
          BY <1>1, <1>2, BalShort
    <3>3. \A s \in Sides : bh[sibling] = bh[Kid(tree, sibling, s)] + 1
          BY <1>1, <1>2, <1>6, BalElse
    <3> QED BY <3>1, <3>2, <3>3
  <2>9. PICK bh2 : bh2 = [bh EXCEPT ![sibling] = bh[node]]
        OBVIOUS
  <2>10. /\ bh2 \in [Ptr -> Nat] /\ bh2[sibling] = bh[node]
         /\ \A n \in Ptr : n # sibling => bh2[n] = bh[n]
    <3>1. sibling \in Ptr
          BY <1>2, <1>3
    <3> QED BY <1>2, <2>8, <2>9, <3>1
  <2>11. ASSUME NEW n \in part, NEW s \in Sides
         PROVE  bh2[n] = bh2[Kid(u, n, s)] + (IF n = Nil /\ s = "left" THEN 1 ELSE 0)
                        + (IF Hue(u, n) THEN 0 ELSE 1)
    <3>1. n # Nil /\ n \in mem
          BY <1>2, <1>3, <2>6
    <3>2. CASE n = parent
      <4>1. bh2[Kid(u, n, s)] = bh[node]
        <5>1. CASE s = side
              BY <1>2, <1>3, <2>3, <2>10, <3>2, <5>1
        <5>2. CASE s = far
              BY <1>2, <1>5, <2>3, <2>10, <3>2, <5>2
        <5> QED BY <1>5, <5>1, <5>2
      <4>2. bh2[n] = bh[node] + 1
            BY <1>2, <1>3, <2>5, <2>10, <3>2
      <4> QED BY <1>2, <2>3, <3>1, <3>2, <4>1, <4>2
    <3>3. CASE n = sibling
      <4>1. Kid(tree, n, s) # sibling
        <5>1. Kid(tree, n, s) # n
              BY <1>1, <3>1, Around
        <5> QED BY <3>3, <5>1
      <4>2. bh2[Kid(u, n, s)] = bh[Kid(tree, n, s)]
            BY <1>2, <1>3, <2>3, <2>8, <2>10, <3>3, <4>1
      <4>3. bh[Kid(tree, n, s)] = bh[node]
            BY <1>2, <2>8, <3>3
      <4> QED BY <1>2, <2>3, <2>10, <3>1, <3>3, <4>2, <4>3
    <3> QED BY <2>6, <3>2, <3>3
  <2>12. Bal(u, mem, bh2, Nil, "left")
    <3>1. \A n \in mem \ part : bh2[n] = bh[n]
          BY <1>3, <2>6, <2>10
    <3>2. bh2[Nil] = 0 /\ bh2[parent] = bh[parent]
          BY <1>2, <1>3, <2>8, <2>10
    <3>3. parent \in part \cup {Nil}
          BY <2>6
    <3> QED BY <1>2, <2>7, <2>10, <2>11, <3>1, <3>2, <3>3, RestBal
  <2>13. Colours(u, "done", Nil, Nil, mem, bh2)
         BY <2>4, <2>12 DEF Colours
  <2>14. Head_(u, "done", Nil, Nil, mem)
         BY <1>1, <1>4, <1>9, <2>2, <2>13 DEF Head_
  <2>15. Leads(tree, SetParentColor(sibling, parent, TRUE)
                     \o SetParentColor(parent, Up(tree, parent), FALSE), u)
         BY <1>8, <2>1, LeadsOn
  <2> QED BY <1>11, <2>14, <2>15 DEF Goes
<1>12. CASE ~ Red(tree, parent)
  <2>1. ~ Hue(tree, parent) /\ ~ Hue(t, parent) /\ ~ Red(t, parent)
        BY <1>2, <1>3, <1>10, <1>12 DEF Red, Flipped
  <2>2. NoRedRed(t, mem, Nil) /\ ~ Red(t, t.root)
        BY <1>1, <1>2, <1>5, <1>10, <2>1, FlipRed
  <2>3. CASE Up(tree, parent) = Nil
    <3>1. PICK bh2 : Bal(t, mem, bh2, Nil, "left")
      <4>1. PICK g, gs : g = Up(tree, parent) /\ g = Nil /\ gs = "left"
            BY <2>3
      <4> QED BY <1>1, <1>2, <1>6, <1>10, <2>1, <4>1, FlipUpBal
    <3>2. Colours(t, "done", Nil, Nil, mem, bh2)
          BY <2>2, <3>1 DEF Colours
    <3>3. Head_(t, "done", Nil, Nil, mem)
          BY <1>1, <1>4, <1>9, <1>10, <3>2 DEF Head_
    <3> QED BY <1>8, <1>12, <2>3, <3>3 DEF Goes
  <2>4. CASE Up(tree, parent) # Nil
    <3>1. PICK g, gs : g = Up(tree, parent) /\ g \in mem /\ gs \in Sides
                         /\ Kid(tree, g, gs) = parent
          BY <1>2, <1>3, <2>4 DEF LinksAt
    <3>2. PICK bh2 : Bal(t, mem, bh2, g, gs)
          BY <1>1, <1>2, <1>6, <1>10, <2>1, <3>1, FlipUpBal
    <3>3. Kid(t, g, gs) = parent
          BY <1>3, <1>10, <3>1 DEF Flipped, SameKids
    <3>4. Colours(t, "erase", parent, g, mem, bh2)
          BY <2>1, <2>2, <3>1, <3>2, <3>3 DEF Colours
    <3>5. Head_(t, "erase", parent, g, mem)
          BY <1>1, <1>4, <1>9, <1>10, <3>4 DEF Head_
    <3> QED BY <1>8, <1>12, <2>4, <3>1, <3>5 DEF Goes
  <2> QED BY <2>3, <2>4
<1> QED BY <1>11, <1>12

(* The colour of a node in memory.                                         *)
LEMMA RedHue ==
  ASSUME tree \in Trees, NEW n \in Nodes
  PROVE  IsRed(n) = Hue(tree, n) /\ Hue(tree, n) \in BOOLEAN /\ IsRed(n) \in BOOLEAN
<1>1. Hue(tree, n) \in BOOLEAN
      BY TreeType
<1>2. n # Nil
      BY NilIsNoNode
<1> QED BY <1>1, <1>2 DEF IsRed, Hue

(* Case 4: the sibling goes up, and outer, its far child, becomes black.   *)
LEMMA EraseRotateGoes ==
  ASSUME tree \in Trees, Ranked(tree), NEW mem, NEW node, NEW parent,
         Head_(tree, "erase", node, parent, mem),
         NEW side, side = IF node # Kid(tree, parent, "right") THEN "left" ELSE "right",
         NEW far, far = Other(side),
         NEW sibling, sibling = Kid(tree, parent, far), ~ Red(tree, sibling),
         NEW outer, outer = Kid(tree, sibling, far), Red(tree, outer),
         NEW inner, inner = Kid(tree, sibling, side)
  PROVE  Goes(SiblingUp(parent, sibling, side, outer, inner), "done", Nil, Nil, mem)
<1>1. PICK pos, sub, bh : /\ Shape(tree, mem, sub, pos)
                          /\ Keyed => Sorted(mem, pos)
                          /\ LeftmostOf(tree, mem, pos)
                          /\ Colours(tree, "erase", node, parent, mem, bh)
      BY DEF Head_
<1>2. /\ side \in Sides /\ Bal(tree, mem, bh, parent, side) /\ NoRedRed(tree, mem, Nil)
      /\ ~ Red(tree, tree.root) /\ ~ Red(tree, node)
      /\ parent \in mem /\ Kid(tree, parent, side) = node
      /\ sibling \in mem /\ sibling # Nil
      /\ sibling # parent /\ sibling # node /\ node # parent
      /\ node \in mem \cup {Nil}
      /\ bh[sibling] = bh[node] + 1 /\ bh[node] \in Nat
      /\ bh[parent] \in Nat
      /\ Hue(tree, parent) => bh[parent] = bh[sibling]
      /\ ~ Hue(tree, parent) => bh[parent] = bh[sibling] + 1
      BY <1>1, EraseAround
<1>3. /\ mem \subseteq Nodes /\ Nil \notin Nodes /\ tree.root \in mem \cup {Nil}
      /\ mem \subseteq Ptr /\ Nil \in Ptr
      /\ tree.root # Nil => Up(tree, tree.root) = Nil
      BY <1>1, NilIsNoNode DEF Shape, Ptr
<1>4. IsFiniteSet(mem) /\ Loose(tree, "erase", mem) /\ "erase" # "idle"
      BY DEF Head_
<1>5. far \in Sides /\ far # side /\ Other(far) = side /\ \A s \in Sides : s = side \/ s = far
      BY <1>2, OtherSide
<1>6. /\ outer # Nil /\ Hue(tree, outer) /\ ~ Hue(tree, sibling)
      /\ bh \in [Ptr -> Nat] /\ bh[Nil] = 0
      /\ inner \in mem \cup {Nil} /\ outer \in mem
      /\ bh[inner] \in Nat /\ bh[outer] \in Nat
      /\ bh[sibling] = bh[inner] + 1 /\ bh[sibling] = bh[outer] + 1
  <2>1. outer # Nil /\ Hue(tree, outer) /\ ~ Hue(tree, sibling)
        BY <1>2 DEF Red
  <2>2. bh \in [Ptr -> Nat] /\ bh[Nil] = 0
        BY <1>2 DEF Bal
  <2>3. ASSUME NEW s \in Sides
        PROVE  Kid(tree, sibling, s) \in mem \cup {Nil} /\ bh[Kid(tree, sibling, s)] \in Nat
        BY <1>1, <1>2, BalShort
  <2>4. \A s \in Sides : bh[sibling] = bh[Kid(tree, sibling, s)] + 1
        BY <1>1, <1>2, <2>1, BalElse
  <2> QED BY <1>2, <1>5, <2>1, <2>2, <2>3, <2>4
<1>7. /\ inner # sibling /\ inner # parent
      /\ outer # sibling /\ outer # parent /\ outer # inner /\ outer # node
      /\ Up(tree, outer) = sibling /\ Up(tree, sibling) = parent
  <2>1. /\ outer # sibling /\ Up(tree, outer) = sibling /\ outer # Kid(tree, sibling, Other(far))
        BY <1>1, <1>2, <1>5, <1>6, Around
  <2>2. inner # sibling /\ inner # Nil => Up(tree, inner) = sibling
        BY <1>1, <1>2, Around
  <2>3. Up(tree, sibling) = parent
        BY <1>1, <1>2, <1>5, Around
  <2>4. node # Nil => Up(tree, node) = parent
        BY <1>1, <1>2, Around
  <2>5. sub[inner] \subseteq sub[sibling] /\ sub[outer] \subseteq sub[sibling]
        BY <1>1, <1>2, <1>5, Around
  <2>6. parent \in sub[parent] /\ parent \notin sub[sibling]
        BY <1>1, <1>2, <1>5, Around
  <2> QED BY <1>2, <1>3, <1>5, <1>6, <2>1, <2>2, <2>3, <2>4, <2>5, <2>6
<1>8. inner # Nil => IsRed(inner) = Hue(tree, inner) /\ IsRed(inner) \in BOOLEAN
      BY <1>3, <1>6, RedHue
<1>9. PICK b : b = IsRed(inner)
      OBVIOUS
<1>10. PICK u :
        /\ Leads(tree, Turn(parent, sibling, far, inner, outer, b, FALSE), u)
        /\ Rotated(tree, u, parent, sibling, far)
        /\ NewHues(tree, u, parent, sibling, inner, outer, b, FALSE)
        /\ StillFramed(u, mem, pos)
  <2>1. Framed("erase", mem, sub, pos)
        BY <1>1, <1>4 DEF Framed
  <2>2. PICK stores : stores = Turn(parent, sibling, far, inner, outer, b, FALSE)
        OBVIOUS
  <2>3. TurnOf(stores, parent, sibling, far, inner, outer, b, FALSE)
        BY <1>2, <1>5, <1>8, <1>9, <2>2 DEF TurnOf
  <2>4. PICK u : /\ Leads(tree, stores, u) /\ Rotated(tree, u, parent, sibling, far)
                 /\ NewHues(tree, u, parent, sibling, inner, outer, b, FALSE)
                 /\ StillFramed(u, mem, pos)
        BY <1>2, <2>1, <2>3, SingleTurn
  <2> QED BY <2>2, <2>4
<1>11. SiblingUp(parent, sibling, side, outer, inner)
         = Turn(parent, sibling, far, inner, outer, b, FALSE)
  <2>1. IfNode(outer, SetParentColor(outer, sibling, FALSE)) = SetParentColor(outer, sibling, FALSE)
        BY <1>6 DEF IfNode
  <2> QED BY <1>5, <1>9, <2>1 DEF SiblingUp, Turn, SetParent
<1>12. /\ Kid(u, parent, far) = inner /\ Kid(u, parent, side) = node
       /\ Kid(u, sibling, far) = outer /\ Kid(u, sibling, side) = parent
       /\ \A n \in mem \ {parent, sibling}, s \in Sides :
            /\ Kid(tree, n, s) # sibling
            /\ Kid(u, n, s) = IF Kid(tree, n, s) = parent THEN sibling ELSE Kid(tree, n, s)
       /\ u.root = IF tree.root = parent THEN sibling ELSE tree.root
       BY <1>1, <1>2, <1>5, <1>10, RotKids
<1>13. /\ ~ Hue(u, parent) /\ ~ Hue(u, outer)
       /\ Hue(u, sibling) = Hue(tree, parent)
       /\ \A m \in mem \ {parent, sibling, outer} : Hue(u, m) = Hue(tree, m)
  <2>1. ~ Hue(u, parent)
        BY <1>2, <1>3, <1>10 DEF NewHues
  <2>2. Hue(u, sibling) = Hue(tree, parent)
        BY <1>2, <1>3, <1>10 DEF NewHues
  <2>3. ~ Hue(u, outer)
        BY <1>3, <1>6, <1>7, <1>10 DEF NewHues
  <2>4. ASSUME NEW m \in mem \ {parent, sibling, outer} PROVE Hue(u, m) = Hue(tree, m)
        BY <1>3, <1>8, <1>9, <1>10 DEF NewHues
  <2> QED BY <2>1, <2>2, <2>3, <2>4
<1>14. PICK part : part = {parent, sibling, outer}
       OBVIOUS
<1>15. \A n \in mem, s \in Sides :
         /\ Kid(tree, n, s) \in mem \cup {Nil}
         /\ Kid(tree, n, s) # Nil => Up(tree, Kid(tree, n, s)) = n
       BY <1>1 DEF Shape, LinksAt
<1>16. Reworked(tree, u, mem, part, parent, sibling)
  <2>1. \A n \in mem \ part : Hue(u, n) = Hue(tree, n)
        BY <1>13, <1>14
  <2>2. ASSUME NEW n \in mem \ part, NEW s \in Sides
        PROVE  /\ Kid(tree, n, s) \in mem \cup {Nil}
               /\ Kid(tree, n, s) \in part => Kid(tree, n, s) = parent
               /\ Kid(u, n, s) = IF Kid(tree, n, s) = parent THEN sibling ELSE Kid(tree, n, s)
    <3>1. Kid(tree, n, s) # outer
          BY <1>6, <1>7, <1>14, <1>15
    <3> QED BY <1>12, <1>14, <1>15, <3>1
  <2> QED BY <1>2, <1>3, <1>6, <1>14, <2>1, <2>2 DEF Reworked
<1>17. PICK bh2 : bh2 = [bh EXCEPT ![parent] = bh[sibling], ![sibling] = bh[parent],
                                   ![outer] = bh[outer] + 1]
       OBVIOUS
<1>18. /\ bh2 \in [Ptr -> Nat] /\ bh2[parent] = bh[sibling] /\ bh2[sibling] = bh[parent]
       /\ bh2[outer] = bh[sibling]
       /\ \A n \in Ptr : n \notin {parent, sibling, outer} => bh2[n] = bh[n]
  <2>1. /\ parent \in Ptr /\ sibling \in Ptr /\ outer \in Ptr
        /\ bh[parent] \in Nat /\ bh[sibling] \in Nat /\ bh[outer] + 1 \in Nat
        BY <1>2, <1>3, <1>6
  <2> QED BY <1>2, <1>6, <1>7, <1>17, <2>1
<1>19. bh2[inner] = bh[inner] /\ bh2[node] = bh[node] /\ bh2[Nil] = 0
       BY <1>2, <1>3, <1>6, <1>7, <1>18
<1>20. ASSUME NEW n \in part, NEW s \in Sides
       PROVE  bh2[n] = bh2[Kid(u, n, s)] + (IF n = Nil /\ s = "left" THEN 1 ELSE 0)
                        + (IF Hue(u, n) THEN 0 ELSE 1)
  <2>0. n # Nil
        BY <1>2, <1>3, <1>6, <1>14
  <2>1. CASE n = parent
    <3>1. bh2[Kid(u, n, s)] = bh[node]
      <4>1. bh[inner] = bh[node]
            BY <1>2, <1>6
      <4> QED BY <1>5, <1>12, <1>19, <2>1, <4>1
    <3> QED BY <1>2, <1>13, <1>18, <2>0, <2>1, <3>1
  <2>2. CASE n = sibling
    <3>1. bh2[Kid(u, n, s)] = bh[sibling]
          BY <1>5, <1>12, <1>18, <2>2
    <3>2. bh2[n] = bh[parent] /\ bh[sibling] \in Nat
          BY <1>2, <1>18, <2>2
    <3> QED BY <1>2, <1>13, <2>0, <2>2, <3>1, <3>2
  <2>3. CASE n = outer
    <3>1. bh[outer] = bh[Kid(tree, outer, s)]
          BY <1>1, <1>2, <1>6, <1>7, BalElse
    <3>2. Kid(u, n, s) = Kid(tree, n, s) /\ Kid(tree, n, s) \notin {parent, sibling, outer}
      <4>1. Kid(tree, n, s) # outer
        <5>1. Kid(tree, outer, s) # outer
              BY <1>6, <1>7, <1>15
        <5> QED BY <2>3, <5>1
      <4>2. Kid(tree, n, s) # parent
        <5>1. sub[Kid(tree, n, s)] \subseteq sub[outer] /\ sub[outer] \subseteq sub[sibling]
          <6>1. sub[outer] \subseteq sub[sibling]
                BY <1>1, <1>2, <1>5, Around
          <6>2. sub[Kid(tree, n, s)] \subseteq sub[n]
                BY <1>1, <1>6, <2>3, Around
          <6> QED BY <2>3, <6>1, <6>2
        <5>2. parent \in sub[parent] /\ parent \notin sub[sibling]
              BY <1>1, <1>2, <1>5, Around
        <5> QED BY <5>1, <5>2
      <4>3. Kid(tree, n, s) # sibling
            BY <1>3, <1>2, <1>6, <1>7, <1>15, <2>3
      <4> QED BY <1>6, <1>7, <1>12, <2>3, <4>1, <4>2, <4>3
    <3>3. Kid(tree, n, s) \in Ptr
          BY <1>3, <1>6, <1>15, <2>3
    <3>4. bh2[Kid(u, n, s)] = bh[outer]
          BY <1>18, <2>3, <3>1, <3>2, <3>3
    <3> QED BY <1>6, <1>13, <1>18, <2>0, <2>3, <3>4
  <2> QED BY <1>14, <2>1, <2>2, <2>3
<1>21. Bal(u, mem, bh2, Nil, "left")
  <2>1. \A n \in mem \ part : bh2[n] = bh[n]
        BY <1>3, <1>14, <1>18
  <2>2. parent \in part \cup {Nil}
        BY <1>14
  <2> QED BY <1>2, <1>16, <1>18, <1>19, <1>20, <2>1, <2>2, RestBal
<1>22. NoRedRed(u, mem, Nil) /\ ~ Red(u, u.root)
  <2>1. \A n \in part, s \in Sides : Hue(u, n) => ~ Red(u, Kid(u, n, s))
        BY <1>5, <1>12, <1>13, <1>14 DEF Red
  <2>2. tree.root \in part => tree.root = parent
        BY <1>2, <1>3, <1>6, <1>7, <1>14
  <2>3. \A n \in mem \ part, s \in Sides : Kid(tree, n, s) = Nil => Nil = Nil
        OBVIOUS
  <2>4. Hue(u, sibling) => Hue(tree, parent)
        BY <1>13
  <2> QED BY <1>2, <1>3, <1>12, <1>16, <2>1, <2>2, <2>3, <2>4, RestRed
<1>23. Colours(u, "done", Nil, Nil, mem, bh2)
       BY <1>21, <1>22 DEF Colours
<1>24. Head_(u, "done", Nil, Nil, mem)
       BY <1>1, <1>4, <1>10, <1>23 DEF Head_, StillFramed
<1> QED BY <1>10, <1>11, <1>24 DEF Goes

(* The stores of EraseRotateTwice.                                         *)
TwiceUp(parent, sibling, near, side, far, tmp1) ==
  SetChild(sibling, side, tmp1) \o SetChild(near, far, sibling)
    \o SetChild(parent, far, near)
    \o IfNode(tmp1, SetParentColor(tmp1, sibling, FALSE))
    \o SiblingUp(parent, near, side, sibling, Kid(tree, near, side))

(* Cases 3 and 4: the near child of the sibling goes up twice.             *)
LEMMA EraseRotateTwiceGoes ==
  ASSUME tree \in Trees, Ranked(tree), NEW mem, NEW node, NEW parent,
         Head_(tree, "erase", node, parent, mem),
         NEW side, side = IF node # Kid(tree, parent, "right") THEN "left" ELSE "right",
         NEW far, far = Other(side),
         NEW sibling, sibling = Kid(tree, parent, far), ~ Red(tree, sibling),
         ~ Red(tree, Kid(tree, sibling, far)),
         NEW near, near = Kid(tree, sibling, side), Red(tree, near),
         NEW tmp1, tmp1 = Kid(tree, near, far)
  PROVE  Goes(TwiceUp(parent, sibling, near, side, far, tmp1), "done", Nil, Nil, mem)
<1>1. PICK pos, sub, bh : /\ Shape(tree, mem, sub, pos)
                          /\ Keyed => Sorted(mem, pos)
                          /\ LeftmostOf(tree, mem, pos)
                          /\ Colours(tree, "erase", node, parent, mem, bh)
      BY DEF Head_
<1>2. /\ side \in Sides /\ Bal(tree, mem, bh, parent, side) /\ NoRedRed(tree, mem, Nil)
      /\ ~ Red(tree, tree.root) /\ ~ Red(tree, node)
      /\ parent \in mem /\ Kid(tree, parent, side) = node
      /\ sibling \in mem /\ sibling # Nil
      /\ sibling # parent /\ sibling # node /\ node # parent
      /\ node \in mem \cup {Nil}
      /\ bh[sibling] = bh[node] + 1 /\ bh[node] \in Nat
      /\ bh[parent] \in Nat
      /\ Hue(tree, parent) => bh[parent] = bh[sibling]
      /\ ~ Hue(tree, parent) => bh[parent] = bh[sibling] + 1
      BY <1>1, EraseAround
<1>3. /\ mem \subseteq Nodes /\ Nil \notin Nodes /\ tree.root \in mem \cup {Nil}
      /\ mem \subseteq Ptr /\ Nil \in Ptr
      /\ tree.root # Nil => Up(tree, tree.root) = Nil
      BY <1>1, NilIsNoNode DEF Shape, Ptr
<1>4. IsFiniteSet(mem) /\ Loose(tree, "erase", mem) /\ "erase" # "idle"
      BY DEF Head_
<1>5. far \in Sides /\ far # side /\ Other(far) = side /\ \A s \in Sides : s = side \/ s = far
      BY <1>2, OtherSide
<1>6. PICK outer, inner : outer = Kid(tree, sibling, far) /\ inner = Kid(tree, near, side)
      OBVIOUS
<1>7. \A n \in mem, s \in Sides :
         /\ Kid(tree, n, s) \in mem \cup {Nil}
         /\ Kid(tree, n, s) # Nil => Up(tree, Kid(tree, n, s)) = n
       BY <1>1 DEF Shape, LinksAt
<1>8. /\ near # Nil /\ Hue(tree, near) /\ ~ Hue(tree, sibling) /\ near \in mem
      /\ bh \in [Ptr -> Nat] /\ bh[Nil] = 0
      /\ bh[near] = bh[node] /\ bh[outer] = bh[node]
      /\ near # sibling /\ near # parent /\ Up(tree, near) = sibling
      /\ Up(tree, sibling) = parent
  <2>1. near # Nil /\ Hue(tree, near) /\ ~ Hue(tree, sibling)
        BY <1>2 DEF Red
  <2>2. bh \in [Ptr -> Nat] /\ bh[Nil] = 0
        BY <1>2 DEF Bal
  <2>3. near \in mem /\ Up(tree, near) = sibling /\ Up(tree, sibling) = parent
        BY <1>2, <1>5, <1>7, <2>1
  <2>4. \A s \in Sides : bh[sibling] = bh[Kid(tree, sibling, s)] + 1
        BY <1>1, <1>2, <2>1, BalElse
  <2>5. bh[near] \in Nat /\ bh[outer] \in Nat
        BY <1>3, <1>2, <1>5, <1>6, <1>7, <2>2, <2>3
  <2>6. near # sibling
        BY <1>1, <1>2, Around
  <2>7. near # parent
    <3>1. sub[near] \subseteq sub[sibling]
          BY <1>1, <1>2, Around
    <3>2. parent \in sub[parent] /\ parent \notin sub[sibling]
          BY <1>1, <1>2, <1>5, Around
    <3> QED BY <3>1, <3>2
  <2> QED BY <1>2, <1>5, <1>6, <2>1, <2>2, <2>3, <2>4, <2>5, <2>6, <2>7
<1>9. /\ tmp1 \in mem \cup {Nil} /\ inner \in mem \cup {Nil} /\ outer \in mem \cup {Nil}
      /\ bh[tmp1] = bh[node] /\ bh[inner] = bh[node]
      /\ ~ Red(tree, tmp1) /\ ~ Red(tree, inner) /\ ~ Red(tree, outer)
  <2>1. tmp1 \in mem \cup {Nil} /\ inner \in mem \cup {Nil} /\ outer \in mem \cup {Nil}
        BY <1>2, <1>5, <1>6, <1>7, <1>8
  <2>2. \A s \in Sides : bh[near] = bh[Kid(tree, near, s)]
        BY <1>1, <1>2, <1>8, BalElse
  <2>3. ~ Red(tree, tmp1) /\ ~ Red(tree, inner)
        BY <1>2, <1>3, <1>5, <1>6, <1>8, <2>1 DEF NoRedRed, Red
  <2> QED BY <1>2, <1>5, <1>6, <1>8, <2>1, <2>2, <2>3
<1>10. /\ tmp1 \notin {near, sibling, parent} /\ inner \notin {near, sibling, parent}
       /\ outer \notin {near, sibling, parent} /\ node \notin {near, sibling, parent}
       /\ tmp1 # Nil => tmp1 # inner
  <2>1. /\ tmp1 # near /\ inner # near
        /\ sub[tmp1] \subseteq sub[near] /\ sub[inner] \subseteq sub[near]
    <3>1. tmp1 # near /\ sub[tmp1] \subseteq sub[near]
          BY <1>1, <1>5, <1>8, Around
    <3>2. inner # near /\ sub[inner] \subseteq sub[near]
          BY <1>1, <1>2, <1>6, <1>8, Around
    <3> QED BY <3>1, <3>2
  <2>2. tmp1 # Nil => tmp1 # inner
        BY <1>1, <1>5, <1>6, <1>8, Around
  <2>3. /\ sub[near] \subseteq sub[sibling] /\ sibling \notin sub[near]
        /\ sibling \in sub[sibling]
        BY <1>1, <1>2, Around
  <2>4. outer # sibling /\ sub[outer] \subseteq sub[sibling]
        BY <1>1, <1>2, <1>5, <1>6, Around
  <2>5. outer # near
    <3>1. near # Kid(tree, sibling, Other(side))
          BY <1>1, <1>2, <1>8, Around
    <3> QED BY <1>6, <3>1
  <2>6. parent \in sub[parent] /\ parent \notin sub[sibling]
        BY <1>1, <1>2, <1>5, Around
  <2>7. node # near
        BY <1>2, <1>3, <1>7, <1>8
  <2> QED BY <1>2, <2>1, <2>2, <2>3, <2>4, <2>5, <2>6, <2>7
<1>11. Framed("erase", mem, sub, pos)
       BY <1>1, <1>4 DEF Framed
<1>12. PICK t1, r :
           /\ t1 \in Trees
           /\ Leads(tree, SetChild(sibling, side, tmp1) \o SetChild(near, far, sibling), t1)
           /\ SameUp(tree, t1) /\ SameAnchors(tree, t1)
           /\ \A m \in Nodes, s \in Sides :
                Kid(t1, m, s) = IF m = sibling /\ s = side THEN tmp1
                               ELSE IF m = near /\ s = far THEN sibling
                               ELSE Kid(tree, m, s)
           /\ Ranks(r, t1) /\ r[near] < r[parent]
           /\ Up(tree, parent) # Nil => r[parent] < r[Up(tree, parent)]
           /\ \A n \in Nodes \ mem : r[parent] < r[n]
  <2>1. PICK stores : stores = SetChild(sibling, Other(far), tmp1) \o SetChild(near, far, sibling)
        OBVIOUS
  <2>2. LineOf(parent, sibling, near, far, tmp1)
        BY <1>2, <1>5, <1>8 DEF LineOf
  <2>3. PICK t1 : Leads(tree, stores, t1) /\ HalfTurned(t1, mem, parent, sibling, near, far, tmp1)
        BY <1>2, <1>11, <2>1, <2>2, HalfTurn
  <2> QED BY <1>5, <2>1, <2>3 DEF HalfTurned
<1>13. PICK t2 \in Trees : /\ Leads(t1, SetChild(parent, far, near), t2)
                           /\ Ranks(r, t2) /\ KidSet(t1, t2, parent, far, near)
  <2>1. parent \in Nodes /\ near \in Ptr
        BY <1>2, <1>3, <1>8
  <2> QED BY <1>5, <1>12, <2>1, DoKid
<1>14. PICK t \in Trees : /\ Leads(t2, IfNode(tmp1, SetParentColor(tmp1, sibling, FALSE)), t)
                          /\ Ranks(r, t) /\ UpSet(t2, t, tmp1, sibling, FALSE)
  <2>1. tmp1 \in Ptr /\ sibling \in Ptr
        BY <1>2, <1>3, <1>9
  <2> QED BY <1>13, <2>1, DoUpIf
<1>15. PICK first :
         /\ first = SetChild(sibling, side, tmp1) \o SetChild(near, far, sibling)
                \o SetChild(parent, far, near)
                \o IfNode(tmp1, SetParentColor(tmp1, sibling, FALSE))
         /\ Leads(tree, first, t)
  <2>1. PICK half, lift, paint :
          /\ half = SetChild(sibling, side, tmp1) \o SetChild(near, far, sibling)
          /\ lift = SetChild(parent, far, near)
          /\ paint = IfNode(tmp1, SetParentColor(tmp1, sibling, FALSE))
        OBVIOUS
  <2>2. Leads(tree, half, t1) /\ Leads(t1, lift, t2) /\ Leads(t2, paint, t)
        BY <1>12, <1>13, <1>14, <2>1
  <2>3. Leads(tree, half \o lift, t2)
        BY <2>2, LeadsOn
  <2>4. Leads(tree, half \o lift \o paint, t)
        BY <2>2, <2>3, LeadsOn
  <2> QED BY <2>1, <2>4
<1>16. /\ \A m \in Nodes : Up(t, m) = IF m = tmp1 THEN sibling ELSE Up(tree, m)
       /\ \A m \in Nodes : Hue(t, m) = IF m = tmp1 THEN FALSE ELSE Hue(tree, m)
  <2>1. \A m \in Nodes : Up(t2, m) = Up(tree, m) /\ Hue(t2, m) = Hue(tree, m)
        BY <1>12, <1>13 DEF SameUp, KidSet
  <2>2. \A m \in Nodes : /\ Up(t, m) = (IF m = tmp1 THEN sibling ELSE Up(t2, m))
                         /\ Hue(t, m) = (IF m = tmp1 THEN FALSE ELSE Hue(t2, m))
        BY <1>14 DEF UpSet
  <2> QED BY <2>1, <2>2
<1>17. MidTree(t, mem, parent, sibling, near, far, tmp1, sibling)
  <2>1. t.root = tree.root /\ t.leftmost = tree.leftmost
        BY <1>12, <1>13, <1>14 DEF UpSet, SameAnchors, KidSet
  <2>2. ASSUME NEW m \in Nodes, NEW s \in Sides
        PROVE  Kid(t, m, s) = IF m = sibling /\ s = Other(far) THEN tmp1
                      ELSE IF m = near /\ s = far THEN sibling
                      ELSE IF m = parent /\ s = far THEN near ELSE Kid(tree, m, s)
    <3>1. Kid(t, m, s) = Kid(t2, m, s)
          BY <1>14 DEF UpSet, SameKids
    <3>2. Kid(t2, m, s) = IF m = parent /\ s = far THEN near ELSE Kid(t1, m, s)
          BY <1>13 DEF KidSet
    <3> QED BY <1>2, <1>5, <1>8, <1>12, <3>1, <3>2
  <2> QED BY <1>12, <1>14, <1>16, <2>1, <2>2 DEF MidTree
<1>18. inner # Nil => IsRed(inner) = Hue(tree, inner) /\ IsRed(inner) \in BOOLEAN
       BY <1>3, <1>9, RedHue
<1>19. PICK b : b = IsRed(inner)
       OBVIOUS
<1>20. TwiceOf(parent, sibling, near, far, tmp1, inner, b, FALSE)
       BY <1>2, <1>5, <1>6, <1>8, <1>18, <1>19 DEF TwiceOf
<1>21. PICK u, t3, last :
         /\ last = Turn(parent, near, far, inner, sibling, b, FALSE)
         /\ Leads(tree, first \o last, u)
         /\ Rotated(tree, t3, sibling, near, side) /\ Rotated(t3, u, parent, near, far)
         /\ NewHues(t, u, parent, near, inner, sibling, b, FALSE)
         /\ StillFramed(u, mem, pos)
  <2>1. PICK last : last = Turn(parent, near, far, inner, sibling, b, FALSE)
        OBVIOUS
  <2>2. PICK c, d, e : c = sibling /\ d = near /\ e = tmp1
        OBVIOUS
  <2>3. /\ TwiceOf(parent, c, d, far, e, inner, b, FALSE)
        /\ MidTree(t, mem, parent, c, d, far, e, c)
        /\ Leads(tree, first, t) /\ last = Turn(parent, d, far, inner, c, b, FALSE)
        BY <1>15, <1>17, <1>20, <2>1, <2>2
  <2>4. PICK u, t3 :
         /\ Leads(tree, first \o last, u)
         /\ Rotated(tree, t3, c, d, Other(far)) /\ Rotated(t3, u, parent, d, far)
         /\ NewHues(t, u, parent, d, inner, c, b, FALSE)
         /\ StillFramed(u, mem, pos)
    <3>1. PICK pc, red : /\ Framed(pc, mem, sub, pos) /\ parent \in mem
                         /\ TwiceOf(parent, c, d, far, e, inner, b, red)
                         /\ last = Turn(parent, d, far, inner, c, b, red)
                         /\ red = FALSE
          BY <1>2, <1>11, <2>3
    <3>2. \E u, t3 :
           /\ Leads(tree, first \o last, u)
           /\ Rotated(tree, t3, c, d, Other(far)) /\ Rotated(t3, u, parent, d, far)
           /\ NewHues(t, u, parent, d, inner, c, b, red)
           /\ StillFramed(u, mem, pos)
      <4>1. MidTree(t, mem, parent, c, d, far, e, c) /\ Leads(tree, first, t)
            BY <2>3
      <4>2. /\ Framed(pc, mem, sub, pos) /\ parent \in mem
            /\ TwiceOf(parent, c, d, far, e, inner, b, red)
            /\ last = Turn(parent, d, far, inner, c, b, red)
            BY <3>1
      <4> QED BY <4>1, <4>2, Double
    <3> QED BY <3>1, <3>2
  <2> QED BY <1>5, <2>1, <2>2, <2>4
<1>22. SiblingUp(parent, near, side, sibling, Kid(tree, near, side)) = last
  <2>1. IfNode(sibling, SetParentColor(sibling, near, FALSE)) = SetParentColor(sibling, near, FALSE)
        BY <1>2 DEF IfNode
  <2> QED BY <1>5, <1>6, <1>19, <1>21, <2>1 DEF SiblingUp, Turn, SetParent
<1>23. /\ Kid(u, parent, far) = inner /\ Kid(u, parent, side) = node
       /\ Kid(u, sibling, far) = outer /\ Kid(u, sibling, side) = tmp1
       /\ Kid(u, near, far) = sibling /\ Kid(u, near, side) = parent
       /\ \A n \in mem \ {parent, sibling, near}, s \in Sides :
              /\ Kid(tree, n, s) \notin {sibling, near}
              /\ Kid(u, n, s) = IF Kid(tree, n, s) = parent THEN near ELSE Kid(tree, n, s)
       /\ u.root = IF tree.root = parent THEN near ELSE tree.root
  <2>1. PICK y : y = side /\ y = Other(far)
        BY <1>5
  <2>2. PICK pc : pc = "erase" /\ pc # "idle" /\ Loose(tree, pc, mem)
        BY <1>4
  <2>3. Kid(tree, sibling, y) = near /\ Rotated(tree, t3, sibling, near, y)
        BY <1>21, <2>1
  <2> QED BY <1>1, <1>2, <1>5, <1>6, <1>8, <1>21, <2>1, <2>2, <2>3, TwiceKids
<1>24. /\ ~ Hue(u, parent) /\ ~ Hue(u, sibling)
       /\ Hue(u, near) = Hue(tree, parent)
       /\ \A m \in mem \ {parent, sibling, near} : Hue(u, m) = Hue(tree, m)
  <2>1. ~ Hue(u, parent) /\ Hue(u, near) = Hue(tree, parent) /\ ~ Hue(u, sibling)
        BY <1>2, <1>3, <1>8, <1>10, <1>21 DEF NewHues
  <2>2. ASSUME NEW m \in mem \ {parent, sibling, near} PROVE Hue(u, m) = Hue(tree, m)
    <3>1. Hue(tree, m) \in BOOLEAN
          BY <1>3, TreeType
    <3>2. CASE m = inner
          BY <1>3, <1>18, <1>19, <1>21, <3>2 DEF NewHues
    <3>3. CASE m # inner
      <4>1. Hue(u, m) = IF m = tmp1 THEN FALSE ELSE Hue(tree, m)
        <5>1. m \in Nodes /\ m # parent /\ m # near /\ m # sibling
              BY <1>3
        <5>2. Hue(u, m) = Hue(t, m)
          <6>1. NewHues(t, u, parent, near, inner, sibling, b, FALSE)
                BY <1>21
          <6> QED BY <3>3, <5>1, <6>1 DEF NewHues
        <5>3. Hue(t, m) = IF m = tmp1 THEN FALSE ELSE Hue(tree, m)
              BY <1>16, <5>1
        <5> QED BY <5>2, <5>3
      <4>2. m = tmp1 => ~ Hue(tree, m)
            BY <1>3, <1>9 DEF Red
      <4> QED BY <3>1, <4>1, <4>2
    <3> QED BY <3>2, <3>3
  <2> QED BY <2>1, <2>2
<1>25. PICK part : part = {parent, sibling, near}
       OBVIOUS
<1>26. Reworked(tree, u, mem, part, parent, near)
  <2>1. \A n \in mem \ part : Hue(u, n) = Hue(tree, n)
        BY <1>24, <1>25
  <2>2. \A n \in mem \ part, s \in Sides :
          /\ Kid(tree, n, s) \in mem \cup {Nil}
          /\ Kid(tree, n, s) \in part => Kid(tree, n, s) = parent
          /\ Kid(u, n, s) = IF Kid(tree, n, s) = parent THEN near ELSE Kid(tree, n, s)
        BY <1>7, <1>23, <1>25
  <2> QED BY <1>2, <1>3, <1>8, <1>25, <2>1, <2>2 DEF Reworked
<1>27. PICK bh2 : bh2 = [bh EXCEPT ![parent] = bh[sibling], ![near] = bh[parent]]
       OBVIOUS
<1>28. /\ bh2 \in [Ptr -> Nat] /\ bh2[parent] = bh[sibling] /\ bh2[near] = bh[parent]
       /\ \A n \in Ptr : n # parent /\ n # near => bh2[n] = bh[n]
  <2>1. parent \in Ptr /\ near \in Ptr /\ bh[parent] \in Nat /\ bh[sibling] \in Nat
        BY <1>2, <1>3, <1>8
  <2> QED BY <1>2, <1>8, <1>27, <2>1
<1>29. /\ bh2[inner] = bh[node] /\ bh2[node] = bh[node] /\ bh2[tmp1] = bh[node]
       /\ bh2[outer] = bh[node] /\ bh2[sibling] = bh[sibling] /\ bh2[Nil] = 0
       BY <1>2, <1>3, <1>8, <1>9, <1>10, <1>28
<1>30. ASSUME NEW n \in part, NEW s \in Sides
       PROVE  bh2[n] = bh2[Kid(u, n, s)] + (IF n = Nil /\ s = "left" THEN 1 ELSE 0)
                        + (IF Hue(u, n) THEN 0 ELSE 1)
  <2>0. n # Nil
        BY <1>2, <1>3, <1>8, <1>25
  <2>1. CASE n = parent
    <3>1. bh2[Kid(u, n, s)] = bh[node]
          BY <1>5, <1>23, <1>29, <2>1
    <3> QED BY <1>2, <1>24, <1>28, <2>0, <2>1, <3>1
  <2>2. CASE n = sibling
    <3>1. bh2[Kid(u, n, s)] = bh[node]
          BY <1>5, <1>23, <1>29, <2>2
    <3> QED BY <1>2, <1>24, <1>29, <2>0, <2>2, <3>1
  <2>3. CASE n = near
    <3>1. bh2[Kid(u, n, s)] = bh[sibling]
          BY <1>5, <1>23, <1>28, <1>29, <2>3
    <3>2. bh2[n] = bh[parent] /\ bh[sibling] \in Nat
          BY <1>2, <1>28, <2>3
    <3> QED BY <1>2, <1>24, <2>0, <2>3, <3>1, <3>2
  <2> QED BY <1>25, <2>1, <2>2, <2>3
<1>31. Bal(u, mem, bh2, Nil, "left")
  <2>1. \A n \in mem \ part : bh2[n] = bh[n]
        BY <1>3, <1>25, <1>28
  <2>2. parent \in part \cup {Nil}
        BY <1>25
  <2> QED BY <1>2, <1>26, <1>28, <1>29, <1>30, <2>1, <2>2, RestBal
<1>32. NoRedRed(u, mem, Nil) /\ ~ Red(u, u.root)
  <2>1. \A n \in part, s \in Sides : Hue(u, n) => ~ Red(u, Kid(u, n, s))
        BY <1>5, <1>23, <1>24, <1>25 DEF Red
  <2>2. tree.root \in part => tree.root = parent
        BY <1>2, <1>3, <1>8, <1>25
  <2>3. \A n \in mem \ part, s \in Sides : Kid(tree, n, s) = Nil => Nil = Nil
        OBVIOUS
  <2>4. Hue(u, near) => Hue(tree, parent)
        BY <1>24
  <2> QED BY <1>2, <1>3, <1>23, <1>26, <2>1, <2>2, <2>3, <2>4, RestRed
<1>33. Colours(u, "done", Nil, Nil, mem, bh2)
       BY <1>31, <1>32 DEF Colours
<1>34. Head_(u, "done", Nil, Nil, mem)
       BY <1>1, <1>4, <1>21, <1>33 DEF Head_, StillFramed
<1>35. PICK done : done = "done"
       OBVIOUS
<1>36. Leads(tree, TwiceUp(parent, sibling, near, side, far, tmp1), u)
       BY <1>15, <1>21, <1>22 DEF TwiceUp
<1>37. Head_(u, done, Nil, Nil, mem)
       BY <1>34, <1>35
<1> QED BY <1>35, <1>36, <1>37 DEF Goes

-----------------------------------------------------------------------------
(* Induction over the rank of a node, and walks along falling ranks.       *)

LEMMA RankInduction ==
  ASSUME NEW S, NEW r \in [S -> Nat], NEW T,
         \A n \in S : (\A m \in S : r[m] < r[n] => m \in T) => n \in T
  PROVE  \A n \in S : n \in T
<1> DEFINE Bad == {r[n] : n \in S \ T}
<1> SUFFICES ASSUME Bad # {} PROVE FALSE
    OBVIOUS
<1>1. Bad \in SUBSET Nat
      OBVIOUS
<1>2. PICK k \in Bad : \A j \in Bad : k <= j
      BY <1>1, LeastNatural
<1>3. PICK n \in S \ T : k = r[n]
      BY <1>2
<1>4. \A m \in S : r[m] < r[n] => m \in T
  <2> SUFFICES ASSUME NEW m \in S, r[m] < r[n], m \notin T PROVE FALSE
      OBVIOUS
  <2>1. r[m] \in Bad /\ r[m] \in Nat /\ r[n] \in Nat
        OBVIOUS
  <2>2. r[n] <= r[m]
        BY <1>2, <1>3, <2>1
  <2> QED BY <2>1, <2>2
<1> QED BY <1>3, <1>4

(* A function that is defined by a walk with falling ranks exists.         *)
IsWalk(f, S, stop, base, step, next) ==
  \A m \in S : f[m] = IF m \in stop THEN base[m] ELSE step[m][f[next[m]]]

LEMMA WalkExists ==
  ASSUME NEW S, NEW V, NEW stop, NEW base, NEW step, NEW next,
         NEW r \in [S -> Nat], NEW K \in Nat, \A m \in S : r[m] < K,
         \A m \in S : m \in stop => base[m] \in V,
         \A m \in S : m \notin stop => /\ next[m] \in S /\ r[next[m]] < r[m]
                                       /\ step[m] \in [V -> V]
  PROVE  \E f \in [S -> V] : IsWalk(f, S, stop, base, step, next)
<1> DEFINE Low(k) == {m \in S : r[m] < k}
           Good == {k \in Nat : \E f \in [Low(k) -> V] :
                                  IsWalk(f, Low(k), stop, base, step, next)}
<1>1. 0 \in Good
  <2>1. Low(0) = {}
        OBVIOUS
  <2>2. PICK f : f = [m \in Low(0) |-> m]
        OBVIOUS
  <2>3. f \in [Low(0) -> V]
        BY <2>1, <2>2
  <2>4. IsWalk(f, Low(0), stop, base, step, next)
        BY <2>1 DEF IsWalk
  <2> QED BY <2>3, <2>4
<1>2. ASSUME NEW k \in Nat, k \in Good PROVE k + 1 \in Good
  <2>1. PICK f \in [Low(k) -> V] : IsWalk(f, Low(k), stop, base, step, next)
        BY <1>2
  <2>2. \A m \in Low(k + 1) : m \in S /\ (m \notin stop => next[m] \in Low(k))
    <3> SUFFICES ASSUME NEW m \in Low(k + 1), m \notin stop PROVE next[m] \in Low(k)
        OBVIOUS
    <3>1. next[m] \in S /\ r[next[m]] < r[m] /\ r[m] < k + 1
          OBVIOUS
    <3>2. r[next[m]] \in Nat /\ r[m] \in Nat
          BY <3>1
    <3> QED BY <3>1, <3>2
  <2>3. Low(k) \subseteq Low(k + 1)
    <3>1. \A m \in S : r[m] \in Nat
          OBVIOUS
    <3> QED BY <3>1
  <2> HIDE DEF Low
  <2>4. PICK g : g = [m \in Low(k + 1) |-> IF m \in stop THEN base[m]
                                          ELSE step[m][f[next[m]]]]
        OBVIOUS
  <2>5. g \in [Low(k + 1) -> V]
    <3>1. ASSUME NEW m \in Low(k + 1) PROVE g[m] \in V
      <4>1. CASE m \in stop
            BY <2>2, <2>4, <4>1
      <4>2. CASE m \notin stop
            BY <2>1, <2>2, <2>4, <4>2
      <4> QED BY <4>1, <4>2
    <3> QED BY <2>4, <3>1
  <2>6. \A m \in Low(k) : g[m] = f[m]
        BY <2>1, <2>3, <2>4 DEF IsWalk
  <2>7. IsWalk(g, Low(k + 1), stop, base, step, next)
        BY <2>2, <2>4, <2>6 DEF IsWalk
  <2> QED BY <2>5, <2>7
<1>3. \A k \in Nat : k \in Good => k + 1 \in Good
      BY <1>2
<1>4. Low(K) = S
      OBVIOUS
<1> HIDE DEF Low
<1>5. K \in Good
  <2> HIDE DEF Good
  <2> QED BY <1>1, <1>3, NatSetInduction
<1> QED BY <1>4, <1>5

-----------------------------------------------------------------------------
(* Subtrees.                                                               *)

LEMMA SubKids ==
  ASSUME NEW t, NEW mem, NEW sub, NEW pos, Shape(t, mem, sub, pos)
  PROVE  /\ mem \subseteq Nodes /\ Nil \notin Nodes /\ Nil \notin mem
         /\ mem \subseteq Ptr /\ Nil \in Ptr /\ sub[Nil] = {}
         /\ pos \in [Nodes -> Int] /\ sub \in [Ptr -> SUBSET mem]
         /\ \A n \in mem : Up(t, n) \in mem \cup {Nil} /\ n \in sub[n]
         /\ \A n \in mem, s \in Sides :
              /\ Kid(t, n, s) \in mem \cup {Nil}
              /\ Kid(t, n, s) # Nil => Up(t, Kid(t, n, s)) = n
              /\ sub[n] = {n} \cup sub[Kid(t, n, s)] \cup sub[Kid(t, n, Other(s))]
              /\ \A x \in sub[Kid(t, n, s)] : Toward(pos, s, x, n)
<1>1. /\ mem \subseteq Nodes /\ Nil \notin Nodes /\ Nil \notin mem
      /\ mem \subseteq Ptr /\ Nil \in Ptr /\ sub[Nil] = {}
      /\ pos \in [Nodes -> Int] /\ sub \in [Ptr -> SUBSET mem]
      /\ \A n \in mem : LinksAt(t, mem, n) /\ SplitAt(t, sub, pos, n)
      BY NilIsNoNode DEF Shape, Ptr
<1>2. \A n \in mem, s \in Sides :
              /\ Kid(t, n, s) \in mem \cup {Nil}
              /\ Kid(t, n, s) # Nil => Up(t, Kid(t, n, s)) = n
              /\ sub[n] = {n} \cup sub[Kid(t, n, s)] \cup sub[Kid(t, n, Other(s))]
              /\ \A x \in sub[Kid(t, n, s)] : Toward(pos, s, x, n)
      BY <1>1 DEF LinksAt, SplitAt
<1>3. \A n \in mem : Up(t, n) \in mem \cup {Nil}
      BY <1>1 DEF LinksAt
<1>4. "left" \in Sides
      BY DEF Sides
<1>5. \A n \in mem : n \in sub[n]
      BY <1>2, <1>4
<1> QED BY <1>1, <1>2, <1>3, <1>5

LEMMA SubSub ==
  ASSUME NEW t, NEW r, Ranks(r, t), NEW mem, NEW sub, NEW pos, Shape(t, mem, sub, pos)
  PROVE  \A z \in mem : \A k \in sub[z] :
           sub[k] \subseteq sub[z] /\ (k # z => Up(t, k) \in sub[z])
<1> DEFINE Good == {z \in Nodes : z \in mem =>
              \A k \in sub[z] : sub[k] \subseteq sub[z] /\ (k # z => Up(t, k) \in sub[z])}
<1>1. /\ r \in [Nodes -> Nat]
      /\ \A n \in Nodes, side \in Sides :
           Kid(t, n, side) \in Nodes => r[Kid(t, n, side)] < r[n]
      BY DEF Ranks
<1>2. ASSUME NEW z \in Nodes, \A m \in Nodes : r[m] < r[z] => m \in Good
      PROVE  z \in Good
  <2> SUFFICES ASSUME z \in mem, NEW k \in sub[z]
               PROVE  sub[k] \subseteq sub[z] /\ (k # z => Up(t, k) \in sub[z])
      OBVIOUS
  <2>1. CASE k = z
        BY <2>1
  <2>2. CASE k # z
    <3>1. PICK s \in Sides : k \in sub[Kid(t, z, s)]
      <4>1. k \in sub[Kid(t, z, "left")] \cup sub[Kid(t, z, Other("left"))]
            BY <2>2, SubKids DEF Sides
      <4> QED BY <4>1 DEF Sides, Other
    <3>2. PICK c : c = Kid(t, z, s)
          OBVIOUS
    <3>3. /\ c \in mem /\ c \in Nodes /\ sub[c] \subseteq sub[z] /\ k \in sub[c]
          /\ Up(t, c) = z /\ z \in sub[z]
      <4>1. c \in mem \cup {Nil} /\ k \in sub[c] /\ sub[Nil] = {}
            BY <3>1, <3>2, SubKids
      <4>2. c # Nil
            BY <4>1
      <4> QED BY <3>2, <4>1, <4>2, SubKids
    <3>4. r[c] < r[z]
          BY <1>1, <3>2, <3>3
    <3>5. sub[k] \subseteq sub[c] /\ (k # c => Up(t, k) \in sub[c])
          BY <1>2, <3>3, <3>4
    <3> QED BY <3>3, <3>5
  <2> QED BY <2>1, <2>2
<1>3. mem \subseteq Nodes
      BY DEF Shape
<1> HIDE DEF Good
<1>4. \A z \in Nodes : z \in Good
      BY <1>1, <1>2, RankInduction
<1> QED BY <1>3, <1>4 DEF Good

(* A subtree is an interval of the order: seen from outside, all its nodes *)
(* are on the same side.                                                   *)
LEMMA Interval ==
  ASSUME NEW t, NEW r, Ranks(r, t), NEW mem, NEW sub, NEW pos, Shape(t, mem, sub, pos),
         NEW n \in mem, NEW y \in sub[n], NEW x \in mem, x \notin sub[n],
         NEW side \in Sides
  PROVE  Toward(pos, side, x, y) <=> Toward(pos, side, x, n)
<1> DEFINE Good == {z \in Nodes : z \in mem /\ n \in sub[z] /\ x \in sub[z] =>
                      (Toward(pos, side, x, y) <=> Toward(pos, side, x, n))}
<1>1. /\ r \in [Nodes -> Nat]
      /\ \A m \in Nodes, s \in Sides :
           Kid(t, m, s) \in Nodes => r[Kid(t, m, s)] < r[m]
      BY DEF Ranks
<1>2. /\ pos \in [Nodes -> Int] /\ n \in Nodes /\ x \in Nodes /\ y \in mem /\ y \in Nodes
      BY SubKids
<1>3. ASSUME NEW z \in Nodes, \A m \in Nodes : r[m] < r[z] => m \in Good
      PROVE  z \in Good
  <2> SUFFICES ASSUME z \in mem, n \in sub[z], x \in sub[z]
               PROVE  Toward(pos, side, x, y) <=> Toward(pos, side, x, n)
      OBVIOUS
  <2>1. n # z
        OBVIOUS
  <2>2. PICK s \in Sides : n \in sub[Kid(t, z, s)]
    <3>1. n \in sub[Kid(t, z, "left")] \cup sub[Kid(t, z, Other("left"))]
          BY <2>1, SubKids DEF Sides
    <3> QED BY <3>1 DEF Sides, Other
  <2>3. PICK c : c = Kid(t, z, s)
        OBVIOUS
  <2>4. c \in mem /\ c \in Nodes /\ n \in sub[c]
    <3>1. c \in mem \cup {Nil} /\ n \in sub[c] /\ sub[Nil] = {}
          BY <2>2, <2>3, SubKids
    <3> QED BY <3>1, SubKids
  <2>5. y \in sub[c]
        BY <2>4, SubSub
  <2>6. CASE x \in sub[c]
    <3>1. r[c] < r[z]
          BY <1>1, <2>3, <2>4
    <3> QED BY <1>3, <2>4, <2>6, <3>1
  <2>7. CASE x \notin sub[c]
    <3>1. Toward(pos, s, n, z) /\ Toward(pos, s, y, z)
          BY <2>3, <2>4, <2>5, SubKids
    <3>2. x = z \/ Toward(pos, Other(s), x, z)
      <4>1. x = z \/ x \in sub[Kid(t, z, Other(s))]
            BY <2>3, <2>7, SubKids
      <4>2. Other(s) \in Sides
            BY OtherSide
      <4> QED BY <4>1, <4>2, SubKids
    <3>3. Toward(pos, s, n, x) /\ Toward(pos, s, y, x)
          BY <1>2, <3>1, <3>2, TowardOrder
    <3> QED BY <1>2, <3>3 DEF Toward, Sides
  <2> QED BY <2>6, <2>7
<1>4. t.root \in mem /\ n \in sub[t.root] /\ x \in sub[t.root] /\ t.root \in Nodes
      BY SubKids DEF Shape
<1> HIDE DEF Good
<1>5. \A z \in Nodes : z \in Good
      BY <1>1, <1>3, RankInduction
<1> QED BY <1>4, <1>5 DEF Good

(* Ranks that are bounded.                                                 *)
LEMMA BoundedRank ==
  ASSUME NEW t, NEW mem, NEW pc, NEW sub, NEW pos, Ranked(t), IsFiniteSet(mem),
         Loose(t, pc, mem), Shape(t, mem, sub, pos)
  PROVE  \E r, k : /\ Ranks(r, t) /\ k \in Nat /\ \A n \in Nodes : r[n] < k
<1>1. PICK r \in [Nodes -> Nat] : Ranks(r, t)
      BY DEF Ranked
<1>2. mem \subseteq Nodes /\ Nil \notin Nodes
      BY NilIsNoNode DEF Shape
<1>3. PICK k \in Nat : \A n \in mem : r[n] < k
      BY <1>2, Highest
<1>4. PICK r2 : r2 = [n \in Nodes |-> IF n \in mem THEN r[n] ELSE k]
      OBVIOUS
<1>5. /\ r2 \in [Nodes -> Nat]
      /\ \A n \in mem : r2[n] = r[n]
      /\ \A n \in Nodes \ mem : r2[n] = k
      BY <1>2, <1>4
<1>6. ASSUME NEW n \in Nodes, NEW s \in Sides, Kid(t, n, s) \in Nodes
      PROVE  r2[Kid(t, n, s)] < r2[n]
  <2>1. Kid(t, n, s) \in mem
        BY <1>2, <1>6 DEF Shape, LinksAt, Loose
  <2>2. r[Kid(t, n, s)] < r[n]
        BY <1>1, <1>6 DEF Ranks
  <2> QED BY <1>3, <1>5, <2>1, <2>2
<1>7. k + 1 \in Nat /\ \A n \in Nodes : r2[n] < k + 1
      BY <1>2, <1>3, <1>5
<1>8. Ranks(r2, t)
      BY <1>5, <1>6 DEF Ranks
<1> QED BY <1>7, <1>8

-----------------------------------------------------------------------------
(* The walks of the code.                                                  *)

(* Where a walk down one side ends.                                        *)
LEMMA OutermostIs ==
  ASSUME tree \in Trees, NEW r, Ranks(r, tree), NEW k \in Nat, \A m \in Nodes : r[m] < k,
         NEW mem, NEW sub, NEW pos, Shape(tree, mem, sub, pos),
         NEW n \in mem, NEW side \in Sides
  PROVE  /\ Outermost(n, side) \in sub[n] /\ Kid(tree, Outermost(n, side), side) = Nil
         /\ \A x \in sub[n] : x # Outermost(n, side) =>
              Toward(pos, side, Outermost(n, side), x)
<1> DEFINE W(w) == [m \in Nodes |-> IF Child(m, side) = Nil THEN m
                                    ELSE w[Child(m, side)]]
           walk == CHOOSE w : w = W(w)
<1>1. /\ r \in [Nodes -> Nat]
      /\ \A m \in Nodes, s \in Sides :
           Kid(tree, m, s) \in Nodes => r[Kid(tree, m, s)] < r[m]
      BY DEF Ranks
<1>2. \E w : w = W(w)
  <2>1. PICK stop, base, next, step :
          /\ stop = {m \in Nodes : Child(m, side) = Nil}
          /\ base = [m \in Nodes |-> m]
          /\ next = [m \in Nodes |-> Child(m, side)]
          /\ step = [m \in Nodes |-> [v \in Nodes |-> v]]
        OBVIOUS
  <2>2. \A m \in Nodes : m \notin stop =>
          /\ next[m] \in Nodes /\ r[next[m]] < r[m]
          /\ step[m] \in [Nodes -> Nodes]
        BY <1>1, <2>1, TreeType, Reads DEF Ptr
  <2>3. \A m \in Nodes : m \in stop => base[m] \in Nodes
        BY <2>1
  <2>4. PICK f \in [Nodes -> Nodes] : IsWalk(f, Nodes, stop, base, step, next)
        BY <1>1, <2>2, <2>3, WalkExists
  <2>5. \A m \in Nodes : f[m] = IF Child(m, side) = Nil THEN m ELSE f[Child(m, side)]
        BY <2>1, <2>2, <2>4 DEF IsWalk
  <2>6. f = W(f)
        BY <2>5
  <2> QED BY <2>6
<1>3. walk = W(walk)
      BY <1>2
<1>4. Outermost(n, side) = walk[n]
      BY DEF Outermost
<1> HIDE DEF walk
<1>5. \A m \in Nodes : walk[m] = IF Kid(tree, m, side) = Nil THEN m
                                 ELSE walk[Kid(tree, m, side)]
      BY <1>3, Reads
<1> DEFINE Good == {z \in Nodes : z \in mem =>
             /\ walk[z] \in sub[z] /\ Kid(tree, walk[z], side) = Nil
             /\ \A x \in sub[z] : x # walk[z] => Toward(pos, side, walk[z], x)}
<1>6. ASSUME NEW z \in Nodes, \A m \in Nodes : r[m] < r[z] => m \in Good
      PROVE  z \in Good
  <2> SUFFICES ASSUME z \in mem
               PROVE  /\ walk[z] \in sub[z] /\ Kid(tree, walk[z], side) = Nil
                      /\ \A x \in sub[z] : x # walk[z] => Toward(pos, side, walk[z], x)
      OBVIOUS
  <2>1. PICK c : c = Kid(tree, z, side)
        OBVIOUS
  <2>2. PICK d : d = Kid(tree, z, Other(side))
        OBVIOUS
  <2>3. /\ sub[z] = {z} \cup sub[c] \cup sub[d] /\ c \in mem \cup {Nil}
        /\ \A x \in sub[c] : Toward(pos, side, x, z)
        /\ sub[Nil] = {} /\ mem \subseteq Nodes
        BY <2>1, <2>2, SubKids
  <2>4. \A x \in sub[d] : Toward(pos, side, z, x)
    <3>1. Other(side) \in Sides /\ pos \in [Nodes -> Int]
          BY OtherSide, SubKids
    <3>2. \A x \in sub[d] : Toward(pos, Other(side), x, z) /\ x \in Nodes
          BY <2>2, <2>3, <3>1, SubKids
    <3> QED BY <3>1, <3>2, TowardOrder
  <2>5. CASE c = Nil
        BY <1>5, <2>1, <2>3, <2>4, <2>5
  <2>6. CASE c # Nil
    <3>1. c \in mem /\ c \in Nodes /\ walk[z] = walk[c]
          BY <1>5, <2>1, <2>3, <2>6
    <3>2. r[c] < r[z]
          BY <1>1, <2>1, <3>1
    <3>3. /\ walk[c] \in sub[c] /\ Kid(tree, walk[c], side) = Nil
          /\ \A x \in sub[c] : x # walk[c] => Toward(pos, side, walk[c], x)
          BY <1>6, <3>1, <3>2
    <3>4. Toward(pos, side, walk[c], z)
          BY <2>3, <3>3
    <3>5. \A x \in sub[d] : Toward(pos, side, walk[c], x)
      <4>1. pos \in [Nodes -> Int] /\ walk[c] \in Nodes /\ \A x \in sub[d] : x \in Nodes
            BY <2>1, <2>2, <3>1, <3>3, SubKids
      <4> QED BY <2>4, <3>4, <4>1, TowardOrder
    <3> QED BY <2>3, <3>1, <3>3, <3>4, <3>5
  <2> QED BY <2>5, <2>6
<1> HIDE DEF Good
<1>7. \A z \in Nodes : z \in Good
      BY <1>1, <1>6, RankInduction
<1>8. n \in Nodes
      BY SubKids
<1> QED BY <1>4, <1>7, <1>8 DEF Good

(* A walk up that ends at once.                                            *)
LEMMA AscendAtOnce ==
  ASSUME tree \in Trees, NEW r, Ranks(r, tree), NEW k \in Nat, \A m \in Nodes : r[m] < k,
         NEW n \in Nodes, NEW side \in Sides,
         Parent(n) = Nil \/ n # Child(Parent(n), side)
  PROVE  Ascend(n, side) = Parent(n)
<1> DEFINE W(w) == [m \in Nodes |-> IF Parent(m) # Nil /\ m = Child(Parent(m), side)
                                    THEN w[Parent(m)] ELSE Parent(m)]
           walk == CHOOSE w : w = W(w)
<1>1. /\ r \in [Nodes -> Nat]
      /\ \A m \in Nodes, s \in Sides :
           Kid(tree, m, s) \in Nodes => r[Kid(tree, m, s)] < r[m]
      BY DEF Ranks
<1>2. \E w : w = W(w)
  <2>1. PICK stop, base, next, step, q :
          /\ stop = {m \in Nodes : ~ (Parent(m) # Nil /\ m = Child(Parent(m), side))}
          /\ base = [m \in Nodes |-> Parent(m)]
          /\ next = [m \in Nodes |-> Parent(m)]
          /\ step = [m \in Nodes |-> [v \in Ptr |-> v]]
          /\ q = [m \in Nodes |-> k - r[m]]
        OBVIOUS
  <2>2. q \in [Nodes -> Nat] /\ \A m \in Nodes : q[m] < k + 1
    <3>1. \A m \in Nodes : r[m] \in Nat /\ r[m] < k
          BY <1>1
    <3>2. \A m \in Nodes : k - r[m] \in Nat /\ k - r[m] < k + 1
          BY <3>1
    <3> QED BY <2>1, <3>2
  <2>3. ASSUME NEW m \in Nodes, m \notin stop
        PROVE  /\ next[m] \in Nodes /\ q[next[m]] < q[m]
               /\ step[m] \in [Ptr -> Ptr]
    <3>1. PICK p : p = Parent(m)
          OBVIOUS
    <3>2. p \in Nodes /\ Kid(tree, p, side) = m
          BY <2>1, <2>3, <3>1, TreeType, Reads DEF Ptr
    <3>3. r[m] < r[p] /\ r[m] \in Nat /\ r[p] \in Nat
          BY <1>1, <3>2
    <3>4. q[p] = k - r[p] /\ q[m] = k - r[m] /\ next[m] = p
          BY <2>1, <3>1, <3>2
    <3>5. q[p] < q[m]
          BY <3>3, <3>4
    <3> QED BY <2>1, <3>2, <3>4, <3>5
  <2>4. \A m \in Nodes : m \in stop => base[m] \in Ptr
        BY <2>1, TreeType, Reads
  <2>5. k + 1 \in Nat
        OBVIOUS
  <2>6. PICK f \in [Nodes -> Ptr] : IsWalk(f, Nodes, stop, base, step, next)
    <3> HIDE DEF W
    <3> QED BY <2>2, <2>3, <2>4, <2>5, WalkExists
  <2>7. \A m \in Nodes : f[m] = IF Parent(m) # Nil /\ m = Child(Parent(m), side)
                                THEN f[Parent(m)] ELSE Parent(m)
    <3> SUFFICES ASSUME NEW m \in Nodes
                 PROVE  f[m] = IF Parent(m) # Nil /\ m = Child(Parent(m), side)
                               THEN f[Parent(m)] ELSE Parent(m)
        OBVIOUS
    <3>1. f[m] = IF m \in stop THEN base[m] ELSE step[m][f[next[m]]]
          BY <2>6 DEF IsWalk
    <3>2. CASE m \in stop
          BY <2>1, <3>1, <3>2
    <3>3. CASE m \notin stop
      <4>1. next[m] \in Nodes /\ f[next[m]] \in Ptr /\ next[m] = Parent(m)
            BY <2>1, <2>3, <2>6, <3>3
      <4> QED BY <2>1, <3>1, <3>3, <4>1
    <3> QED BY <3>2, <3>3
  <2>8. f = W(f)
        BY <2>7
  <2> QED BY <2>8
<1>3. walk = W(walk)
      BY <1>2
<1>4. Ascend(n, side) = walk[n]
      BY DEF Ascend
<1> HIDE DEF walk
<1> QED BY <1>3, <1>4

(* The node after the leftmost one.                                        *)
LEMMA NextOfLeftmost ==
  ASSUME tree \in Trees, NEW r, Ranks(r, tree), NEW k \in Nat, \A m \in Nodes : r[m] < k,
         NEW mem, NEW sub, NEW pos, Shape(tree, mem, sub, pos),
         LeftmostOf(tree, mem, pos), NEW n \in mem, tree.leftmost = n
  PROVE  /\ Kid(tree, n, "left") = Nil
         /\ Next_(n) \in (mem \ {n}) \cup {Nil}
         /\ \A x \in mem \ {n} : Next_(n) # Nil /\ (x # Next_(n) => pos[Next_(n)] < pos[x])
<1>1. /\ mem \subseteq Nodes /\ Nil \notin Nodes /\ sub[Nil] = {}
      /\ pos \in [Nodes -> Int]
      /\ \A x \in mem \ {n} : pos[n] < pos[x]
      BY SubKids DEF LeftmostOf
<1>2. PICK c : c = Kid(tree, n, "right")
      OBVIOUS
<1>3. Kid(tree, n, "left") = Nil
  <2> SUFFICES ASSUME Kid(tree, n, "left") # Nil PROVE FALSE
      OBVIOUS
  <2>1. PICK x : x = Kid(tree, n, "left")
        OBVIOUS
  <2>2. x \in mem /\ x \in sub[x]
        BY <2>1, SubKids DEF Sides
  <2>3. Toward(pos, "left", x, n)
        BY <2>1, <2>2, SubKids DEF Sides
  <2>4. pos[x] < pos[n] /\ pos[x] \in Int /\ pos[n] \in Int
        BY <1>1, <2>2, <2>3 DEF Toward
  <2>5. pos[n] < pos[x]
        BY <1>1, <2>2, <2>4
  <2> QED BY <2>4, <2>5
<1>4. sub[n] = {n} \cup sub[c] /\ c \in mem \cup {Nil}
  <2>1. /\ sub[n] = {n} \cup sub[Kid(tree, n, "right")] \cup sub[Kid(tree, n, "left")]
        /\ Kid(tree, n, "right") \in mem \cup {Nil}
        BY SubKids DEF Sides, Other
  <2> QED BY <1>1, <1>2, <1>3, <2>1
<1>5. CASE c # Nil
  <2>1. PICK o : o = Outermost(c, "left")
        OBVIOUS
  <2>2. o \in sub[c] /\ \A x \in sub[c] : x # o => pos[o] < pos[x]
    <3>1. c \in mem /\ "left" \in Sides
          BY <1>4, <1>5 DEF Sides
    <3>2. /\ o \in sub[c]
          /\ \A x \in sub[c] : x # o => Toward(pos, "left", o, x)
          BY <2>1, <3>1, OutermostIs
    <3> QED BY <3>2 DEF Toward
  <2>3. Next_(n) = o
        BY <1>2, <1>5, <2>1, Reads DEF Next_
  <2>4. o \in sub[n] /\ o \in mem /\ o # n
    <3>1. n \notin sub[c] /\ sub[c] \subseteq mem
          BY <1>2, <1>4, Around, SubKids DEF Sides
    <3> QED BY <1>4, <2>2, <3>1
  <2>5. ASSUME NEW x \in mem \ {n}, x # o PROVE pos[o] < pos[x]
    <3>1. CASE x \in sub[c]
          BY <2>2, <2>5, <3>1
    <3>2. CASE x \notin sub[c]
      <4>1. x \notin sub[n] /\ "right" \in Sides
            BY <1>4, <3>2 DEF Sides
      <4>2. Toward(pos, "right", x, o) <=> Toward(pos, "right", x, n)
            BY <2>4, <4>1, Interval
      <4> QED BY <1>1, <4>2 DEF Toward
    <3> QED BY <3>1, <3>2
  <2>6. o # Nil
        BY <1>1, <2>4
  <2> QED BY <1>3, <2>3, <2>4, <2>5, <2>6
<1>6. CASE c = Nil
  <2>1. PICK p : p = Up(tree, n)
        OBVIOUS
  <2>2. p \in mem \cup {Nil} /\ n \in Nodes /\ sub[n] = {n}
        BY <1>1, <1>4, <1>6, <2>1, SubKids
  <2>3. CASE p = Nil
    <3>1. Next_(n) = Nil
      <4>1. Parent(n) = Nil /\ "right" \in Sides
            BY <2>1, <2>3, Reads DEF Sides
      <4>2. Ascend(n, "right") = Parent(n)
            BY <2>2, <4>1, AscendAtOnce
      <4> QED BY <1>2, <1>6, <4>1, <4>2, Reads DEF Next_
    <3>2. mem = {n}
      <4>1. tree.root = n
            BY <2>1, <2>3 DEF Shape, LinksAt
      <4> QED BY <2>2, <4>1 DEF Shape
    <3> QED BY <1>3, <3>1, <3>2
  <2>4. CASE p # Nil
    <3>1. PICK s \in Sides : Kid(tree, p, s) = n
          BY <2>1, <2>4 DEF Shape, LinksAt
    <3>2. n # Nil /\ p \in mem /\ p # n
          BY <1>1, <2>1, <2>2, <2>4, Around DEF Sides
    <3>3. Toward(pos, s, n, p)
          BY <2>2, <3>1, <3>2, SubKids
    <3>4. s = "left"
      <4>1. pos[n] < pos[p] /\ pos[n] \in Int /\ pos[p] \in Int
            BY <1>1, <3>2
      <4> QED BY <3>3, <4>1 DEF Toward, Sides
    <3>5. Kid(tree, p, "right") # n
          BY <3>1, <3>2, <3>4, Around DEF Sides, Other
    <3>6. Next_(n) = p
      <4>1. n # Child(Parent(n), "right") /\ "right" \in Sides /\ Parent(n) = p
            BY <2>1, <3>5, Reads DEF Sides
      <4>2. Ascend(n, "right") = Parent(n)
            BY <2>2, <4>1, AscendAtOnce
      <4> QED BY <1>2, <1>6, <4>1, <4>2, Reads DEF Next_
    <3>7. ASSUME NEW x \in mem \ {n}, x # p PROVE pos[p] < pos[x]
      <4>1. n \in sub[p] /\ sub[p] = {p} \cup {n} \cup sub[Kid(tree, p, "right")]
            BY <2>2, <3>1, <3>2, <3>4, SubKids DEF Sides, Other
      <4>2. CASE x \in sub[p]
        <5>1. Toward(pos, "right", x, p)
              BY <3>2, <3>7, <4>1, <4>2, SubKids DEF Sides
        <5> QED BY <5>1 DEF Toward
      <4>3. CASE x \notin sub[p]
        <5>1. Toward(pos, "right", x, n) <=> Toward(pos, "right", x, p)
              BY <3>2, <4>1, <4>3, Interval DEF Sides
        <5> QED BY <1>1, <5>1 DEF Toward
      <4> QED BY <4>2, <4>3
    <3> QED BY <1>3, <2>4, <3>2, <3>6, <3>7
  <2> QED BY <2>3, <2>4
<1> QED BY <1>5, <1>6

-----------------------------------------------------------------------------
(* The search of a caller.                                                 *)

Way(m, n) == IF Cmp(m, n) < 0 THEN "left" ELSE "right"

Places == [found : Ptr, parent : Ptr, side : Sides, leftmost : BOOLEAN]

IsSearch(f, n) ==
  /\ f \in [Nodes -> Places]
  /\ \A m \in Nodes :
       IF Cmp(m, n) = 0 THEN f[m].found = m
       ELSE IF Kid(tree, m, Way(m, n)) = Nil
       THEN /\ f[m].found = Nil /\ f[m].parent = m /\ f[m].side = Way(m, n)
            /\ f[m].leftmost <=> Way(m, n) = "left"
       ELSE /\ f[m].found = f[Kid(tree, m, Way(m, n))].found
            /\ f[m].parent = f[Kid(tree, m, Way(m, n))].parent
            /\ f[m].side = f[Kid(tree, m, Way(m, n))].side
            /\ f[m].leftmost <=>
                 f[Kid(tree, m, Way(m, n))].leftmost /\ Way(m, n) = "left"

LEMMA SearchIs ==
  ASSUME tree \in Trees, NEW r, Ranks(r, tree), NEW k \in Nat, \A m \in Nodes : r[m] < k,
         NEW n
  PROVE  \E f : IsSearch(f, n) /\ SearchFrom(n) = f[tree.root]
<1> DEFINE W(f) == [m \in Nodes |->
             IF Cmp(m, n) = 0
             THEN [found |-> m, parent |-> Parent(m), side |-> Way(m, n),
                   leftmost |-> FALSE]
             ELSE IF Child(m, Way(m, n)) = Nil
             THEN [found |-> Nil, parent |-> m, side |-> Way(m, n),
                   leftmost |-> Way(m, n) = "left"]
             ELSE [f[Child(m, Way(m, n))] EXCEPT !.leftmost = @ /\ Way(m, n) = "left"]]
           search == CHOOSE f : f = W(f)
<1>1. /\ r \in [Nodes -> Nat]
      /\ \A m \in Nodes, s \in Sides :
           Kid(tree, m, s) \in Nodes => r[Kid(tree, m, s)] < r[m]
      BY DEF Ranks
<1>2. \A m : Way(m, n) \in Sides
      BY DEF Way, Sides
<1>3. PICK stop, base, next, step :
        /\ stop = {m \in Nodes : Cmp(m, n) = 0 \/ Child(m, Way(m, n)) = Nil}
        /\ base = [m \in Nodes |->
             IF Cmp(m, n) = 0
             THEN [found |-> m, parent |-> Parent(m), side |-> Way(m, n),
                   leftmost |-> FALSE]
             ELSE [found |-> Nil, parent |-> m, side |-> Way(m, n),
                   leftmost |-> Way(m, n) = "left"]]
        /\ next = [m \in Nodes |-> Child(m, Way(m, n))]
        /\ step = [m \in Nodes |-> [v \in Places |->
                     [v EXCEPT !.leftmost = @ /\ Way(m, n) = "left"]]]
      OBVIOUS
<1>4. \A m \in Nodes : m \notin stop =>
        /\ next[m] \in Nodes /\ r[next[m]] < r[m]
        /\ step[m] \in [Places -> Places]
  <2> SUFFICES ASSUME NEW m \in Nodes, m \notin stop
               PROVE  /\ next[m] \in Nodes /\ r[next[m]] < r[m]
                      /\ step[m] \in [Places -> Places]
      OBVIOUS
  <2>1. next[m] \in Nodes /\ r[next[m]] < r[m]
        BY <1>1, <1>2, <1>3, TreeType, Reads DEF Ptr
  <2>2. ASSUME NEW v \in Places
        PROVE  [v EXCEPT !.leftmost = @ /\ Way(m, n) = "left"] \in Places
        BY DEF Places
  <2>3. step[m] = [v \in Places |-> [v EXCEPT !.leftmost = @ /\ Way(m, n) = "left"]]
        BY <1>3
  <2> QED BY <2>1, <2>2, <2>3
<1>5. \A m \in Nodes : m \in stop => base[m] \in Places
  <2> SUFFICES ASSUME NEW m \in Nodes PROVE base[m] \in Places
      OBVIOUS
  <2>1. m \in Ptr /\ Nil \in Ptr /\ Parent(m) \in Ptr /\ Way(m, n) \in Sides
        BY <1>2, TreeType, Reads DEF Ptr
  <2> QED BY <1>3, <2>1 DEF Places
<1>6. PICK f \in [Nodes -> Places] : IsWalk(f, Nodes, stop, base, step, next)
  <2> HIDE DEF W
  <2> QED BY <1>1, <1>4, <1>5, WalkExists
<1>7. f = W(f)
  <2>1. ASSUME NEW m \in Nodes PROVE f[m] = W(f)[m]
    <3>1. f[m] = IF m \in stop THEN base[m] ELSE step[m][f[next[m]]]
          BY <1>6 DEF IsWalk
    <3>2. CASE m \in stop
      <4>1. f[m] = base[m]
            BY <3>1, <3>2
      <4>2. Cmp(m, n) = 0 \/ Child(m, Way(m, n)) = Nil
            BY <1>3, <3>2
      <4> QED BY <1>3, <4>1, <4>2
    <3>3. CASE m \notin stop
      <4>1. /\ next[m] \in Nodes /\ f[next[m]] \in Places
            /\ next[m] = Child(m, Way(m, n))
            /\ Cmp(m, n) # 0 /\ Child(m, Way(m, n)) # Nil
            BY <1>3, <1>4, <1>6, <3>3
      <4>2. f[m] = step[m][f[next[m]]]
            BY <3>1, <3>3
      <4>3. \A v \in Places : step[m][v] = [v EXCEPT !.leftmost = @ /\ Way(m, n) = "left"]
            BY <1>3
      <4> QED BY <4>1, <4>2, <4>3
    <3> QED BY <3>2, <3>3
  <2> QED BY <1>6, <2>1
<1>8. search = W(search)
      BY <1>7
<1>9. SearchFrom(n) = search[tree.root]
      BY DEF SearchFrom, Way
<1> HIDE DEF search
<1>10. \A m \in Nodes : search[m] \in Places
  <2> DEFINE Good == {m \in Nodes : search[m] \in Places}
  <2>1. ASSUME NEW m \in Nodes, \A j \in Nodes : r[j] < r[m] => j \in Good
        PROVE  m \in Good
    <3>1. PICK c : c = Child(m, Way(m, n))
          OBVIOUS
    <3>2. /\ m \in Ptr /\ Nil \in Ptr /\ Parent(m) \in Ptr
          /\ c \in Ptr /\ Way(m, n) \in Sides /\ c = Kid(tree, m, Way(m, n))
          BY <1>2, <3>1, TreeType, Reads DEF Ptr
    <3>3. CASE Cmp(m, n) = 0
      <4>1. PICK b \in BOOLEAN : b = FALSE
            OBVIOUS
      <4>2. search[m] = [found |-> m, parent |-> Parent(m), side |-> Way(m, n),
                         leftmost |-> b]
            BY <1>8, <3>3, <4>1
      <4> QED BY <3>2, <4>2 DEF Places
    <3>4. CASE Cmp(m, n) # 0 /\ c = Nil
      <4>1. PICK b \in BOOLEAN : b = (Way(m, n) = "left")
            OBVIOUS
      <4>2. search[m] = [found |-> Nil, parent |-> m, side |-> Way(m, n),
                         leftmost |-> b]
            BY <1>8, <3>1, <3>4, <4>1
      <4> QED BY <3>2, <4>2 DEF Places
    <3>5. CASE Cmp(m, n) # 0 /\ c # Nil
      <4>1. search[m] = [search[c] EXCEPT !.leftmost = @ /\ Way(m, n) = "left"]
            BY <1>8, <3>1, <3>5
      <4>2. c \in Nodes /\ r[c] < r[m]
            BY <1>1, <3>2, <3>5 DEF Ptr
      <4>3. search[c] \in Places
            BY <2>1, <4>2
      <4> QED BY <4>1, <4>3 DEF Places
    <3> QED BY <3>3, <3>4, <3>5
  <2> HIDE DEF Good
  <2>2. \A m \in Nodes : m \in Good
        BY <1>1, <2>1, RankInduction
  <2> QED BY <2>2 DEF Good
<1>11. search \in [Nodes -> Places]
  <2>1. DOMAIN search = Nodes
        BY <1>8
  <2>2. search = [m \in Nodes |-> search[m]]
        BY <1>8
  <2> HIDE DEF W
  <2> QED BY <1>10, <2>2
<1>12. ASSUME NEW m \in Nodes, NEW c, c = Child(m, Way(m, n))
       PROVE IF Cmp(m, n) = 0 THEN search[m].found = m
             ELSE IF c = Nil
             THEN /\ search[m].found = Nil /\ search[m].parent = m
                  /\ search[m].side = Way(m, n)
                  /\ search[m].leftmost <=> Way(m, n) = "left"
             ELSE /\ search[m].found = search[c].found
                  /\ search[m].parent = search[c].parent
                  /\ search[m].side = search[c].side
                  /\ search[m].leftmost <=> search[c].leftmost /\ Way(m, n) = "left"
  <2>1. CASE Cmp(m, n) = 0
    <3>1. search[m] = [found |-> m, parent |-> Parent(m), side |-> Way(m, n),
                       leftmost |-> FALSE]
          BY <1>8, <2>1
    <3> QED BY <2>1, <3>1
  <2>2. CASE Cmp(m, n) # 0 /\ c = Nil
    <3>1. PICK b \in BOOLEAN : b = (Way(m, n) = "left")
          OBVIOUS
    <3>2. search[m] = [found |-> Nil, parent |-> m, side |-> Way(m, n),
                       leftmost |-> b]
          BY <1>8, <1>12, <2>2, <3>1
    <3>3. /\ search[m].found = Nil /\ search[m].parent = m
          /\ search[m].side = Way(m, n) /\ search[m].leftmost = b
          BY <3>2
    <3> QED BY <2>2, <3>1, <3>3
  <2>3. CASE Cmp(m, n) # 0 /\ c # Nil
    <3>1. search[m] = [search[c] EXCEPT !.leftmost = @ /\ Way(m, n) = "left"]
          BY <1>8, <1>12, <2>3
    <3>2. c \in Nodes
          BY <1>2, <1>12, <2>3, TreeType, Reads DEF Ptr
    <3>3. search[c] \in Places
          BY <1>10, <3>2
    <3> QED BY <2>3, <3>1, <3>3 DEF Places
  <2> QED BY <2>1, <2>2, <2>3
<1> HIDE DEF W
<1>13. \A m, s : Child(m, s) = Kid(tree, m, s)
       BY Reads
<1>14. IsSearch(search, n)
       BY <1>11, <1>12, <1>13 DEF IsSearch
<1> QED BY <1>9, <1>14

(* A node that is linked on the given side of p, where nothing is: whether *)
(* x comes before it.                                                      *)
Before(pos, p, side, x) == IF x = p THEN side = "right" ELSE pos[x] < pos[p]

Apart(key, n, pos, p, side, x) ==
  IF Before(pos, p, side, x) THEN key[n] < key[x] ELSE key[x] < key[n]

(* The place for n among the nodes below.                                  *)
Place(n, p, side, left, below, mem, pos) ==
  /\ left => side = "left" /\ \A x \in below : ~ Before(pos, p, side, x)
  /\ ~ left => \E x \in below : Before(pos, p, side, x)
  /\ \A key : IsKey(key) /\ Sorted(mem, pos) =>
       \A x \in below : Apart(key, n, pos, p, side, x)

LEMMA KeyWay ==
  ASSUME NEW key, IsKey(key), NEW z \in Nodes, NEW n \in Nodes, Cmp(z, n) # 0
  PROVE  /\ key[z] \in Int /\ key[n] \in Int
         /\ IF Way(z, n) = "left" THEN key[z] < key[n] ELSE key[n] < key[z]
<1>1. /\ key[z] \in Int /\ key[n] \in Int
      /\ Cmp(z, n) = IF key[z] < key[n] THEN -1 ELSE IF key[z] > key[n] THEN 1 ELSE 0
      BY DEF IsKey
<1>2. CASE key[z] < key[n]
      BY <1>1, <1>2 DEF Way
<1>3. CASE key[z] > key[n]
      BY <1>1, <1>3 DEF Way
<1> QED BY <1>1, <1>2, <1>3

LEMMA SortedKeys ==
  ASSUME NEW key, IsKey(key), NEW mem, mem \subseteq Nodes, NEW pos, Sorted(mem, pos),
         NEW x \in mem, NEW y \in mem, pos[x] < pos[y]
  PROVE  key[y] < key[x]
<1>1. Cmp(y, x) = -1 /\ x \in Nodes /\ y \in Nodes
      BY DEF Sorted
<1>2. /\ key[y] \in Int /\ key[x] \in Int
      /\ Cmp(y, x) = IF key[y] < key[x] THEN -1 ELSE IF key[y] > key[x] THEN 1 ELSE 0
      BY <1>1 DEF IsKey
<1> QED BY <1>1, <1>2

LEMMA PlaceNow ==
  ASSUME NEW t, NEW mem, NEW sub, NEW pos, Shape(t, mem, sub, pos),
         NEW n \in Nodes, NEW z \in mem, Cmp(z, n) # 0,
         NEW side, side = Way(z, n), Kid(t, z, side) = Nil,
         NEW left, left <=> side = "left"
  PROVE  Place(n, z, side, left, sub[z], mem, pos)
<1>1. side \in Sides
      BY DEF Way, Sides
<1>2. PICK d : d = Kid(t, z, Other(side))
      OBVIOUS
<1>3. /\ sub[z] = {z} \cup sub[d] /\ mem \subseteq Nodes /\ pos \in [Nodes -> Int]
      /\ sub[z] \subseteq mem /\ Other(side) \in Sides
  <2>1. /\ sub[z] = {z} \cup sub[Kid(t, z, side)] \cup sub[Kid(t, z, Other(side))]
        /\ sub[Nil] = {} /\ mem \subseteq Nodes /\ pos \in [Nodes -> Int]
        /\ sub \in [Ptr -> SUBSET mem] /\ mem \subseteq Ptr
        BY <1>1, SubKids
  <2> QED BY <1>1, <1>2, <2>1, OtherSide
<1>4. \A x \in sub[d] : Toward(pos, Other(side), x, z) /\ x \in mem /\ x \in Nodes /\ x # z
  <2>1. \A x \in sub[d] : Toward(pos, Other(side), x, z) /\ x \in mem /\ x \in Nodes
        BY <1>2, <1>3, SubKids
  <2> QED BY <1>3, <2>1, TowardOrder
<1>5. CASE side = "left"
  <2>1. \A x \in sub[d] : pos[z] < pos[x]
        BY <1>4, <1>5 DEF Toward, Other
  <2>2. \A x \in sub[z] : ~ Before(pos, z, side, x)
    <3>1. \A x \in sub[d] : pos[x] \in Int /\ pos[z] \in Int
          BY <1>3, <1>4
    <3> QED BY <1>3, <1>4, <1>5, <2>1, <3>1 DEF Before
  <2>3. ASSUME NEW key, IsKey(key), Sorted(mem, pos), NEW x \in sub[z]
        PROVE  Apart(key, n, pos, z, side, x)
    <3>1. key[z] < key[n] /\ key[z] \in Int /\ key[n] \in Int
          BY <1>3, <1>5, <2>3, KeyWay
    <3>2. x # z => key[x] < key[z] /\ key[x] \in Int
          BY <1>3, <1>4, <2>1, <2>3, SortedKeys DEF IsKey
    <3>3. key[x] < key[n]
          BY <3>1, <3>2
    <3> QED BY <2>2, <2>3, <3>3 DEF Apart
  <2> QED BY <1>5, <2>2, <2>3 DEF Place
<1>6. CASE side = "right"
  <2>1. \A x \in sub[d] : pos[x] < pos[z]
        BY <1>4, <1>6 DEF Toward, Other
  <2>2. \A x \in sub[z] : Before(pos, z, side, x)
        BY <1>3, <1>4, <1>6, <2>1 DEF Before
  <2>3. ASSUME NEW key, IsKey(key), Sorted(mem, pos), NEW x \in sub[z]
        PROVE  Apart(key, n, pos, z, side, x)
    <3>1. key[n] < key[z] /\ key[z] \in Int /\ key[n] \in Int
          BY <1>3, <1>6, <2>3, KeyWay
    <3>2. x # z => key[z] < key[x] /\ key[x] \in Int
          BY <1>3, <1>4, <2>1, <2>3, SortedKeys DEF IsKey
    <3>3. key[n] < key[x]
          BY <3>1, <3>2
    <3> QED BY <2>2, <2>3, <3>3 DEF Apart
  <2>4. z \in sub[z]
        BY <1>3
  <2> QED BY <1>6, <2>2, <2>3, <2>4 DEF Place
<1> QED BY <1>1, <1>5, <1>6 DEF Sides

LEMMA PlaceBelow ==
  ASSUME NEW t, NEW mem, NEW sub, NEW pos, Shape(t, mem, sub, pos),
         NEW n \in Nodes, NEW z \in mem, Cmp(z, n) # 0,
         NEW way, way = Way(z, n), NEW c \in mem, c = Kid(t, z, way),
         NEW p \in sub[c], NEW side \in Sides, NEW left,
         Place(n, p, side, left, sub[c], mem, pos),
         NEW now, now <=> left /\ way = "left"
  PROVE  Place(n, p, side, now, sub[z], mem, pos)
<1>1. way \in Sides
      BY DEF Way, Sides
<1>2. PICK d : d = Kid(t, z, Other(way))
      OBVIOUS
<1>3. /\ sub[z] = {z} \cup sub[c] \cup sub[d] /\ mem \subseteq Nodes /\ pos \in [Nodes -> Int]
      /\ sub[z] \subseteq mem /\ sub[c] \subseteq mem /\ Other(way) \in Sides
  <2>1. /\ sub[z] = {z} \cup sub[Kid(t, z, way)] \cup sub[Kid(t, z, Other(way))]
        /\ mem \subseteq Nodes /\ pos \in [Nodes -> Int]
        /\ sub \in [Ptr -> SUBSET mem] /\ mem \subseteq Ptr
        BY <1>1, SubKids
  <2> QED BY <1>1, <1>2, <2>1, OtherSide
<1>4. \A x \in sub[d] : Toward(pos, Other(way), x, z) /\ x \in mem /\ x \in Nodes /\ x # z
  <2>1. \A x \in sub[d] : Toward(pos, Other(way), x, z) /\ x \in mem /\ x \in Nodes
        BY <1>2, <1>3, SubKids
  <2> QED BY <1>3, <2>1, TowardOrder
<1>5. Toward(pos, way, p, z) /\ p # z /\ p \in mem /\ z \in Nodes /\ p \in Nodes
  <2>1. Toward(pos, way, p, z) /\ p \in mem /\ z \in Nodes /\ p \in Nodes
        BY <1>1, <1>3, SubKids
  <2> QED BY <1>1, <1>3, <2>1, TowardOrder
<1>6. CASE way = "left"
  <2>1. pos[p] < pos[z] /\ \A x \in sub[d] : pos[z] < pos[x]
        BY <1>4, <1>5, <1>6 DEF Toward, Other
  <2>2. \A x \in sub[d] \cup {z} : ~ Before(pos, p, side, x)
    <3>1. \A x \in sub[d] : pos[x] \in Int /\ pos[z] \in Int /\ pos[p] \in Int
          BY <1>3, <1>4, <1>5
    <3>2. pos[z] \in Int /\ pos[p] \in Int
          BY <1>3, <1>5
    <3>3. \A x \in sub[d] : x # p /\ ~ (pos[x] < pos[p])
          BY <2>1, <3>1
    <3> QED BY <1>5, <2>1, <3>2, <3>3 DEF Before
  <2>3. ASSUME NEW key, IsKey(key), Sorted(mem, pos), NEW x \in sub[z]
        PROVE  Apart(key, n, pos, p, side, x)
    <3>1. CASE x \in sub[c]
          BY <2>3, <3>1 DEF Place
    <3>2. CASE x \in sub[d] \cup {z}
      <4>1. key[z] < key[n] /\ key[z] \in Int /\ key[n] \in Int
            BY <1>3, <1>6, <2>3, KeyWay
      <4>2. x # z => key[x] < key[z] /\ key[x] \in Int
            BY <1>3, <1>4, <2>1, <2>3, <3>2, SortedKeys DEF IsKey
      <4>3. key[x] < key[n]
            BY <4>1, <4>2
      <4> QED BY <2>2, <3>2, <4>3 DEF Apart
    <3> QED BY <1>3, <3>1, <3>2
  <2>4. now => side = "left" /\ \A x \in sub[z] : ~ Before(pos, p, side, x)
        BY <1>3, <1>6, <2>2 DEF Place
  <2>5. ~ now => \E x \in sub[z] : Before(pos, p, side, x)
        BY <1>3, <1>6 DEF Place
  <2> QED BY <2>3, <2>4, <2>5 DEF Place
<1>7. CASE way = "right"
  <2>1. pos[z] < pos[p] /\ \A x \in sub[d] : pos[x] < pos[z]
        BY <1>4, <1>5, <1>7 DEF Toward, Other
  <2>2. \A x \in sub[d] \cup {z} : Before(pos, p, side, x)
    <3>1. \A x \in sub[d] : pos[x] \in Int /\ pos[z] \in Int /\ pos[p] \in Int
          BY <1>3, <1>4, <1>5
    <3>2. pos[z] \in Int /\ pos[p] \in Int
          BY <1>3, <1>5
    <3>3. \A x \in sub[d] : x # p /\ pos[x] < pos[p]
          BY <2>1, <3>1
    <3> QED BY <1>5, <2>1, <3>2, <3>3 DEF Before
  <2>3. ASSUME NEW key, IsKey(key), Sorted(mem, pos), NEW x \in sub[z]
        PROVE  Apart(key, n, pos, p, side, x)
    <3>1. CASE x \in sub[c]
          BY <2>3, <3>1 DEF Place
    <3>2. CASE x \in sub[d] \cup {z}
      <4>1. key[n] < key[z] /\ key[z] \in Int /\ key[n] \in Int
            BY <1>3, <1>7, <2>3, KeyWay
      <4>2. x # z => key[z] < key[x] /\ key[x] \in Int
            BY <1>3, <1>4, <2>1, <2>3, <3>2, SortedKeys DEF IsKey
      <4>3. key[n] < key[x]
            BY <4>1, <4>2
      <4> QED BY <2>2, <3>2, <4>3 DEF Apart
    <3> QED BY <1>3, <3>1, <3>2
  <2>4. ~ now /\ \E x \in sub[z] : Before(pos, p, side, x)
        BY <1>3, <1>7, <2>2
  <2> QED BY <2>3, <2>4 DEF Place
<1> QED BY <1>1, <1>6, <1>7 DEF Sides

(* Where the search in a subtree ends, if it finds nothing.                *)
LEMMA SearchEnds ==
  ASSUME tree \in Trees, NEW r, Ranks(r, tree), NEW mem, NEW sub, NEW pos,
         Shape(tree, mem, sub, pos), NEW n \in Nodes, NEW f, IsSearch(f, n)
  PROVE  \A z \in mem : f[z].found = Nil =>
           /\ f[z].parent \in sub[z] /\ f[z].side \in Sides /\ f[z].leftmost \in BOOLEAN
           /\ Kid(tree, f[z].parent, f[z].side) = Nil
           /\ Place(n, f[z].parent, f[z].side, f[z].leftmost, sub[z], mem, pos)
<1> DEFINE Ends(z) ==
             /\ f[z].parent \in sub[z] /\ f[z].side \in Sides /\ f[z].leftmost \in BOOLEAN
             /\ Kid(tree, f[z].parent, f[z].side) = Nil
             /\ Place(n, f[z].parent, f[z].side, f[z].leftmost, sub[z], mem, pos)
           Good == {z \in Nodes : z \in mem /\ f[z].found = Nil => Ends(z)}
<1>1. /\ r \in [Nodes -> Nat]
      /\ \A m \in Nodes, s \in Sides :
           Kid(tree, m, s) \in Nodes => r[Kid(tree, m, s)] < r[m]
      BY DEF Ranks
<1>2. ASSUME NEW z \in Nodes, \A m \in Nodes : r[m] < r[z] => m \in Good
      PROVE  z \in Good
  <2> SUFFICES ASSUME z \in mem, f[z].found = Nil PROVE Ends(z)
      OBVIOUS
  <2>1. PICK way : way = Way(z, n)
        OBVIOUS
  <2>2. PICK c : c = Kid(tree, z, way)
        OBVIOUS
  <2>3. way \in Sides /\ c \in mem \cup {Nil} /\ mem \subseteq Nodes /\ Nil \notin Nodes
        /\ z \in sub[z]
    <3>1. way \in Sides
          BY <2>1 DEF Way, Sides
    <3> QED BY <2>2, <3>1, SubKids
  <2>4. Cmp(z, n) # 0
        BY <2>3 DEF IsSearch
  <2>5. f[z] \in Places
        BY DEF IsSearch
  <2>6. CASE c = Nil
    <3>1. f[z].parent = z /\ f[z].side = way /\ (f[z].leftmost <=> way = "left")
          BY <2>1, <2>2, <2>4, <2>6 DEF IsSearch
    <3>2. PICK left \in BOOLEAN : left = f[z].leftmost
          BY <2>5 DEF Places
    <3>3. left <=> way = "left"
          BY <3>1, <3>2
    <3>4. Place(n, z, way, left, sub[z], mem, pos)
          BY <2>1, <2>2, <2>4, <2>6, <3>3, PlaceNow
    <3> QED BY <2>2, <2>3, <2>6, <3>1, <3>2, <3>4
  <2>7. CASE c # Nil
    <3>1. c \in mem /\ c \in Nodes /\ f[c] \in Places
          BY <2>3, <2>7 DEF IsSearch
    <3>2. /\ f[c].found = Nil /\ f[z].parent = f[c].parent /\ f[z].side = f[c].side
          /\ f[z].leftmost <=> f[c].leftmost /\ way = "left"
          BY <2>1, <2>2, <2>4, <2>7 DEF IsSearch
    <3>3. r[c] < r[z]
          BY <1>1, <2>2, <2>3, <3>1
    <3>4. Ends(c)
          BY <1>2, <3>1, <3>2, <3>3
    <3>5. PICK left \in BOOLEAN : left = f[c].leftmost
          BY <3>1 DEF Places
    <3>6. PICK now \in BOOLEAN : now = f[z].leftmost
          BY <2>5 DEF Places
    <3>7. now <=> left /\ way = "left"
          BY <3>2, <3>5, <3>6
    <3>8. PICK p, side : p = f[c].parent /\ side = f[c].side
          OBVIOUS
    <3>9. p \in sub[c] /\ side \in Sides /\ Kid(tree, p, side) = Nil
          /\ Place(n, p, side, left, sub[c], mem, pos)
          BY <3>4, <3>5, <3>8
    <3> HIDE DEF Ends
    <3>10. Place(n, p, side, now, sub[z], mem, pos)
           BY <2>1, <2>2, <2>4, <3>1, <3>7, <3>9, PlaceBelow
    <3>11. p \in sub[z]
           BY <2>2, <2>3, <3>9, SubKids
    <3> QED BY <3>2, <3>6, <3>8, <3>9, <3>10, <3>11 DEF Ends
  <2> QED BY <2>6, <2>7
<1>3. mem \subseteq Nodes
      BY DEF Shape
<1> HIDE DEF Good
<1>4. \A z \in Nodes : z \in Good
      BY <1>1, <1>2, RankInduction
<1> QED BY <1>3, <1>4 DEF Good

-----------------------------------------------------------------------------
(* Add: the search and the linking of the node.                            *)

LEMMA SearchPlace ==
  ASSUME tree \in Trees, Ranked(tree), NEW mem, NEW sub, NEW pos, NEW pc,
         IsFiniteSet(mem), Loose(tree, pc, mem), Shape(tree, mem, sub, pos),
         NEW n \in Nodes, NEW at, at = Search(n), at.found = Nil
  PROVE  /\ at.parent \in mem \cup {Nil} /\ at.side \in Sides /\ at.leftmost \in BOOLEAN
         /\ IF at.parent = Nil THEN tree.root = Nil /\ mem = {} /\ at.leftmost
            ELSE /\ tree.root # Nil /\ Kid(tree, at.parent, at.side) = Nil
                 /\ Place(n, at.parent, at.side, at.leftmost, mem, mem, pos)
<1>1. PICK r, k : Ranks(r, tree) /\ k \in Nat /\ \A m \in Nodes : r[m] < k
      BY BoundedRank
<1>2. /\ tree.root \in mem \cup {Nil} /\ mem \subseteq Nodes /\ Nil \notin Nodes
      /\ sub[tree.root] = mem /\ sub[Nil] = {}
      BY NilIsNoNode DEF Shape
<1>3. CASE tree.root = Nil
  <2>1. PICK b \in BOOLEAN : b = TRUE
        OBVIOUS
  <2>2. at = [found |-> Nil, parent |-> Nil, side |-> "left", leftmost |-> b]
        BY <1>3, <2>1 DEF Search
  <2>3. at.parent = Nil /\ at.side = "left" /\ at.leftmost = b
        BY <2>2
  <2> QED BY <1>2, <1>3, <2>1, <2>3 DEF Sides
<1>4. CASE tree.root # Nil
  <2>1. PICK f : IsSearch(f, n) /\ SearchFrom(n) = f[tree.root]
        BY <1>1, SearchIs
  <2>2. at = f[tree.root]
        BY <1>4, <2>1 DEF Search
  <2>3. tree.root \in mem
        BY <1>2, <1>4
  <2>4. PICK z \in mem : z = tree.root
        BY <2>3
  <2>5. /\ f[z].parent \in sub[z] /\ f[z].side \in Sides /\ f[z].leftmost \in BOOLEAN
        /\ Kid(tree, f[z].parent, f[z].side) = Nil
        /\ Place(n, f[z].parent, f[z].side, f[z].leftmost, sub[z], mem, pos)
        BY <1>1, <2>1, <2>2, <2>4, SearchEnds
  <2>6. sub[z] = mem /\ at = f[z]
        BY <1>2, <2>2, <2>4
  <2>7. at.parent \in mem /\ at.parent # Nil
        BY <1>2, <2>5, <2>6
  <2> QED BY <1>4, <2>5, <2>6, <2>7
<1> QED BY <1>3, <1>4

(* What the stores of Link do.                                             *)
Linked(u, n, p, s, left) ==
  /\ \A m \in Nodes, side \in Sides :
       Kid(u, m, side) = IF m = p /\ side = s THEN n ELSE Kid(tree, m, side)
  /\ \A m \in Nodes : /\ Up(u, m) = (IF m = n THEN p ELSE Up(tree, m))
                      /\ Hue(u, m) = (IF m = n THEN TRUE ELSE Hue(tree, m))
  /\ u.root = IF p = Nil THEN n ELSE tree.root
  /\ u.leftmost = IF left THEN n ELSE tree.leftmost

LEMMA DoLink ==
  ASSUME tree \in Trees, Ranked(tree), NEW n \in Nodes,
         \A side \in Sides : Kid(tree, n, side) = Nil,
         NEW at, NEW p, p = at.parent, p \in Ptr, p # n, NEW s \in Sides, s = at.side,
         NEW left, left \in BOOLEAN, left = at.leftmost
  PROVE  \E u \in Trees : Leads(tree, Link(n, at), u) /\ Linked(u, n, p, s, left)
<1>1. PICK r0 : Ranks(r0, tree)
      BY DEF Ranked
<1>2. Nil \notin Nodes /\ Nil \in Ptr /\ n \in Ptr
      BY NilIsNoNode DEF Ptr
<1>3. PICK r : Ranks(r, tree) /\ \A m \in Nodes \ {n} : r[n] < r[m]
      BY <1>1, <1>2, Lower
<1>4. PICK t1 \in Trees : /\ Leads(tree, SetParentColor(n, p, TRUE), t1)
                          /\ Ranks(r, t1) /\ UpSet(tree, t1, n, p, TRUE)
      BY <1>3, DoUp
<1>5. "left" \in Sides /\ "right" \in Sides
      BY DEF Sides
<1>6. PICK t2 \in Trees : /\ Leads(t1, SetChild(n, "left", Nil), t2)
                          /\ Ranks(r, t2) /\ KidSet(t1, t2, n, "left", Nil)
      BY <1>2, <1>4, <1>5, DoKid
<1>7. PICK t3 \in Trees : /\ Leads(t2, SetChild(n, "right", Nil), t3)
                          /\ Ranks(r, t3) /\ KidSet(t2, t3, n, "right", Nil)
      BY <1>2, <1>5, <1>6, DoKid
<1>8. PICK third : third = IF p = Nil THEN ChangeChild(Nil, n, Nil) ELSE SetChild(p, s, n)
      OBVIOUS
<1>9. PICK t4 \in Trees :
        /\ Leads(t3, third, t4) /\ Ranks(r, t4)
        /\ IF p = Nil THEN AnchorSet(t3, t4, "root", n) ELSE KidSet(t3, t4, p, s, n)
  <2>1. CASE p = Nil
    <3>1. third = <<[field |-> "root", to |-> n]>>
          BY <1>8, <2>1 DEF ChangeChild
    <3>2. PICK t4 \in Trees : /\ Leads(t3, <<[field |-> "root", to |-> n]>>, t4)
                              /\ Ranks(r, t4) /\ AnchorSet(t3, t4, "root", n)
          BY <1>2, <1>7, DoAnchor
    <3> QED BY <2>1, <3>1, <3>2
  <2>2. CASE p # Nil
    <3>1. p \in Nodes /\ r[n] < r[p]
          BY <1>3, <2>2 DEF Ptr
    <3>2. PICK t4 \in Trees : /\ Leads(t3, SetChild(p, s, n), t4)
                              /\ Ranks(r, t4) /\ KidSet(t3, t4, p, s, n)
          BY <1>2, <1>7, <3>1, DoKid
    <3> QED BY <1>8, <2>2, <3>2
  <2> QED BY <2>1, <2>2
<1>10. PICK last : last = IF left THEN <<[field |-> "leftmost", to |-> n]>> ELSE <<>>
       OBVIOUS
<1>11. PICK u \in Trees :
         /\ Leads(t4, last, u)
         /\ SameKids(t4, u) /\ SameUp(t4, u) /\ u.root = t4.root
         /\ u.leftmost = IF left THEN n ELSE t4.leftmost
  <2>1. CASE left
    <3>1. PICK u \in Trees : /\ Leads(t4, <<[field |-> "leftmost", to |-> n]>>, u)
                             /\ Ranks(r, u) /\ AnchorSet(t4, u, "leftmost", n)
          BY <1>2, <1>9, DoAnchor
    <3> QED BY <1>10, <2>1, <3>1 DEF AnchorSet
  <2>2. CASE ~ left
    <3>1. Leads(t4, <<>>, t4)
          BY <1>9, LeadsNil, RanksRanked
    <3> QED BY <1>10, <2>2, <3>1 DEF SameKids, SameUp
  <2> QED BY <2>1, <2>2
<1>12. Leads(tree, Link(n, at), u)
  <2>1. Leads(tree, SetParentColor(n, p, TRUE) \o SetChild(n, "left", Nil), t2)
        BY <1>4, <1>6, LeadsOn
  <2>2. Leads(tree, SetParentColor(n, p, TRUE) \o SetChild(n, "left", Nil)
                      \o SetChild(n, "right", Nil), t3)
        BY <1>7, <2>1, LeadsOn
  <2>3. Leads(tree, SetParentColor(n, p, TRUE) \o SetChild(n, "left", Nil)
                      \o SetChild(n, "right", Nil) \o third, t4)
        BY <1>9, <2>2, LeadsOn
  <2>4. Leads(tree, SetParentColor(n, p, TRUE) \o SetChild(n, "left", Nil)
                      \o SetChild(n, "right", Nil) \o third \o last, u)
        BY <1>11, <2>3, LeadsOn
  <2>5. Link(n, at) = SetParentColor(n, p, TRUE) \o SetChild(n, "left", Nil)
                      \o SetChild(n, "right", Nil) \o third \o last
        BY <1>8, <1>10, Zenon DEF Link
  <2> QED BY <2>4, <2>5
<1>13. ASSUME NEW m \in Nodes, NEW side \in Sides
       PROVE  Kid(u, m, side) = IF m = p /\ side = s THEN n ELSE Kid(tree, m, side)
  <2>1. Kid(t3, m, side) = Kid(tree, m, side)
    <3>1. Kid(t1, m, side) = Kid(tree, m, side)
          BY <1>4 DEF UpSet, SameKids
    <3>2. Kid(t3, m, side) = IF m = n THEN Nil ELSE Kid(t1, m, side)
          BY <1>6, <1>7 DEF KidSet, Sides
    <3> QED BY <3>1, <3>2
  <2>2. Kid(u, m, side) = Kid(t4, m, side)
        BY <1>11 DEF SameKids
  <2>3. CASE p = Nil
        BY <1>2, <1>9, <2>1, <2>2, <2>3 DEF AnchorSet, SameKids
  <2>4. CASE p # Nil
        BY <1>9, <2>1, <2>2, <2>4 DEF KidSet
  <2> QED BY <2>3, <2>4
<1>14. \A m \in Nodes : /\ Up(u, m) = (IF m = n THEN p ELSE Up(tree, m))
                        /\ Hue(u, m) = (IF m = n THEN TRUE ELSE Hue(tree, m))
  <2>1. SameUp(t3, t4)
        BY <1>9 DEF AnchorSet, KidSet
  <2>2. SameUp(t1, t3)
        BY <1>6, <1>7 DEF KidSet, SameUp
  <2> QED BY <1>4, <1>11, <2>1, <2>2 DEF UpSet, SameUp
<1>15. /\ u.root = IF p = Nil THEN n ELSE tree.root
       /\ u.leftmost = IF left THEN n ELSE tree.leftmost
  <2>1. t3.root = tree.root /\ t3.leftmost = tree.leftmost
        BY <1>4, <1>6, <1>7 DEF UpSet, KidSet, SameAnchors
  <2>2. t4.root = (IF p = Nil THEN n ELSE tree.root) /\ t4.leftmost = tree.leftmost
    <3>1. CASE p = Nil
          BY <1>9, <2>1, <3>1 DEF AnchorSet
    <3>2. CASE p # Nil
          BY <1>9, <2>1, <3>2 DEF KidSet, SameAnchors
    <3> QED BY <3>1, <3>2
  <2> QED BY <1>11, <2>2
<1> QED BY <1>12, <1>13, <1>14, <1>15 DEF Linked

(* The new node's number is next to that of its parent.                    *)
NewPos(pos, pos2, n, p, s) ==
  /\ pos2 \in [Nodes -> Int]
  /\ \A m \in Nodes \ {n} : pos2[m] = 2 * pos[m]
  /\ p # Nil => pos2[n] = IF s = "left" THEN 2 * pos[p] - 1 ELSE 2 * pos[p] + 1

LEMMA NewPosExists ==
  ASSUME NEW pos \in [Nodes -> Int], NEW n \in Nodes, NEW p \in (Nodes \ {n}) \cup {Nil},
         NEW s
  PROVE  \E pos2 : NewPos(pos, pos2, n, p, s)
<1>1. PICK pos2 : pos2 = [m \in Nodes |-> IF m # n THEN 2 * pos[m]
                            ELSE IF p = Nil THEN 0
                            ELSE IF s = "left" THEN 2 * pos[p] - 1 ELSE 2 * pos[p] + 1]
      OBVIOUS
<1>2. p # Nil => p \in Nodes /\ pos[p] \in Int
      OBVIOUS
<1>3. pos2 \in [Nodes -> Int]
      BY <1>1, <1>2
<1> QED BY <1>1, <1>2, <1>3 DEF NewPos

(* No two nodes have the same number.                                      *)
Distinct(mem, pos) == \A x, y \in mem : x # y => pos[x] # pos[y]

LEMMA ShapeDistinct ==
  ASSUME NEW t, NEW r, Ranks(r, t), NEW mem, NEW sub, NEW pos, Shape(t, mem, sub, pos)
  PROVE  Distinct(mem, pos)
<1> DEFINE Good == {z \in Nodes : z \in mem =>
                      \A x, y \in sub[z] : x # y => pos[x] # pos[y]}
<1>1. /\ r \in [Nodes -> Nat]
      /\ \A n \in Nodes, side \in Sides :
           Kid(t, n, side) \in Nodes => r[Kid(t, n, side)] < r[n]
      BY DEF Ranks
<1>2. ASSUME NEW z \in Nodes, \A m \in Nodes : r[m] < r[z] => m \in Good
      PROVE  z \in Good
  <2> SUFFICES ASSUME z \in mem, NEW x \in sub[z], NEW y \in sub[z], x # y
               PROVE  pos[x] # pos[y]
      OBVIOUS
  <2>1. PICK c, d : c = Kid(t, z, "left") /\ d = Kid(t, z, "right")
        OBVIOUS
  <2>2. /\ sub[z] = {z} \cup sub[c] \cup sub[d] /\ mem \subseteq Nodes
        /\ c \in mem \cup {Nil} /\ d \in mem \cup {Nil} /\ sub[Nil] = {}
        /\ \A m \in sub[c] : Toward(pos, "left", m, z)
        /\ \A m \in sub[d] : Toward(pos, "right", m, z)
        /\ pos \in [Nodes -> Int] /\ sub[z] \subseteq mem
    <3>1. /\ sub[z] = {z} \cup sub[Kid(t, z, "left")] \cup sub[Kid(t, z, "right")]
          BY SubKids DEF Sides, Other
    <3>2. sub \in [Ptr -> SUBSET mem] /\ mem \subseteq Ptr
          BY SubKids
    <3>3. sub[z] \subseteq mem
          BY <3>2
    <3> QED BY <2>1, <3>1, <3>3, SubKids DEF Sides
  <2>3. pos[x] \in Int /\ pos[y] \in Int /\ pos[z] \in Int
        BY <2>2
  <2>4. \A m \in sub[c] : pos[m] < pos[z]
        BY <2>2 DEF Toward
  <2>5. \A m \in sub[d] : pos[z] < pos[m]
        BY <2>2 DEF Toward
  <2>6. CASE x \in sub[c] /\ y \in sub[c]
    <3>1. c \in Nodes /\ c \in mem
          BY <2>2, <2>6
    <3>2. c \in Good
          BY <1>1, <1>2, <2>1, <3>1 DEF Sides
    <3> QED BY <2>6, <3>1, <3>2
  <2>7. CASE x \in sub[d] /\ y \in sub[d]
    <3>1. d \in Nodes /\ d \in mem
          BY <2>2, <2>7
    <3>2. d \in Good
          BY <1>1, <1>2, <2>1, <3>1 DEF Sides
    <3> QED BY <2>7, <3>1, <3>2
  <2>8. CASE x = z \/ y = z
        BY <2>2, <2>3, <2>4, <2>5, <2>8
  <2>9. CASE (x \in sub[c] /\ y \in sub[d]) \/ (x \in sub[d] /\ y \in sub[c])
        BY <2>3, <2>4, <2>5, <2>9
  <2> QED BY <2>2, <2>6, <2>7, <2>8, <2>9
<1>3. t.root \in mem \cup {Nil} /\ mem \subseteq Nodes /\ sub[t.root] = mem /\ sub[Nil] = {}
      BY DEF Shape
<1> HIDE DEF Good
<1>4. \A z \in Nodes : z \in Good
      BY <1>1, <1>2, RankInduction
<1>5. CASE t.root \in mem
      BY <1>3, <1>4, <1>5 DEF Good, Distinct
<1>6. CASE t.root = Nil
      BY <1>3, <1>6 DEF Distinct
<1> QED BY <1>3, <1>5, <1>6

LEMMA NewPosToward ==
  ASSUME NEW pos \in [Nodes -> Int], NEW n \in Nodes, NEW mem, mem \subseteq Nodes \ {n},
         Distinct(mem, pos), NEW p \in mem,
         NEW s \in Sides, NEW pos2, NewPos(pos, pos2, n, p, s)
  PROVE  /\ \A x, y \in mem, z \in Sides : Toward(pos2, z, x, y) <=> Toward(pos, z, x, y)
         /\ Toward(pos2, s, n, p)
         /\ \A x \in mem, z \in Sides : Toward(pos, z, p, x) => Toward(pos2, z, n, x)
         /\ \A x \in mem : IF Before(pos, p, s, x) THEN pos2[x] < pos2[n]
                           ELSE pos2[n] < pos2[x]
<1>1. /\ \A m \in mem : pos2[m] = 2 * pos[m] /\ pos[m] \in Int
      /\ pos2[n] = (IF s = "left" THEN 2 * pos[p] - 1 ELSE 2 * pos[p] + 1)
      /\ pos[p] \in Int /\ pos2[p] = 2 * pos[p]
  <2>1. p # Nil
        BY NilIsNoNode
  <2> QED BY <2>1 DEF NewPos
<1>2. \A x, y \in mem, z \in Sides : Toward(pos2, z, x, y) <=> Toward(pos, z, x, y)
      BY <1>1 DEF Toward
<1>3. \A x \in mem : x # p => pos[x] # pos[p]
      BY DEF Distinct
<1>4. CASE s = "left"
  <2>1. pos2[n] = 2 * pos[p] - 1
        BY <1>1, <1>4
  <2>2. Toward(pos2, s, n, p)
        BY <1>1, <1>4, <2>1 DEF Toward
  <2>3. \A x \in mem, z \in Sides : Toward(pos, z, p, x) => Toward(pos2, z, n, x)
        BY <1>1, <2>1 DEF Toward, Sides
  <2>4. ASSUME NEW x \in mem
        PROVE  IF Before(pos, p, s, x) THEN pos2[x] < pos2[n] ELSE pos2[n] < pos2[x]
        BY <1>1, <1>3, <1>4, <2>1 DEF Before
  <2> QED BY <1>2, <2>2, <2>3, <2>4
<1>5. CASE s = "right"
  <2>1. pos2[n] = 2 * pos[p] + 1
        BY <1>1, <1>5
  <2>2. Toward(pos2, s, n, p)
        BY <1>1, <1>5, <2>1 DEF Toward
  <2>3. \A x \in mem, z \in Sides : Toward(pos, z, p, x) => Toward(pos2, z, n, x)
        BY <1>1, <2>1 DEF Toward, Sides
  <2>4. ASSUME NEW x \in mem
        PROVE  IF Before(pos, p, s, x) THEN pos2[x] < pos2[n] ELSE pos2[n] < pos2[x]
        BY <1>1, <1>3, <1>5, <2>1 DEF Before
  <2> QED BY <1>2, <2>2, <2>3, <2>4
<1> QED BY <1>4, <1>5 DEF Sides

(* The shape of the tree with the new node in it.                          *)
LEMMA LinkShape ==
  ASSUME NEW r, Ranks(r, tree), NEW mem, NEW sub, NEW pos, Shape(tree, mem, sub, pos),
         NEW n \in Nodes, n \notin mem, \A side \in Sides : Kid(tree, n, side) = Nil,
         NEW s \in Sides, NEW p \in mem \cup {Nil},
         IF p = Nil THEN tree.root = Nil ELSE tree.root # Nil /\ Kid(tree, p, s) = Nil,
         NEW left, NEW u, Linked(u, n, p, s, left),
         NEW pos2, NewPos(pos, pos2, n, p, s)
  PROVE  \E sub2 : Shape(u, mem \cup {n}, sub2, pos2)
<1>1. /\ mem \subseteq Nodes /\ Nil \notin Nodes /\ Nil \notin mem /\ n # Nil
      /\ mem \subseteq Ptr /\ Nil \in Ptr /\ n \in Ptr /\ sub[Nil] = {}
      /\ pos \in [Nodes -> Int] /\ sub \in [Ptr -> SUBSET mem]
      /\ pos2 \in [Nodes -> Int]
      BY SubKids DEF Ptr, NewPos
<1>2. PICK sub2 : sub2 = [m \in Ptr |-> IF m = n THEN {n}
                            ELSE IF p \in sub[m] THEN sub[m] \cup {n} ELSE sub[m]]
      OBVIOUS
<1>3. /\ sub2 \in [Ptr -> SUBSET (mem \cup {n})] /\ sub2[n] = {n} /\ sub2[Nil] = {}
      /\ \A m \in mem \cup {Nil} :
           sub2[m] = IF p \in sub[m] THEN sub[m] \cup {n} ELSE sub[m]
      BY <1>1, <1>2
<1>4. /\ \A m \in Nodes, side \in Sides :
           Kid(u, m, side) = IF m = p /\ side = s THEN n ELSE Kid(tree, m, side)
      /\ \A m \in Nodes : Up(u, m) = IF m = n THEN p ELSE Up(tree, m)
      /\ u.root = IF p = Nil THEN n ELSE tree.root
      BY DEF Linked
<1>5. CASE p = Nil
  <2>1. mem = {}
        BY <1>1, <1>5 DEF Shape
  <2>2. \A side \in Sides : Kid(u, n, side) = Nil
        BY <1>1, <1>4, <1>5
  <2>3. Up(u, n) = Nil /\ u.root = n
        BY <1>4, <1>5
  <2>4. LinksAt(u, {n}, n) /\ SplitAt(u, sub2, pos2, n)
        BY <1>3, <2>2, <2>3, OtherSide DEF LinksAt, SplitAt
  <2>5. Shape(u, {n}, sub2, pos2)
        BY <1>1, <1>3, <2>1, <2>3, <2>4 DEF Shape
  <2> QED BY <2>1, <2>5
<1>6. CASE p # Nil
  <2>1. p \in mem /\ p # n /\ tree.root \in mem /\ u.root = tree.root /\ sub[tree.root] = mem
        /\ Up(tree, tree.root) = Nil
        BY <1>4, <1>6 DEF Shape
  <2>2. /\ \A x, y \in mem, z \in Sides : Toward(pos2, z, x, y) <=> Toward(pos, z, x, y)
        /\ Toward(pos2, s, n, p)
        /\ \A x \in mem, z \in Sides : Toward(pos, z, p, x) => Toward(pos2, z, n, x)
    <3>1. Distinct(mem, pos) /\ mem \subseteq Nodes \ {n}
          BY <1>1, ShapeDistinct
    <3> QED BY <1>1, <2>1, <3>1, NewPosToward
  <2>3. \A m \in mem, side \in Sides : Kid(tree, m, side) \in mem \cup {Nil}
        BY SubKids
  <2>4. ASSUME NEW m \in mem PROVE LinksAt(u, mem \cup {n}, m)
    <3>1. ASSUME NEW side \in Sides
          PROVE  /\ Kid(u, m, side) \in mem \cup {n} \cup {Nil}
                 /\ Kid(u, m, side) # Nil => Up(u, Kid(u, m, side)) = m
      <4>1. CASE m = p /\ side = s
            BY <1>1, <1>4, <4>1
      <4>2. CASE ~ (m = p /\ side = s)
        <5>1. Kid(u, m, side) = Kid(tree, m, side) /\ Kid(u, m, side) \in mem \cup {Nil}
              BY <1>1, <1>4, <2>3, <4>2
        <5>2. Kid(tree, m, side) # Nil => Up(tree, Kid(tree, m, side)) = m
              BY SubKids
        <5>3. Kid(u, m, side) # Nil => Kid(u, m, side) \in Nodes /\ Kid(u, m, side) # n
              BY <1>1, <5>1
        <5> QED BY <1>4, <5>1, <5>2, <5>3
      <4> QED BY <4>1, <4>2
    <3>2. IF Up(u, m) = Nil THEN u.root = m
          ELSE Up(u, m) \in mem \cup {n} /\ \E side \in Sides : Kid(u, Up(u, m), side) = m
      <4>1. Up(u, m) = Up(tree, m)
            BY <1>1, <1>4
      <4>2. IF Up(tree, m) = Nil THEN tree.root = m
            ELSE Up(tree, m) \in mem /\ \E side \in Sides : Kid(tree, Up(tree, m), side) = m
            BY DEF Shape, LinksAt
      <4>3. CASE Up(tree, m) = Nil
            BY <2>1, <4>1, <4>2, <4>3
      <4>4. CASE Up(tree, m) # Nil
        <5>1. PICK side \in Sides : Kid(tree, Up(tree, m), side) = m
              BY <4>2, <4>4
        <5>2. Kid(u, Up(tree, m), side) = m
          <6>1. ~ (Up(tree, m) = p /\ side = s)
                BY <1>1, <1>6, <5>1
          <6> QED BY <1>1, <1>4, <4>2, <4>4, <5>1, <6>1
        <5> QED BY <4>1, <4>2, <4>4, <5>2
      <4> QED BY <4>3, <4>4
    <3> QED BY <3>1, <3>2 DEF LinksAt
  <2>5. LinksAt(u, mem \cup {n}, n)
    <3>1. \A side \in Sides : Kid(u, n, side) = Nil
          BY <1>4, <2>1
    <3>2. Up(u, n) = p /\ Kid(u, p, s) = n
          BY <1>1, <1>4, <2>1
    <3> QED BY <1>6, <2>1, <3>1, <3>2 DEF LinksAt
  <2>6. SplitAt(u, sub2, pos2, n)
    <3>1. \A side \in Sides : Kid(u, n, side) = Nil
          BY <1>4, <2>1
    <3> QED BY <1>3, <3>1, OtherSide DEF SplitAt
  <2>7. ASSUME NEW m \in mem, NEW side \in Sides
        PROVE  /\ sub2[m] = {m} \cup sub2[Kid(u, m, side)] \cup sub2[Kid(u, m, Other(side))]
               /\ \A x \in sub2[Kid(u, m, side)] : Toward(pos2, side, x, m)
    <3>0. PICK other : other = Other(side)
          OBVIOUS
    <3>1. PICK c, d : c = Kid(tree, m, side) /\ d = Kid(tree, m, other)
          OBVIOUS
    <3>2. /\ sub[m] = {m} \cup sub[c] \cup sub[d]
          /\ c \in mem \cup {Nil} /\ d \in mem \cup {Nil} /\ other \in Sides /\ other # side
          /\ \A x \in sub[c] : Toward(pos, side, x, m) /\ x \in mem
          /\ \A s1 \in Sides : s1 = side \/ s1 = other
      <4>1. other \in Sides /\ other # side /\ \A s1 \in Sides : s1 = side \/ s1 = other
            BY <3>0, OtherSide
      <4>2. /\ sub[m] = {m} \cup sub[Kid(tree, m, side)] \cup sub[Kid(tree, m, Other(side))]
            /\ \A x \in sub[Kid(tree, m, side)] : Toward(pos, side, x, m)
            BY SubKids
      <4>3. c \in mem \cup {Nil} /\ sub[c] \subseteq mem
            BY <1>1, <2>3, <3>1
      <4> QED BY <2>3, <3>0, <3>1, <4>1, <4>2, <4>3
    <3>3. m \notin sub[c] /\ m \notin sub[d]
          BY <3>0, <3>1, <3>2, Around
    <3>4. CASE m = p /\ side = s
      <4>1. c = Nil /\ Kid(u, m, side) = n /\ Kid(u, m, other) = d
            BY <1>1, <1>4, <1>6, <3>1, <3>2, <3>4
      <4>2. sub2[m] = sub[m] \cup {n} /\ sub2[d] = sub[d]
            BY <1>3, <3>2, <3>3, <3>4
      <4> QED BY <1>1, <1>3, <2>2, <3>0, <3>2, <3>4, <4>1, <4>2
    <3>5. CASE m = p /\ other = s
      <4>1. d = Nil /\ Kid(u, m, side) = c /\ Kid(u, m, other) = n
            BY <1>1, <1>4, <1>6, <3>1, <3>2, <3>5
      <4>2. sub2[m] = sub[m] \cup {n} /\ sub2[c] = sub[c]
            BY <1>3, <3>2, <3>3, <3>5
      <4> QED BY <1>1, <1>3, <2>2, <3>0, <3>2, <3>5, <4>1, <4>2
    <3>6. CASE m # p
      <4>1. Kid(u, m, side) = c /\ Kid(u, m, other) = d
            BY <1>1, <1>4, <3>1, <3>2, <3>6
      <4>2. p \in sub[m] <=> p \in sub[c] \/ p \in sub[d]
            BY <3>2, <3>6
      <4>3. /\ sub2[m] = IF p \in sub[m] THEN sub[m] \cup {n} ELSE sub[m]
            /\ sub2[c] = IF p \in sub[c] THEN sub[c] \cup {n} ELSE sub[c]
            /\ sub2[d] = IF p \in sub[d] THEN sub[d] \cup {n} ELSE sub[d]
            BY <1>3, <3>2
      <4>4. sub2[m] = {m} \cup sub2[c] \cup sub2[d]
            BY <3>2, <4>2, <4>3
      <4>5. \A x \in sub2[c] : Toward(pos2, side, x, m)
        <5>1. \A x \in sub[c] : Toward(pos2, side, x, m)
              BY <2>2, <3>2
        <5>2. p \in sub[c] => Toward(pos2, side, n, m)
              BY <2>2, <3>2
        <5> QED BY <4>3, <5>1, <5>2
      <4> QED BY <3>0, <4>1, <4>4, <4>5
    <3> QED BY <3>2, <3>4, <3>5, <3>6
  <2>8. \A m \in mem \cup {n} : LinksAt(u, mem \cup {n}, m) /\ SplitAt(u, sub2, pos2, m)
    <3>1. \A m \in mem : SplitAt(u, sub2, pos2, m)
          BY <2>7 DEF SplitAt
    <3> QED BY <2>4, <2>5, <2>6, <3>1
  <2>9. sub2[u.root] = mem \cup {n} /\ Up(u, u.root) = Nil
    <3>1. tree.root # n /\ tree.root \in Nodes
          BY <1>1, <2>1
    <3> QED BY <1>3, <1>4, <2>1, <3>1
  <2> QED BY <1>1, <1>3, <2>1, <2>8, <2>9 DEF Shape
<1> QED BY <1>5, <1>6

(* The order of the tree with the new node in it.                          *)
LEMMA LinkSorted ==
  ASSUME NEW mem, mem \subseteq Nodes, NEW n \in Nodes, n \notin mem,
         NEW pos \in [Nodes -> Int], Distinct(mem, pos), Sorted(mem, pos),
         NEW p \in mem, NEW s \in Sides, NEW left, Place(n, p, s, left, mem, mem, pos),
         NEW pos2, NewPos(pos, pos2, n, p, s), Keyed
  PROVE  Sorted(mem \cup {n}, pos2)
<1>1. PICK key : IsKey(key)
      BY DEF Keyed
<1>2. \A x \in mem : Apart(key, n, pos, p, s, x)
      BY <1>1 DEF Place
<1>3. /\ \A x \in mem : IF Before(pos, p, s, x) THEN pos2[x] < pos2[n]
                        ELSE pos2[n] < pos2[x]
      /\ \A x, y \in mem : Toward(pos2, "left", x, y) <=> Toward(pos, "left", x, y)
  <2>1. mem \subseteq Nodes \ {n} /\ "left" \in Sides
        BY DEF Sides
  <2> QED BY <2>1, NewPosToward
<1>4. \A x, y \in mem : pos2[x] < pos2[y] <=> pos[x] < pos[y]
      BY <1>3 DEF Toward
<1>5. \A x \in mem \cup {n} : pos2[x] \in Int
      BY DEF NewPos
<1>6. \A x, y \in Nodes : key[x] < key[y] => Cmp(x, y) = -1
      BY <1>1 DEF IsKey
<1>7. ASSUME NEW x \in mem \cup {n}, NEW y \in mem \cup {n}, pos2[x] < pos2[y]
      PROVE  Cmp(y, x) = -1
  <2>1. CASE x \in mem /\ y \in mem
        BY <1>4, <1>7, <2>1 DEF Sorted
  <2>2. CASE x = n /\ y \in mem
    <3>1. ~ Before(pos, p, s, y)
          BY <1>3, <1>5, <1>7, <2>2
    <3>2. key[y] < key[n]
          BY <1>2, <2>2, <3>1 DEF Apart
    <3> QED BY <1>6, <2>2, <3>2
  <2>3. CASE x \in mem /\ y = n
    <3>1. Before(pos, p, s, x)
          BY <1>3, <1>5, <1>7, <2>3
    <3>2. key[n] < key[x]
          BY <1>2, <2>3, <3>1 DEF Apart
    <3> QED BY <1>6, <2>3, <3>2
  <2>4. CASE x = n /\ y = n
        BY <1>5, <1>7, <2>4
  <2> QED BY <1>7, <2>1, <2>2, <2>3, <2>4
<1> QED BY <1>7 DEF Sorted

LEMMA LinkLeftmost ==
  ASSUME NEW mem, mem \subseteq Nodes, NEW n \in Nodes, n \notin mem,
         NEW pos \in [Nodes -> Int], Distinct(mem, pos), LeftmostOf(tree, mem, pos),
         NEW p \in mem, NEW s \in Sides, NEW left \in BOOLEAN,
         Place(n, p, s, left, mem, mem, pos),
         NEW pos2, NewPos(pos, pos2, n, p, s),
         NEW u, u.leftmost = IF left THEN n ELSE tree.leftmost
  PROVE  LeftmostOf(u, mem \cup {n}, pos2)
<1>1. /\ \A x \in mem : IF Before(pos, p, s, x) THEN pos2[x] < pos2[n]
                        ELSE pos2[n] < pos2[x]
      /\ \A x, y \in mem : Toward(pos2, "left", x, y) <=> Toward(pos, "left", x, y)
  <2>1. mem \subseteq Nodes \ {n} /\ "left" \in Sides
        BY DEF Sides
  <2> QED BY <2>1, NewPosToward
<1>2. \A x, y \in mem : pos2[x] < pos2[y] <=> pos[x] < pos[y]
      BY <1>1 DEF Toward
<1>3. \A x \in mem \cup {n} : pos2[x] \in Int /\ x # Nil
      BY NilIsNoNode DEF NewPos
<1>4. CASE left
  <2>1. \A x \in mem : pos2[n] < pos2[x]
        BY <1>1, <1>4 DEF Place
  <2> QED BY <1>3, <1>4, <2>1 DEF LeftmostOf
<1>5. CASE ~ left
  <2>1. PICK x \in mem : Before(pos, p, s, x)
        BY <1>5 DEF Place
  <2>2. PICK q : q = tree.leftmost
        OBVIOUS
  <2>3. q \in mem /\ \A y \in mem : y # q => pos[q] < pos[y]
        BY <2>1, <2>2, NilIsNoNode DEF LeftmostOf
  <2>4. \A y \in mem : y # q => pos2[q] < pos2[y]
        BY <1>2, <2>3
  <2>5. pos2[x] < pos2[n]
        BY <1>1, <2>1
  <2>6. pos2[q] < pos2[n]
        BY <1>3, <2>1, <2>3, <2>4, <2>5
  <2> QED BY <1>3, <1>5, <2>2, <2>3, <2>4, <2>6 DEF LeftmostOf
<1> QED BY <1>4, <1>5

LEMMA LinkColours ==
  ASSUME NEW mem, NEW sub, NEW pos, Shape(tree, mem, sub, pos),
         NEW n \in Nodes, n \notin mem, \A side \in Sides : Kid(tree, n, side) = Nil,
         NEW s \in Sides, NEW p \in mem \cup {Nil},
         IF p = Nil THEN tree.root = Nil ELSE tree.root # Nil /\ Kid(tree, p, s) = Nil,
         NEW left, NEW u, Linked(u, n, p, s, left),
         NEW bh, Bal(tree, mem, bh, Nil, "left"), NoRedRed(tree, mem, Nil),
         ~ Red(tree, tree.root)
  PROVE  \E bh2 : Colours(u, "insert", n, p, mem \cup {n}, bh2)
<1>1. /\ mem \subseteq Nodes /\ Nil \notin Nodes /\ Nil \notin mem /\ n # Nil
      /\ mem \subseteq Ptr /\ Nil \in Ptr /\ n \in Ptr
      /\ \A m \in mem, side \in Sides : Kid(tree, m, side) \in mem \cup {Nil}
      BY SubKids DEF Ptr
<1>2. /\ bh \in [Ptr -> Nat] /\ bh[Nil] = 0
      /\ \A m \in mem, side \in Sides :
           /\ bh[Kid(tree, m, side)] \in Nat /\ bh[m] \in Nat
           /\ Hue(tree, m) => bh[m] = bh[Kid(tree, m, side)]
           /\ ~ Hue(tree, m) => bh[m] = bh[Kid(tree, m, side)] + 1
      BY BalNone
<1>3. PICK bh2 : bh2 = [bh EXCEPT ![n] = 0]
      OBVIOUS
<1>4. /\ bh2 \in [Ptr -> Nat] /\ bh2[n] = 0 /\ bh2[Nil] = 0
      /\ \A m \in mem \cup {Nil} : bh2[m] = bh[m]
      BY <1>1, <1>2, <1>3
<1>5. /\ \A m \in mem \cup {n}, side \in Sides :
           Kid(u, m, side) = IF m = p /\ side = s THEN n ELSE Kid(tree, m, side)
      /\ \A m \in mem : Hue(u, m) = Hue(tree, m)
      /\ Hue(u, n) /\ Up(u, n) = p
      /\ u.root = IF p = Nil THEN n ELSE tree.root
      BY <1>1 DEF Linked
<1>6. ASSUME NEW m \in mem \cup {n}, NEW side \in Sides
      PROVE  bh2[m] = bh2[Kid(u, m, side)] + (IF m = Nil /\ side = "left" THEN 1 ELSE 0)
                        + (IF Hue(u, m) THEN 0 ELSE 1)
  <2>1. m # Nil
        BY <1>1
  <2>2. CASE m = n
    <3>1. Kid(u, m, side) = Nil
          BY <1>1, <1>5, <2>2
    <3> QED BY <1>4, <1>5, <2>1, <2>2, <3>1
  <2>3. CASE m \in mem
    <3>1. bh2[Kid(u, m, side)] = bh[Kid(tree, m, side)]
      <4>1. CASE m = p /\ side = s
        <5>1. Kid(tree, m, side) = Nil /\ Kid(u, m, side) = n
              BY <1>1, <1>5, <2>3, <4>1
        <5> QED BY <1>2, <1>4, <5>1
      <4>2. CASE ~ (m = p /\ side = s)
        <5>1. Kid(u, m, side) = Kid(tree, m, side) /\ Kid(tree, m, side) \in mem \cup {Nil}
              BY <1>1, <1>5, <2>3, <4>2
        <5> QED BY <1>4, <5>1
      <4> QED BY <4>1, <4>2
    <3>2. bh2[m] = bh[m] /\ Hue(u, m) = Hue(tree, m)
          BY <1>4, <1>5, <2>3
    <3>3. /\ bh[Kid(tree, m, side)] \in Nat /\ bh[m] \in Nat
          /\ Hue(tree, m) => bh[m] = bh[Kid(tree, m, side)]
          /\ ~ Hue(tree, m) => bh[m] = bh[Kid(tree, m, side)] + 1
          BY <1>2, <2>3
    <3> QED BY <2>1, <3>1, <3>2, <3>3
  <2> QED BY <2>2, <2>3
<1>7. Bal(u, mem \cup {n}, bh2, Nil, "left")
      BY <1>4, <1>6 DEF Bal
<1>8. NoRedRed(u, mem \cup {n}, n)
  <2> SUFFICES ASSUME NEW m \in mem \cup {n}, NEW side \in Sides,
                      Hue(u, m), Red(u, Kid(u, m, side)), Kid(u, m, side) # n
               PROVE  FALSE
      BY DEF NoRedRed
  <2>1. Kid(u, m, side) = Kid(tree, m, side) /\ Kid(u, m, side) # Nil
        BY <1>5 DEF Red
  <2>2. m \in mem
        BY <2>1
  <2>3. Kid(tree, m, side) \in mem
        BY <1>1, <2>1, <2>2
  <2>4. Hue(tree, m) /\ Red(tree, Kid(tree, m, side))
        BY <1>5, <2>1, <2>2, <2>3 DEF Red
  <2> QED BY <2>1, <2>2, <2>4 DEF NoRedRed
<1>9. Red(u, u.root) => u.root = n
  <2>1. CASE p = Nil
        BY <1>5, <2>1
  <2>2. CASE p # Nil
    <3>1. u.root = tree.root /\ tree.root \in mem
          BY <1>5, <2>2 DEF Shape
    <3> QED BY <1>5, <3>1 DEF Red
  <2> QED BY <2>1, <2>2
<1> QED BY <1>5, <1>7, <1>8, <1>9 DEF Colours

(* A call adds a node and links it where its search ended.                 *)
LEMMA AddGoes ==
  ASSUME tree \in Trees, Ranked(tree), NEW mem, NEW node, NEW parent,
         Head_(tree, "idle", node, parent, mem),
         NEW n \in Nodes, n \notin mem, NEW at, at = Search(n), at.found = Nil
  PROVE  Goes(Link(n, at), "insert", n, at.parent, mem \cup {n})
<1>1. PICK pos, sub, bh : /\ Shape(tree, mem, sub, pos)
                          /\ Keyed => Sorted(mem, pos)
                          /\ LeftmostOf(tree, mem, pos)
                          /\ Colours(tree, "idle", node, parent, mem, bh)
      BY DEF Head_
<1>2. PICK idle : idle = "idle"
      OBVIOUS
<1>3. /\ IsFiniteSet(mem) /\ Loose(tree, idle, mem)
      /\ \A m \in Nodes \ mem, side \in Sides : Kid(tree, m, side) = Nil
      /\ mem \subseteq Nodes
      BY <1>1, <1>2 DEF Head_, Loose, Shape
<1>4. /\ Bal(tree, mem, bh, Nil, "left") /\ NoRedRed(tree, mem, Nil)
      /\ ~ Red(tree, tree.root)
      BY <1>1 DEF Colours
<1>5. PICK p, s, left : p = at.parent /\ s = at.side /\ left = at.leftmost
      OBVIOUS
<1>6. /\ p \in mem \cup {Nil} /\ s \in Sides /\ left \in BOOLEAN
      /\ IF p = Nil THEN tree.root = Nil /\ mem = {} /\ left
         ELSE /\ tree.root # Nil /\ Kid(tree, p, s) = Nil
              /\ Place(n, p, s, left, mem, mem, pos)
      BY <1>1, <1>3, <1>5, SearchPlace
<1>7. p \in Ptr /\ p # n /\ p \in (Nodes \ {n}) \cup {Nil} /\ n # Nil
      /\ \A side \in Sides : Kid(tree, n, side) = Nil
      BY <1>3, <1>6, NilIsNoNode DEF Ptr
<1>8. PICK u \in Trees : Leads(tree, Link(n, at), u) /\ Linked(u, n, p, s, left)
      BY <1>5, <1>6, <1>7, DoLink
<1>9. pos \in [Nodes -> Int]
      BY <1>1 DEF Shape
<1>10. PICK pos2 : NewPos(pos, pos2, n, p, s)
       BY <1>7, <1>9, NewPosExists
<1>11. PICK r : Ranks(r, tree)
       BY DEF Ranked
<1>12. PICK sub2 : Shape(u, mem \cup {n}, sub2, pos2)
  <2>1. IF p = Nil THEN tree.root = Nil ELSE tree.root # Nil /\ Kid(tree, p, s) = Nil
        BY <1>6
  <2> QED BY <1>1, <1>6, <1>7, <1>8, <1>10, <1>11, <2>1, LinkShape
<1>13. PICK bh2 : Colours(u, "insert", n, p, mem \cup {n}, bh2)
  <2>1. IF p = Nil THEN tree.root = Nil ELSE tree.root # Nil /\ Kid(tree, p, s) = Nil
        BY <1>6
  <2> QED BY <1>1, <1>4, <1>6, <1>7, <1>8, <2>1, LinkColours
<1>14. IsFiniteSet(mem \cup {n})
       BY <1>3, FS_AddElement
<1>15. Loose(u, "insert", mem \cup {n})
  <2>1. \A m \in Nodes \ (mem \cup {n}), side \in Sides : Kid(u, m, side) = Kid(tree, m, side)
    <3>1. p \notin Nodes \ (mem \cup {n})
          BY <1>6, NilIsNoNode
    <3> QED BY <1>8, <3>1 DEF Linked
  <2> QED BY <1>3, <2>1 DEF Loose
<1>16. /\ Keyed => Sorted(mem \cup {n}, pos2)
       /\ LeftmostOf(u, mem \cup {n}, pos2)
  <2>1. u.leftmost = IF left THEN n ELSE tree.leftmost
        BY <1>8 DEF Linked
  <2>2. CASE p = Nil
    <3>1. mem \cup {n} = {n} /\ left
          BY <1>6, <2>2
    <3>2. Sorted({n}, pos2)
      <4>1. pos2[n] \in Int
            BY <1>10 DEF NewPos
      <4> QED BY <4>1 DEF Sorted
    <3>3. LeftmostOf(u, {n}, pos2)
          BY <1>7, <2>1, <3>1 DEF LeftmostOf
    <3> QED BY <3>1, <3>2, <3>3
  <2>3. CASE p # Nil
    <3>1. p \in mem /\ Place(n, p, s, left, mem, mem, pos)
          BY <1>6, <2>3
    <3>2. Distinct(mem, pos)
          BY <1>1, <1>11, ShapeDistinct
    <3>3. LeftmostOf(u, mem \cup {n}, pos2)
          BY <1>1, <1>3, <1>6, <1>9, <1>10, <2>1, <3>1, <3>2, LinkLeftmost
    <3>4. Keyed => Sorted(mem \cup {n}, pos2)
          BY <1>1, <1>3, <1>6, <1>9, <1>10, <3>1, <3>2, LinkSorted
    <3> QED BY <3>3, <3>4
  <2> QED BY <2>2, <2>3
<1>17. Head_(u, "insert", n, p, mem \cup {n})
       BY <1>12, <1>13, <1>14, <1>15, <1>16 DEF Head_
<1> QED BY <1>5, <1>8, <1>17 DEF Goes

-----------------------------------------------------------------------------
(* Erase: a node with at most one child is bypassed.                       *)

Bypassed(t, u, n, c) ==
  /\ \A m \in Nodes, s \in Sides :
       Kid(u, m, s) = IF m = Up(t, n) /\ Kid(t, m, s) = n THEN c ELSE Kid(t, m, s)
  /\ \A m \in Nodes : /\ Up(u, m) = (IF m = c THEN Up(t, n) ELSE Up(t, m))
                      /\ Hue(u, m) = (IF m = c THEN Hue(t, n) ELSE Hue(t, m))
  /\ u.root = IF Up(t, n) = Nil THEN c ELSE t.root

Lone(t, n, side, c) ==
  side \in Sides /\ c = Kid(t, n, side) /\ Kid(t, n, Other(side)) = Nil

LEMMA BypassedKids ==
  ASSUME NEW t, NEW mem, NEW sub, NEW pos, Shape(t, mem, sub, pos),
         NEW n \in mem, NEW side, NEW c, Lone(t, n, side, c), NEW u, Bypassed(t, u, n, c)
  PROVE  /\ c \in (mem \ {n}) \cup {Nil} /\ c # n /\ n # Nil /\ (c # Nil => c # Up(t, n))
         /\ sub[n] = {n} \cup sub[c] /\ n \notin sub[c]
         /\ Up(t, n) \in (mem \ {n}) \cup {Nil}
         /\ Up(t, n) # Nil => \E s \in Sides : Kid(t, Up(t, n), s) = n
         /\ Up(t, n) = Nil <=> t.root = n
         /\ c # Nil => Up(t, c) = n
         /\ \A m \in mem \ {n}, s \in Sides :
              /\ c # Nil => Kid(t, m, s) # c
              /\ Kid(u, m, s) = IF Kid(t, m, s) = n THEN c ELSE Kid(t, m, s)
              /\ Kid(u, m, s) \in (mem \ {n}) \cup {Nil}
              /\ Kid(t, m, s) = n => m = Up(t, n)
         /\ u.root = IF t.root = n THEN c ELSE t.root
<1>1. /\ side \in Sides /\ c = Kid(t, n, side) /\ Kid(t, n, Other(side)) = Nil
      BY DEF Lone
<1>2. /\ mem \subseteq Nodes /\ Nil \notin Nodes /\ Nil \notin mem
      /\ sub[Nil] = {} /\ n \in Nodes /\ n # Nil
      /\ \A m \in mem, s \in Sides :
           /\ Kid(t, m, s) \in mem \cup {Nil}
           /\ Kid(t, m, s) # Nil => Up(t, Kid(t, m, s)) = m
      BY SubKids
<1>3. /\ c \in mem \cup {Nil} /\ c # n /\ n \notin sub[c] /\ Up(t, n) # n
      /\ Up(t, n) \in mem \cup {Nil}
      /\ c # Nil => Up(t, c) = n /\ c # Up(t, n)
      BY <1>1, Around
<1>4. sub[n] = {n} \cup sub[c]
  <2>1. sub[n] = {n} \cup sub[Kid(t, n, side)] \cup sub[Kid(t, n, Other(side))]
        BY <1>1, SubKids
  <2> QED BY <1>1, <1>2, <2>1
<1>5. /\ Up(t, n) # Nil => \E s \in Sides : Kid(t, Up(t, n), s) = n
      /\ Up(t, n) = Nil <=> t.root = n
  <2>1. LinksAt(t, mem, n) /\ (t.root # Nil => Up(t, t.root) = Nil)
        BY DEF Shape
  <2> QED BY <1>2, <2>1 DEF LinksAt
<1>6. ASSUME NEW m \in mem \ {n}, NEW s \in Sides
      PROVE  /\ Kid(t, m, s) # c \/ c = Nil
             /\ Kid(u, m, s) = IF Kid(t, m, s) = n THEN c ELSE Kid(t, m, s)
             /\ Kid(u, m, s) \in (mem \ {n}) \cup {Nil}
             /\ Kid(t, m, s) = n => m = Up(t, n)
  <2>1. Kid(t, m, s) = n => m = Up(t, n)
        BY <1>2
  <2>2. Kid(u, m, s) = IF Kid(t, m, s) = n THEN c ELSE Kid(t, m, s)
        BY <1>2, <2>1 DEF Bypassed
  <2>3. c # Nil => Kid(t, m, s) # c
        BY <1>2, <1>3
  <2> QED BY <1>2, <1>3, <2>1, <2>2, <2>3
<1>7. u.root = IF t.root = n THEN c ELSE t.root
      BY <1>5 DEF Bypassed
<1> QED BY <1>2, <1>3, <1>4, <1>5, <1>6, <1>7

LEMMA BypassShape ==
  ASSUME NEW t, NEW mem, NEW sub, NEW pos, Shape(t, mem, sub, pos),
         NEW n \in mem, NEW side, NEW c, Lone(t, n, side, c), NEW u, Bypassed(t, u, n, c)
  PROVE  \E sub2 : Shape(u, mem \ {n}, sub2, pos)
<1>1. /\ mem \subseteq Nodes /\ Nil \notin Nodes /\ Nil \notin mem
      /\ mem \subseteq Ptr /\ Nil \in Ptr /\ sub[Nil] = {}
      /\ pos \in [Nodes -> Int] /\ sub \in [Ptr -> SUBSET mem]
      BY SubKids
<1>a. /\ t.root \in mem \cup {Nil} /\ sub[t.root] = mem
      /\ t.root # Nil => Up(t, t.root) = Nil
      BY DEF Shape
<1>2. /\ c \in (mem \ {n}) \cup {Nil} /\ c # n /\ n # Nil
      /\ sub[n] = {n} \cup sub[c] /\ n \notin sub[c]
      /\ Up(t, n) \in (mem \ {n}) \cup {Nil}
      /\ Up(t, n) # Nil => \E s \in Sides : Kid(t, Up(t, n), s) = n
      /\ Up(t, n) = Nil <=> t.root = n
      /\ c # Nil => Up(t, c) = n
      /\ u.root = IF t.root = n THEN c ELSE t.root
      BY BypassedKids
<1>3. \A m \in mem \ {n}, s \in Sides :
        /\ c # Nil => Kid(t, m, s) # c
        /\ Kid(u, m, s) = IF Kid(t, m, s) = n THEN c ELSE Kid(t, m, s)
        /\ Kid(u, m, s) \in (mem \ {n}) \cup {Nil}
        /\ Kid(t, m, s) = n => m = Up(t, n)
      BY BypassedKids
<1>4. \A m \in mem : Up(u, m) = IF m = c THEN Up(t, n) ELSE Up(t, m)
      BY <1>1 DEF Bypassed
<1>5. PICK sub2 : sub2 = [m \in Ptr |-> sub[m] \ {n}]
      OBVIOUS
<1>6. sub2 \in [Ptr -> SUBSET (mem \ {n})] /\ \A m \in Ptr : sub2[m] = sub[m] \ {n}
      BY <1>1, <1>5
<1>7. /\ u.root \in (mem \ {n}) \cup {Nil} /\ sub2[u.root] = mem \ {n}
      /\ u.root # Nil => Up(u, u.root) = Nil
  <2>1. CASE t.root = n
    <3>1. c \in Ptr /\ mem = {n} \cup sub[c]
          BY <1>1, <1>a, <1>2, <2>1
    <3>2. sub2[c] = mem \ {n}
          BY <1>2, <1>6, <3>1
    <3> QED BY <1>1, <1>2, <1>4, <2>1, <3>2
  <2>2. CASE t.root # n
    <3>1. c # Nil => t.root # c
          BY <1>1, <1>a, <1>2
    <3> QED BY <1>1, <1>a, <1>2, <1>4, <1>6, <2>2, <3>1
  <2> QED BY <2>1, <2>2
<1>8. ASSUME NEW m \in mem \ {n} PROVE LinksAt(u, mem \ {n}, m)
  <2>1. ASSUME NEW s \in Sides, Kid(u, m, s) # Nil PROVE Up(u, Kid(u, m, s)) = m
    <3>1. CASE Kid(t, m, s) = n
      <4>1. Kid(u, m, s) = c /\ m = Up(t, n) /\ c \in mem
            BY <1>2, <1>3, <2>1, <3>1
      <4> QED BY <1>4, <4>1
    <3>2. CASE Kid(t, m, s) # n
      <4>1. Kid(u, m, s) = Kid(t, m, s) /\ Kid(u, m, s) \in mem /\ Kid(u, m, s) # c
            BY <1>3, <2>1, <3>2
      <4>2. Up(t, Kid(t, m, s)) = m
            BY <2>1, <4>1, SubKids
      <4> QED BY <1>4, <4>1, <4>2
    <3> QED BY <3>1, <3>2
  <2>2. IF Up(u, m) = Nil THEN u.root = m
        ELSE Up(u, m) \in mem \ {n} /\ \E s \in Sides : Kid(u, Up(u, m), s) = m
    <3>1. CASE m = c
      <4>1. Up(u, m) = Up(t, n)
            BY <1>4, <3>1
      <4>2. CASE Up(t, n) = Nil
            BY <1>2, <3>1, <4>1, <4>2
      <4>3. CASE Up(t, n) # Nil
        <5>1. PICK s \in Sides : Kid(t, Up(t, n), s) = n
              BY <1>2, <4>3
        <5> QED BY <1>2, <1>3, <3>1, <4>1, <4>3, <5>1
      <4> QED BY <4>2, <4>3
    <3>2. CASE m # c
      <4>1. Up(u, m) = Up(t, m)
            BY <1>4, <3>2
      <4>2. IF Up(t, m) = Nil THEN t.root = m
            ELSE Up(t, m) \in mem /\ \E s \in Sides : Kid(t, Up(t, m), s) = m
            BY DEF Shape, LinksAt
      <4>3. CASE Up(t, m) = Nil
            BY <1>2, <4>1, <4>2, <4>3
      <4>4. CASE Up(t, m) # Nil
        <5>1. PICK s \in Sides : Kid(t, Up(t, m), s) = m
              BY <4>2, <4>4
        <5>2. Up(t, m) # n
          <6> SUFFICES ASSUME Up(t, m) = n PROVE FALSE
              OBVIOUS
          <6>1. Kid(t, n, s) = m /\ m # Nil
                BY <1>1, <5>1
          <6>2. Kid(t, n, s) = c \/ Kid(t, n, s) = Nil
            <7>1. c = Kid(t, n, side) /\ Kid(t, n, Other(side)) = Nil /\ side \in Sides
                  BY DEF Lone
            <7> QED BY <7>1, OtherSide
          <6> QED BY <3>2, <6>1, <6>2
        <5> QED BY <1>3, <4>1, <4>2, <4>4, <5>1, <5>2
      <4> QED BY <4>3, <4>4
    <3> QED BY <3>1, <3>2
  <2> QED BY <1>3, <2>1, <2>2 DEF LinksAt
<1>9. ASSUME NEW m \in mem \ {n}, NEW s \in Sides
      PROVE  sub2[Kid(u, m, s)] = sub[Kid(t, m, s)] \ {n}
  <2>1. CASE Kid(t, m, s) = n
        BY <1>1, <1>2, <1>3, <1>6, <2>1
  <2>2. CASE Kid(t, m, s) # n
        BY <1>1, <1>3, <1>6, <2>2
  <2> QED BY <2>1, <2>2
<1>10. ASSUME NEW m \in mem \ {n} PROVE SplitAt(u, sub2, pos, m)
  <2>1. ASSUME NEW s \in Sides
        PROVE  /\ sub2[m] = {m} \cup sub2[Kid(u, m, s)] \cup sub2[Kid(u, m, Other(s))]
               /\ \A x \in sub2[Kid(u, m, s)] : Toward(pos, s, x, m)
    <3>1. PICK a, b : a = sub[Kid(t, m, s)] /\ b = sub[Kid(t, m, Other(s))]
          OBVIOUS
    <3>2. sub[m] = {m} \cup a \cup b /\ \A x \in a : Toward(pos, s, x, m)
          BY <3>1, SubKids
    <3>3. sub2[Kid(u, m, s)] = a \ {n} /\ sub2[Kid(u, m, Other(s))] = b \ {n}
          BY <1>9, <3>1, OtherSide
    <3>4. sub2[m] = sub[m] \ {n}
          BY <1>1, <1>6
    <3> QED BY <3>2, <3>3, <3>4
  <2> QED BY <2>1 DEF SplitAt
<1>11. \A m \in mem \ {n} : LinksAt(u, mem \ {n}, m) /\ SplitAt(u, sub2, pos, m)
       BY <1>8, <1>10
<1>12. /\ mem \ {n} \subseteq Nodes /\ pos \in [Nodes -> Int] /\ sub2[Nil] = {}
       BY <1>1, <1>6, SubKids
<1> QED BY <1>6, <1>7, <1>11, <1>12 DEF Shape

(* The only child of a node is red, and the node is black.                 *)
LEMMA LoneRed ==
  ASSUME NEW t, NEW mem, NEW sub, NEW pos, Shape(t, mem, sub, pos),
         NEW n \in mem, NEW side, NEW c, Lone(t, n, side, c),
         NEW bh, Bal(t, mem, bh, Nil, "left"), NoRedRed(t, mem, Nil)
  PROVE  /\ bh[c] = 0
         /\ c # Nil => /\ c \in mem /\ Hue(t, c) /\ ~ Hue(t, n) /\ bh[n] = 1
                       /\ \A s \in Sides : ~ Red(t, Kid(t, c, s))
<1>1. /\ side \in Sides /\ c = Kid(t, n, side) /\ Kid(t, n, Other(side)) = Nil
      /\ Other(side) \in Sides
      BY OtherSide DEF Lone
<1>2. /\ bh \in [Ptr -> Nat] /\ bh[Nil] = 0
      /\ \A m \in mem, s \in Sides :
              /\ Kid(t, m, s) \in mem \cup {Nil}
              /\ bh[Kid(t, m, s)] \in Nat /\ bh[m] \in Nat
              /\ Hue(t, m) => bh[m] = bh[Kid(t, m, s)]
              /\ ~ Hue(t, m) => bh[m] = bh[Kid(t, m, s)] + 1
      BY BalNone
<1>3. bh[c] = 0
  <2>1. /\ bh[c] \in Nat /\ bh[n] \in Nat
        /\ Hue(t, n) => bh[n] = bh[c] /\ bh[n] = 0
        /\ ~ Hue(t, n) => bh[n] = bh[c] + 1 /\ bh[n] = 0 + 1
        BY <1>1, <1>2
  <2> QED BY <2>1
<1>4. ASSUME c # Nil
      PROVE  /\ c \in mem /\ Hue(t, c) /\ ~ Hue(t, n) /\ bh[n] = 1
             /\ \A s \in Sides : ~ Red(t, Kid(t, c, s))
  <2>1. c \in mem
        BY <1>1, <1>2, <1>4
  <2>2. Hue(t, c)
    <3>1. ~ Hue(t, c) => bh[c] = bh[Kid(t, c, side)] + 1 /\ bh[Kid(t, c, side)] \in Nat
          BY <1>1, <1>2, <2>1
    <3> QED BY <1>3, <3>1
  <2>3. ~ Hue(t, n)
        BY <1>1, <1>4, <2>2 DEF NoRedRed, Red
  <2>4. bh[n] = 1
        BY <1>1, <1>2, <1>3, <2>3
  <2>5. \A s \in Sides : ~ Red(t, Kid(t, c, s))
        BY <2>1, <2>2 DEF NoRedRed, Red
  <2> QED BY <2>1, <2>2, <2>3, <2>4, <2>5
<1> QED BY <1>3, <1>4

LEMMA BypassRed ==
  ASSUME NEW t, NEW mem, NEW sub, NEW pos, Shape(t, mem, sub, pos),
         NEW n \in mem, NEW side, NEW c, Lone(t, n, side, c), NEW u, Bypassed(t, u, n, c),
         NEW bh, Bal(t, mem, bh, Nil, "left"), NoRedRed(t, mem, Nil), ~ Red(t, t.root)
  PROVE  NoRedRed(u, mem \ {n}, Nil) /\ ~ Red(u, u.root)
<1>1. /\ mem \subseteq Nodes /\ Nil \notin Nodes /\ Nil \notin mem
      /\ \A m \in mem, s \in Sides : Kid(t, m, s) \in mem \cup {Nil}
      BY SubKids
<1>2. t.root \in mem \cup {Nil}
      BY DEF Shape
<1>3. /\ c \in (mem \ {n}) \cup {Nil} /\ c # n
      /\ u.root = IF t.root = n THEN c ELSE t.root
      /\ \A m \in mem \ {n}, s \in Sides :
           Kid(u, m, s) = IF Kid(t, m, s) = n THEN c ELSE Kid(t, m, s)
      BY BypassedKids
<1>4. c # Nil => /\ c \in mem /\ ~ Hue(t, n)
                 /\ \A s \in Sides : ~ Red(t, Kid(t, c, s))
      BY LoneRed
<1>5. \A m \in mem : Hue(u, m) = IF m = c THEN Hue(t, n) ELSE Hue(t, m)
      BY <1>1 DEF Bypassed
<1>6. ~ Red(u, c)
      BY <1>4, <1>5 DEF Red
<1>7. \A m \in mem : Red(u, m) => Red(t, m)
      BY <1>5, <1>6 DEF Red
<1>8. ASSUME NEW m \in mem \ {n}, NEW s \in Sides, Hue(u, m), Red(u, Kid(u, m, s))
      PROVE  FALSE
  <2>1. m # c
        BY <1>1, <1>6, <1>8 DEF Red
  <2>2. Kid(u, m, s) # c /\ Kid(u, m, s) # Nil
        BY <1>6, <1>8 DEF Red
  <2>3. Kid(u, m, s) = Kid(t, m, s) /\ Kid(t, m, s) \in mem
        BY <1>1, <1>3, <2>2
  <2>4. Hue(t, m) /\ Red(t, Kid(t, m, s))
        BY <1>5, <1>7, <1>8, <2>1, <2>3
  <2> QED BY <2>2, <2>3, <2>4 DEF NoRedRed
<1>9. ~ Red(u, u.root)
  <2>1. CASE t.root = n
        BY <1>3, <1>6, <2>1
  <2>2. CASE t.root # n
    <3>1. u.root = t.root /\ (t.root # Nil => t.root \in mem)
          BY <1>2, <1>3, <2>2
    <3> QED BY <1>7, <3>1 DEF Red
  <2> QED BY <2>1, <2>2
<1> QED BY <1>8, <1>9 DEF NoRedRed

LEMMA BypassColours ==
  ASSUME NEW t, NEW mem, NEW sub, NEW pos, Shape(t, mem, sub, pos),
         NEW n \in mem, NEW side, NEW c, Lone(t, n, side, c), NEW u, Bypassed(t, u, n, c),
         NEW bh, Bal(t, mem, bh, Nil, "left"), NoRedRed(t, mem, Nil), ~ Red(t, t.root),
         NEW up, up = IF c = Nil /\ ~ Red(t, n) THEN Up(t, n) ELSE Nil,
         NEW pc, pc = IF up = Nil THEN "done" ELSE "erase"
  PROVE  \E bh2 : Colours(u, pc, Nil, up, mem \ {n}, bh2)
<1>1. /\ mem \subseteq Nodes /\ Nil \notin Nodes /\ Nil \notin mem
      /\ mem \subseteq Ptr /\ Nil \in Ptr /\ n # Nil
      /\ \A m \in mem, s \in Sides : Kid(t, m, s) \in mem \cup {Nil}
      BY SubKids
<1>2. /\ c \in (mem \ {n}) \cup {Nil} /\ c # n
      /\ Up(t, n) \in (mem \ {n}) \cup {Nil}
      /\ Up(t, n) # Nil => \E s \in Sides : Kid(t, Up(t, n), s) = n
      /\ \A m \in mem \ {n}, s \in Sides :
           /\ c # Nil => Kid(t, m, s) # c
           /\ Kid(u, m, s) = IF Kid(t, m, s) = n THEN c ELSE Kid(t, m, s)
           /\ Kid(u, m, s) \in (mem \ {n}) \cup {Nil}
           /\ Kid(t, m, s) = n => m = Up(t, n)
      BY BypassedKids
<1>3. /\ bh[c] = 0
      /\ c # Nil => c \in mem /\ Hue(t, c) /\ ~ Hue(t, n) /\ bh[n] = 1
      BY LoneRed
<1>4. /\ bh \in [Ptr -> Nat] /\ bh[Nil] = 0
      /\ \A m \in mem, s \in Sides :
              /\ bh[Kid(t, m, s)] \in Nat /\ bh[m] \in Nat
              /\ Hue(t, m) => bh[m] = bh[Kid(t, m, s)]
              /\ ~ Hue(t, m) => bh[m] = bh[Kid(t, m, s)] + 1
      BY BalNone
<1>5. \A m \in mem : Hue(u, m) = IF m = c THEN Hue(t, n) ELSE Hue(t, m)
      BY <1>1 DEF Bypassed
<1>6. NoRedRed(u, mem \ {n}, Nil) /\ ~ Red(u, u.root)
      BY BypassRed
<1>7. CASE c # Nil
  <2>1. PICK bh2 : bh2 = [bh EXCEPT ![c] = 1]
        OBVIOUS
  <2>2. /\ bh2 \in [Ptr -> Nat] /\ bh2[c] = 1
        /\ \A m \in Ptr \ {c} : bh2[m] = bh[m]
        BY <1>1, <1>3, <1>4, <1>7, <2>1
  <2>3. ASSUME NEW m \in mem \ {n}, NEW s \in Sides
        PROVE  bh2[m] = bh2[Kid(u, m, s)] + (IF m = Nil /\ s = "left" THEN 1 ELSE 0)
                          + (IF Hue(u, m) THEN 0 ELSE 1)
    <3>1. bh2[Kid(u, m, s)] = bh[Kid(t, m, s)]
      <4>1. CASE Kid(t, m, s) = n
            BY <1>2, <1>3, <1>7, <2>2, <4>1
      <4>2. CASE Kid(t, m, s) # n
        <5>1. Kid(u, m, s) = Kid(t, m, s) /\ Kid(u, m, s) # c /\ Kid(u, m, s) \in Ptr
              BY <1>1, <1>2, <1>7, <4>2
        <5> QED BY <2>2, <5>1
      <4> QED BY <4>1, <4>2
    <3>2. /\ bh[Kid(t, m, s)] \in Nat /\ bh[m] \in Nat
          /\ Hue(t, m) => bh[m] = bh[Kid(t, m, s)]
          /\ ~ Hue(t, m) => bh[m] = bh[Kid(t, m, s)] + 1
          BY <1>4
    <3>3. m # Nil
          BY <1>1
    <3>4. CASE m = c
      <4>1. ~ Hue(u, m) /\ Hue(t, m) /\ bh2[m] = 1 /\ bh[m] = 0
            BY <1>3, <1>5, <1>7, <2>2, <3>4
      <4> QED BY <3>1, <3>2, <3>3, <4>1
    <3>5. CASE m # c
      <4>1. Hue(u, m) = Hue(t, m) /\ bh2[m] = bh[m]
            BY <1>1, <1>5, <2>2, <3>5
      <4> QED BY <3>1, <3>2, <3>3, <4>1
    <3> QED BY <3>4, <3>5
  <2>4. bh2[Nil] = 0
        BY <1>1, <1>4, <1>7, <2>2
  <2>5. Bal(u, mem \ {n}, bh2, Nil, "left")
        BY <2>2, <2>3, <2>4 DEF Bal
  <2>6. up = Nil /\ pc = "done"
        BY <1>7
  <2> QED BY <1>6, <2>5, <2>6 DEF Colours
<1>8. CASE c = Nil
  <2>1. /\ Red(t, n) <=> Hue(t, n)
        /\ \A m \in mem \ {n} : Hue(u, m) = Hue(t, m)
        BY <1>1, <1>5, <1>8 DEF Red
  <2>2. ASSUME NEW m \in mem \ {n}, NEW s \in Sides
        PROVE  bh[m] = bh[Kid(u, m, s)]
                         + (IF Kid(t, m, s) = n /\ ~ Hue(t, n) THEN 1 ELSE 0)
                         + (IF Hue(u, m) THEN 0 ELSE 1)
    <3>1. /\ bh[Kid(t, m, s)] \in Nat /\ bh[m] \in Nat
          /\ Hue(t, m) => bh[m] = bh[Kid(t, m, s)]
          /\ ~ Hue(t, m) => bh[m] = bh[Kid(t, m, s)] + 1
          BY <1>4
    <3>2. Hue(u, m) = Hue(t, m)
          BY <2>1
    <3>3. CASE Kid(t, m, s) = n
      <4>1. Kid(u, m, s) = Nil /\ bh[Kid(u, m, s)] = 0
            BY <1>2, <1>4, <1>8, <3>3
      <4>2. bh[n] = IF Hue(t, n) THEN 0 ELSE 1
        <5>1. PICK z \in Sides : c = Kid(t, n, z)
              BY DEF Lone
        <5> QED BY <1>3, <1>4, <5>1
      <4> QED BY <3>1, <3>2, <3>3, <4>1, <4>2
    <3>4. CASE Kid(t, m, s) # n
      <4>1. Kid(u, m, s) = Kid(t, m, s)
            BY <1>2, <3>4
      <4> QED BY <3>1, <3>2, <3>4, <4>1
    <3> QED BY <3>3, <3>4
  <2>3. CASE up = Nil
    <3>1. \A m \in mem \ {n}, s \in Sides : ~ (Kid(t, m, s) = n /\ ~ Hue(t, n)) /\ m # Nil
          BY <1>1, <1>2, <1>8, <2>1, <2>3
    <3>2. Bal(u, mem \ {n}, bh, Nil, "left")
          BY <1>4, <2>2, <3>1 DEF Bal
    <3> QED BY <1>6, <2>3, <3>2 DEF Colours
  <2>4. CASE up # Nil
    <3>1. ~ Hue(t, n) /\ up = Up(t, n) /\ up \in mem \ {n} /\ pc = "erase"
          BY <1>2, <1>8, <2>1, <2>4
    <3>2. PICK z \in Sides : Kid(t, up, z) = n
          BY <1>2, <2>4, <3>1
    <3>3. \A m \in mem \ {n}, s \in Sides : Kid(t, m, s) = n <=> m = up /\ s = z
      <4>1. \A s \in Sides : Kid(t, up, s) = n => s = z
        <5>1. Kid(t, up, Other(z)) # n
              BY <1>1, <3>1, <3>2, Around
        <5> QED BY <3>2, <5>1, OtherSide
      <4> QED BY <1>2, <3>1, <3>2, <4>1
    <3>4. Bal(u, mem \ {n}, bh, up, z)
      <4>1. ASSUME NEW m \in mem \ {n}, NEW s \in Sides
            PROVE  bh[m] = bh[Kid(u, m, s)] + (IF m = up /\ s = z THEN 1 ELSE 0)
                             + (IF Hue(u, m) THEN 0 ELSE 1)
            BY <2>2, <3>1, <3>3
      <4> QED BY <1>4, <4>1 DEF Bal
    <3>5. Kid(u, up, z) = Nil /\ ~ Red(u, Nil)
          BY <1>2, <1>8, <3>1, <3>2 DEF Red
    <3> QED BY <1>6, <3>1, <3>4, <3>5 DEF Colours
  <2> QED BY <2>3, <2>4
<1> QED BY <1>7, <1>8

-----------------------------------------------------------------------------
(* The stores of an erasure without rebalancing.                           *)

(* The cached leftmost node moves on first.                                *)
LEMMA DoFirst ==
  ASSUME tree \in Trees, NEW r, Ranks(r, tree), NEW n \in Nodes,
         tree.leftmost = n => Next_(n) \in Ptr,
         NEW stores, stores = IF tree.leftmost = n
                              THEN <<[field |-> "leftmost", to |-> Next_(n)]>> ELSE <<>>
  PROVE  \E u \in Trees :
           /\ Leads(tree, stores, u) /\ Ranks(r, u)
           /\ SameKids(tree, u) /\ SameUp(tree, u) /\ u.root = tree.root
           /\ u.leftmost = IF tree.leftmost = n THEN Next_(n) ELSE tree.leftmost
<1>1. CASE tree.leftmost = n
  <2>1. PICK x : x = Next_(n)
        OBVIOUS
  <2>2. stores = <<[field |-> "leftmost", to |-> x]>> /\ x \in Ptr
        BY <1>1, <2>1
  <2>3. PICK u \in Trees : /\ Leads(tree, <<[field |-> "leftmost", to |-> x]>>, u)
                           /\ Ranks(r, u) /\ AnchorSet(tree, u, "leftmost", x)
        BY <2>2, DoAnchor
  <2> QED BY <1>1, <2>1, <2>2, <2>3 DEF AnchorSet
<1>2. CASE tree.leftmost # n
  <2>1. stores = <<>>
        BY <1>2
  <2>2. Leads(tree, <<>>, tree)
        BY LeadsNil, RanksRanked
  <2> QED BY <1>2, <2>1, <2>2 DEF SameKids, SameUp
<1> QED BY <1>1, <1>2

LEMMA LeftmostGone ==
  ASSUME tree \in Trees, NEW r, Ranks(r, tree), NEW k \in Nat, \A m \in Nodes : r[m] < k,
         NEW mem, NEW sub, NEW pos, Shape(tree, mem, sub, pos),
         LeftmostOf(tree, mem, pos), NEW n \in mem,
         NEW u, u.leftmost = IF tree.leftmost = n THEN Next_(n) ELSE tree.leftmost
  PROVE  LeftmostOf(u, mem \ {n}, pos)
<1>1. CASE tree.leftmost = n
  <2>1. /\ Next_(n) \in (mem \ {n}) \cup {Nil}
        /\ \A x \in mem \ {n} : Next_(n) # Nil /\ (x # Next_(n) => pos[Next_(n)] < pos[x])
        BY <1>1, NextOfLeftmost
  <2> QED BY <1>1, <2>1 DEF LeftmostOf
<1>2. CASE tree.leftmost # n
      BY <1>2 DEF LeftmostOf
<1> QED BY <1>1, <1>2

LEMMA SortedGone ==
  ASSUME NEW mem, NEW pos, NEW n, Keyed => Sorted(mem, pos)
  PROVE  Keyed => Sorted(mem \ {n}, pos)
BY DEF Sorted

(* The stores of Bypass, in either order.                                  *)
BypassStores(q, n, c) ==
  LET link == ChangeChild(n, c, Parent(n))
      paint == IfNode(c, SetParentColor(c, Parent(n), IsRed(n)))
  IN  q = link \o paint \/ q = paint \o link

LEMMA DoBypass ==
  ASSUME tree \in Trees, NEW r, Ranks(r, tree), NEW mem, NEW sub, NEW pos,
         Shape(tree, mem, sub, pos), NEW n \in mem, NEW side, NEW c, Lone(tree, n, side, c),
         NEW t0 \in Trees, Ranks(r, t0), SameKids(tree, t0), SameUp(tree, t0),
         t0.root = tree.root,
         NEW q, BypassStores(q, n, c)
  PROVE  \E u \in Trees :
           Leads(t0, q, u) /\ Bypassed(tree, u, n, c) /\ u.leftmost = t0.leftmost
<1> DEFINE p == Parent(n)
           gs == IF Child(p, "left") = n THEN "left" ELSE "right"
<1>1. /\ mem \subseteq Nodes /\ Nil \notin Nodes /\ n \in Nodes /\ mem \subseteq Ptr
      /\ Nil \in Ptr
      BY SubKids
<1>2. p = Up(tree, n) /\ IsRed(n) = Hue(tree, n) /\ IsRed(n) \in BOOLEAN
      BY <1>1, Reads, RedHue
<1>3. /\ c \in mem \cup {Nil} /\ c # n
      /\ c = Kid(tree, n, side) /\ side \in Sides /\ p \in mem \cup {Nil} /\ p # n
      /\ c # Nil => c # p
      BY <1>2, Around DEF Lone
<1>4. /\ p = Nil <=> tree.root = n
      /\ p # Nil => \E s \in Sides : Kid(tree, p, s) = n
      BY <1>2 DEF Shape, LinksAt
<1>5. c \in Ptr /\ p \in Ptr /\ gs \in Sides
      BY <1>1, <1>3 DEF Sides
<1>6. p # Nil /\ c # Nil => r[c] < r[p]
  <2> SUFFICES ASSUME p # Nil, c # Nil PROVE r[c] < r[p]
      OBVIOUS
  <2>1. PICK s \in Sides : Kid(tree, p, s) = n
        BY <1>4
  <2>2. r[c] < r[n] /\ r[n] < r[p] /\ r \in [Nodes -> Nat] /\ p \in Nodes /\ c \in Nodes
        BY <1>1, <1>3, <2>1 DEF Ranks
  <2>3. r[c] \in Nat /\ r[n] \in Nat /\ r[p] \in Nat
        BY <1>1, <2>2
  <2> QED BY <2>2, <2>3
<1>7. PICK b \in BOOLEAN : b = IsRed(n)
      BY <1>2
<1>8. PICK link, paint : /\ link = ChangeChild(n, c, p)
                         /\ paint = IfNode(c, SetParentColor(c, p, b))
                         /\ q = link \o paint \/ q = paint \o link
      BY <1>7, Zenon DEF BypassStores
<1> HIDE DEF p
(* What the link does, before or after the child is painted.               *)
<1>9. ASSUME NEW v, NEW w, SameKids(tree, v), v.root = tree.root, LinkSet(v, w, n, c, p)
      PROVE  /\ \A m \in Nodes, s \in Sides :
                  Kid(w, m, s) = IF m = p /\ Kid(tree, m, s) = n THEN c ELSE Kid(tree, m, s)
             /\ SameUp(v, w)
             /\ w.root = IF p = Nil THEN c ELSE tree.root
             /\ w.leftmost = v.leftmost
  <2>1. CASE p = Nil
    <3>1. AnchorSet(v, w, "root", c)
          BY <1>9, <2>1 DEF LinkSet
    <3> QED BY <1>1, <1>9, <2>1, <3>1 DEF AnchorSet, SameKids
  <2>2. CASE p # Nil
    <3>1. KidSet(v, w, p, gs, c)
          BY <1>9, <2>2 DEF LinkSet
    <3>2. \A s \in Sides : Kid(tree, p, s) = n <=> s = gs
      <4>1. PICK s \in Sides : Kid(tree, p, s) = n
            BY <1>4, <2>2
      <4>2. Kid(tree, p, Other(s)) # n
            BY <1>1, <1>3, <2>2, <4>1, Around
      <4>3. Child(p, "left") = Kid(tree, p, "left")
            BY Reads
      <4> QED BY <4>1, <4>2, <4>3 DEF Sides, Other
    <3>3. \A m \in Nodes, s \in Sides :
            Kid(w, m, s) = IF m = p /\ s = gs THEN c ELSE Kid(tree, m, s)
          BY <1>9, <3>1 DEF KidSet, SameKids
    <3>4. SameUp(v, w) /\ w.root = tree.root /\ w.leftmost = v.leftmost
          BY <1>9, <3>1 DEF KidSet, SameAnchors
    <3> HIDE DEF gs
    <3> QED BY <2>2, <3>2, <3>3, <3>4
  <2> QED BY <2>1, <2>2
<1>10. CASE q = link \o paint
  <2>1. PICK t1 \in Trees : /\ Leads(t0, link, t1)
                            /\ Ranks(r, t1) /\ LinkSet(t0, t1, n, c, p)
        BY <1>5, <1>6, <1>8, DoChange
  <2>2. PICK u \in Trees : /\ Leads(t1, paint, u)
                           /\ Ranks(r, u) /\ UpSet(t1, u, c, p, b)
        BY <1>5, <1>8, <2>1, DoUpIf
  <2>3. Leads(t0, q, u)
        BY <1>10, <2>1, <2>2, LeadsOn
  <2>4. /\ \A m \in Nodes, s \in Sides :
             Kid(t1, m, s) = IF m = p /\ Kid(tree, m, s) = n THEN c ELSE Kid(tree, m, s)
        /\ SameUp(t0, t1)
        /\ t1.root = IF p = Nil THEN c ELSE tree.root
        /\ t1.leftmost = t0.leftmost
        BY <1>9, <2>1
  <2>5. /\ \A m \in Nodes : /\ Up(u, m) = (IF m = c THEN p ELSE Up(tree, m))
                            /\ Hue(u, m) = (IF m = c THEN b ELSE Hue(tree, m))
        /\ SameKids(t1, u) /\ u.root = t1.root /\ u.leftmost = t1.leftmost
        BY <2>2, <2>4 DEF UpSet, SameUp, SameAnchors
  <2>6. \A m \in Nodes, s \in Sides : Kid(u, m, s) = Kid(t1, m, s)
        BY <2>5 DEF SameKids
  <2>7. Bypassed(tree, u, n, c) /\ u.leftmost = t0.leftmost
        BY <1>2, <1>7, <2>4, <2>5, <2>6 DEF Bypassed
  <2> QED BY <2>3, <2>7
<1>11. CASE q = paint \o link
  <2>1. PICK t1 \in Trees : /\ Leads(t0, paint, t1)
                            /\ Ranks(r, t1) /\ UpSet(t0, t1, c, p, b)
        BY <1>5, <1>7, <1>8, DoUpIf
  <2>2. PICK u \in Trees : /\ Leads(t1, link, u)
                           /\ Ranks(r, u) /\ LinkSet(t1, u, n, c, p)
        BY <1>5, <1>6, <1>8, <2>1, DoChange
  <2>3. Leads(t0, q, u)
        BY <1>11, <2>1, <2>2, LeadsOn
  <2>4. /\ \A m \in Nodes : /\ Up(t1, m) = (IF m = c THEN p ELSE Up(tree, m))
                            /\ Hue(t1, m) = (IF m = c THEN b ELSE Hue(tree, m))
        /\ SameKids(tree, t1) /\ t1.root = tree.root /\ t1.leftmost = t0.leftmost
        BY <2>1 DEF UpSet, SameUp, SameKids, SameAnchors
  <2>5. /\ \A m \in Nodes, s \in Sides :
             Kid(u, m, s) = IF m = p /\ Kid(tree, m, s) = n THEN c ELSE Kid(tree, m, s)
        /\ SameUp(t1, u)
        /\ u.root = IF p = Nil THEN c ELSE tree.root
        /\ u.leftmost = t1.leftmost
        BY <1>9, <2>2, <2>4
  <2>6. \A m \in Nodes : Up(u, m) = Up(t1, m) /\ Hue(u, m) = Hue(t1, m)
        BY <2>5 DEF SameUp
  <2>7. Bypassed(tree, u, n, c) /\ u.leftmost = t0.leftmost
        BY <1>2, <1>7, <2>4, <2>5, <2>6 DEF Bypassed
  <2> QED BY <2>3, <2>7
<1> QED BY <1>8, <1>10, <1>11

LEMMA LooseGone ==
  ASSUME NEW t, NEW u, NEW mem, NEW sub, NEW pos, Shape(t, mem, sub, pos),
         Loose(t, "idle", mem), NEW n \in mem,
         \A m \in (Nodes \ mem) \cup {n}, s \in Sides : Kid(u, m, s) = Kid(t, m, s),
         NEW pc, pc # "idle"
  PROVE  Loose(u, pc, mem \ {n})
<1>1. /\ mem \subseteq Nodes
      /\ \A s \in Sides : Kid(t, n, s) \in mem \cup {Nil} /\ Kid(t, n, s) # n
      BY SubKids, Around
<1>2. \A m \in Nodes \ mem, s \in Sides : Kid(t, m, s) = Nil
      BY DEF Loose
<1> QED BY <1>1, <1>2 DEF Loose

LEMMA BypassGoes ==
  ASSUME tree \in Trees, Ranked(tree), NEW mem, NEW node, NEW parent,
         Head_(tree, "idle", node, parent, mem), NEW n \in mem,
         Nil \in {Child(n, "left"), Child(n, "right")},
         NEW first, first = IF tree.leftmost = n
                            THEN <<[field |-> "leftmost", to |-> Next_(n)]>> ELSE <<>>,
         NEW up, up = Bypass(n).rebalance,
         NEW pc, pc = IF up = Nil THEN "done" ELSE "erase"
  PROVE  Goes(first \o Bypass(n).stores, pc, Nil, up, mem \ {n})
<1>1. PICK pos, sub, bh : /\ Shape(tree, mem, sub, pos)
                          /\ Keyed => Sorted(mem, pos)
                          /\ LeftmostOf(tree, mem, pos)
                          /\ Colours(tree, "idle", node, parent, mem, bh)
      BY DEF Head_
<1>2. IsFiniteSet(mem) /\ Loose(tree, "idle", mem)
      BY DEF Head_
<1>3. /\ Bal(tree, mem, bh, Nil, "left") /\ NoRedRed(tree, mem, Nil)
      /\ ~ Red(tree, tree.root)
      BY <1>1 DEF Colours
<1>4. PICK side, c : /\ Lone(tree, n, side, c)
                     /\ c = IF Child(n, "left") = Nil THEN Child(n, "right")
                            ELSE Child(n, "left")
  <2>1. Child(n, "left") = Kid(tree, n, "left") /\ Child(n, "right") = Kid(tree, n, "right")
        BY Reads
  <2>2. CASE Kid(tree, n, "left") = Nil
    <3>1. Lone(tree, n, "right", Kid(tree, n, "right"))
          BY <2>2 DEF Lone, Sides, Other
    <3> QED BY <2>1, <2>2, <3>1
  <2>3. CASE Kid(tree, n, "left") # Nil
    <3>1. Lone(tree, n, "left", Kid(tree, n, "left"))
          BY <2>1, <2>3 DEF Lone, Sides, Other
    <3> QED BY <2>1, <2>3, <3>1
  <2> QED BY <2>2, <2>3
<1>5. PICK q : q = Bypass(n).stores
      OBVIOUS
<1>6. BypassStores(q, n, c)
  <2> DEFINE link == ChangeChild(n, c, Parent(n))
             paint == IfNode(c, SetParentColor(c, Parent(n), IsRed(n)))
  <2>1. q = IF Child(n, "left") = Nil THEN link \o paint ELSE paint \o link
        BY <1>4, <1>5, Zenon DEF Bypass
  <2> QED BY <2>1, Zenon DEF BypassStores
<1>7. up = IF c = Nil /\ ~ Red(tree, n) THEN Up(tree, n) ELSE Nil
  <2>1. up = IF c = Nil /\ ~ IsRed(n) THEN Parent(n) ELSE Nil
        BY <1>4, Zenon DEF Bypass
  <2> QED BY <2>1, Reads
<1>8. PICK r, k : Ranks(r, tree) /\ k \in Nat /\ \A m \in Nodes : r[m] < k
      BY <1>1, <1>2, BoundedRank
<1>9. /\ mem \subseteq Nodes /\ n \in Nodes /\ Nil \in Ptr /\ mem \subseteq Ptr
      BY <1>1, SubKids
<1>10. tree.leftmost = n => Next_(n) \in Ptr
  <2> SUFFICES ASSUME tree.leftmost = n PROVE Next_(n) \in Ptr
      OBVIOUS
  <2>1. Next_(n) \in (mem \ {n}) \cup {Nil}
        BY <1>1, <1>8, NextOfLeftmost
  <2> QED BY <1>9, <2>1
<1>11. PICK t0 \in Trees :
         /\ Leads(tree, first, t0) /\ Ranks(r, t0)
         /\ SameKids(tree, t0) /\ SameUp(tree, t0) /\ t0.root = tree.root
         /\ t0.leftmost = IF tree.leftmost = n THEN Next_(n) ELSE tree.leftmost
       BY <1>8, <1>9, <1>10, DoFirst
<1>12. PICK u \in Trees : /\ Leads(t0, q, u)
                          /\ Bypassed(tree, u, n, c) /\ u.leftmost = t0.leftmost
  <2>1. /\ Ranks(r, tree) /\ Shape(tree, mem, sub, pos) /\ Lone(tree, n, side, c)
        /\ Ranks(r, t0) /\ SameKids(tree, t0) /\ SameUp(tree, t0) /\ t0.root = tree.root
        BY <1>1, <1>4, <1>8, <1>11
  <2> QED BY <1>6, <2>1, DoBypass
<1>13. PICK sub2 : Shape(u, mem \ {n}, sub2, pos)
       BY <1>1, <1>4, <1>12, BypassShape
<1>14. PICK bh2 : Colours(u, pc, Nil, up, mem \ {n}, bh2)
  <2>1. PICK x : x = up
        OBVIOUS
  <2>2. x = IF c = Nil /\ ~ Red(tree, n) THEN Up(tree, n) ELSE Nil
        BY <1>7, <2>1
  <2>3. PICK z : z = IF x = Nil THEN "done" ELSE "erase"
        OBVIOUS
  <2>4. \E bh2 : Colours(u, z, Nil, x, mem \ {n}, bh2)
    <3> HIDE <2>1
    <3>1. \A y, w : /\ y = (IF c = Nil /\ ~ Red(tree, n) THEN Up(tree, n) ELSE Nil)
                   /\ w = (IF y = Nil THEN "done" ELSE "erase")
                   => \E bh2 : Colours(u, w, Nil, y, mem \ {n}, bh2)
          BY <1>1, <1>3, <1>4, <1>12, BypassColours, Zenon
    <3> QED BY <2>2, <2>3, <3>1, Zenon
  <2> QED BY <2>1, <2>3, <2>4
<1>15. LeftmostOf(u, mem \ {n}, pos)
  <2>1. u.leftmost = IF tree.leftmost = n THEN Next_(n) ELSE tree.leftmost
        BY <1>11, <1>12
  <2> QED BY <1>1, <1>8, <2>1, LeftmostGone
<1>16. Loose(u, pc, mem \ {n})
  <2>1. Up(tree, n) \in mem \cup {Nil} /\ Up(tree, n) # n
        BY <1>1, SubKids, Around DEF Sides
  <2>2. \A m \in (Nodes \ mem) \cup {n}, s \in Sides : Kid(u, m, s) = Kid(tree, m, s)
    <3>1. \A m \in (Nodes \ mem) \cup {n} : m \in Nodes /\ m # Up(tree, n)
          BY <1>9, <2>1, NilIsNoNode
    <3> QED BY <1>12, <3>1 DEF Bypassed
  <2>3. pc # "idle"
        OBVIOUS
  <2> QED BY <1>1, <1>2, <2>2, <2>3, LooseGone
<1>17. IsFiniteSet(mem \ {n}) /\ (Keyed => Sorted(mem \ {n}, pos))
       BY <1>1, <1>2, SortedGone, FS_RemoveElement
<1>18. Head_(u, pc, Nil, up, mem \ {n})
       BY <1>13, <1>14, <1>15, <1>16, <1>17 DEF Head_
<1>19. Leads(tree, first \o q, u)
       BY <1>11, <1>12, LeadsOn
<1> QED BY <1>5, <1>18, <1>19 DEF Goes

-----------------------------------------------------------------------------
(* Erase: one node takes the place of another that is beside it in the     *)
(* order.                                                                  *)

Ren(a, b, x) == IF x = a THEN b ELSE x

Renamed(t, u, mem, a, b) ==
  /\ \A m \in mem, s \in Sides : Kid(u, Ren(a, b, m), s) = Ren(a, b, Kid(t, m, s))
  /\ \A m \in mem : /\ Up(u, Ren(a, b, m)) = Ren(a, b, Up(t, m))
                    /\ Hue(u, Ren(a, b, m)) = Hue(t, m)
  /\ u.root = Ren(a, b, t.root)

RenIn(a, b, mem, mem2) ==
  /\ \A x \in mem : Ren(a, b, x) \in mem2 /\ Ren(a, b, x) # Nil
  /\ Ren(a, b, Nil) = Nil
  /\ \A x, y \in mem \cup {Nil} : Ren(a, b, x) = Ren(a, b, y) <=> x = y
  /\ \A y \in mem2 : \E x \in mem : y = Ren(a, b, x)

LEMMA RenIs ==
  ASSUME NEW mem, mem \subseteq Nodes, NEW a \in mem, NEW b \in Nodes, b \notin mem
  PROVE  RenIn(a, b, mem, (mem \ {a}) \cup {b})
<1>1. Nil \notin mem /\ b # Nil /\ a # Nil
      BY NilIsNoNode
<1>2. \A y \in (mem \ {a}) \cup {b} : \E x \in mem : y = Ren(a, b, x)
  <2> SUFFICES ASSUME NEW y \in (mem \ {a}) \cup {b}
               PROVE  \E x \in mem : y = Ren(a, b, x)
      OBVIOUS
  <2>1. CASE y = b
        BY <2>1 DEF Ren
  <2>2. CASE y # b
        BY <2>2 DEF Ren
  <2> QED BY <2>1, <2>2
<1>3. /\ \A x \in mem : Ren(a, b, x) \in (mem \ {a}) \cup {b} /\ Ren(a, b, x) # Nil
      /\ Ren(a, b, Nil) = Nil
      /\ \A x, y \in mem \cup {Nil} : Ren(a, b, x) = Ren(a, b, y) <=> x = y
      BY <1>1 DEF Ren
<1> QED BY <1>2, <1>3 DEF RenIn

LEMMA RenameShape ==
  ASSUME NEW t, NEW mem, NEW sub, NEW pos, Shape(t, mem, sub, pos),
         NEW a \in mem, NEW b \in Nodes, b \notin mem,
         \A x \in mem \ {a}, s \in Sides : Toward(pos, s, x, b) <=> Toward(pos, s, x, a),
         NEW u, Renamed(t, u, mem, a, b)
  PROVE  \E sub2 : Shape(u, (mem \ {a}) \cup {b}, sub2, pos)
<1> DEFINE ren(x) == Ren(a, b, x)
           mem2 == (mem \ {a}) \cup {b}
<1>1. /\ mem \subseteq Nodes /\ Nil \notin mem /\ mem \subseteq Ptr /\ Nil \in Ptr
      /\ sub[Nil] = {} /\ pos \in [Nodes -> Int] /\ sub \in [Ptr -> SUBSET mem]
      BY SubKids
<1>2. /\ \A x \in mem : ren(x) \in mem2 /\ ren(x) # Nil
      /\ ren(Nil) = Nil
      /\ \A x, y \in mem \cup {Nil} : ren(x) = ren(y) <=> x = y
      /\ \A y \in mem2 : \E x \in mem : y = ren(x)
  <2>1. RenIn(a, b, mem, mem2)
        BY <1>1, RenIs
  <2> QED BY <2>1 DEF RenIn
<1>3. /\ \A m \in mem, s \in Sides : Kid(u, ren(m), s) = ren(Kid(t, m, s))
      /\ \A m \in mem : Up(u, ren(m)) = ren(Up(t, m))
      /\ u.root = ren(t.root)
      BY DEF Renamed
<1>4. /\ t.root \in mem \cup {Nil} /\ sub[t.root] = mem
      /\ t.root # Nil => Up(t, t.root) = Nil
      BY DEF Shape
<1>5. PICK sub2 : sub2 = [m \in Ptr |-> IF m = b THEN {ren(x) : x \in sub[a]}
                                        ELSE {ren(x) : x \in sub[m]}]
      OBVIOUS
<1>6. /\ sub2 \in [Ptr -> SUBSET mem2]
      /\ \A m \in mem \cup {Nil} : sub2[ren(m)] = {ren(x) : x \in sub[m]}
  <2>1. \A X \in SUBSET mem : {ren(x) : x \in X} \in SUBSET mem2
        BY <1>2
  <2>2. \A m \in Ptr : sub[m] \in SUBSET mem
        BY <1>1
  <2>3. a \in Ptr
        BY <1>1
  <2>4. sub2 \in [Ptr -> SUBSET mem2]
    <3> HIDE DEF ren, mem2
    <3> QED BY <1>5, <2>1, <2>2, <2>3
  <2>5. ASSUME NEW m \in mem \cup {Nil} PROVE sub2[ren(m)] = {ren(x) : x \in sub[m]}
    <3>1. m # b /\ b \in Ptr
          BY NilIsNoNode DEF Ptr
    <3>2. CASE m = a
      <4>1. ren(m) = b
            BY <3>2 DEF Ren
      <4> HIDE DEF ren
      <4> QED BY <1>5, <3>1, <3>2, <4>1
    <3>3. CASE m # a
      <4>1. ren(m) = m /\ m \in Ptr
            BY <1>1, <3>3 DEF Ren
      <4> HIDE DEF ren
      <4> QED BY <1>5, <3>1, <3>3, <4>1
    <3> QED BY <3>2, <3>3
  <2> QED BY <2>4, <2>5
<1>7. \A x, m \in mem, s \in Sides :
        Toward(pos, s, x, m) => Toward(pos, s, ren(x), ren(m))
  <2> SUFFICES ASSUME NEW x \in mem, NEW m \in mem, NEW s \in Sides, Toward(pos, s, x, m)
               PROVE  Toward(pos, s, ren(x), ren(m))
      OBVIOUS
  <2>1. x # m /\ x \in Nodes /\ m \in Nodes /\ a \in Nodes /\ Other(s) \in Sides
    <3>1. x \in Nodes /\ m \in Nodes /\ a \in Nodes
          BY <1>1
    <3> QED BY <1>1, <3>1, TowardOrder, OtherSide
  <2>2. CASE x # a /\ m # a
        BY <2>2 DEF Ren
  <2>3. CASE x # a /\ m = a
        BY <2>3 DEF Ren
  <2>4. CASE x = a
    <3>1. Toward(pos, Other(s), m, a)
          BY <1>1, <2>1, <2>4, TowardOrder
    <3>2. Toward(pos, Other(s), m, b)
          BY <2>1, <2>4, <3>1
    <3>3. Toward(pos, s, b, m)
          BY <1>1, <2>1, <3>2, TowardOrder
    <3> QED BY <2>1, <2>4, <3>3 DEF Ren
  <2> QED BY <2>2, <2>3, <2>4
<1> HIDE DEF ren
<1>8. \A m \in mem, s \in Sides :
        /\ Kid(t, m, s) \in mem \cup {Nil}
        /\ Kid(t, m, s) # Nil => Up(t, Kid(t, m, s)) = m
        /\ sub[m] = {m} \cup sub[Kid(t, m, s)] \cup sub[Kid(t, m, Other(s))]
        /\ \A x \in sub[Kid(t, m, s)] : Toward(pos, s, x, m)
      BY SubKids
<1>9. ASSUME NEW m \in mem PROVE LinksAt(u, mem2, ren(m))
  <2>1. \A s \in Sides :
          /\ Kid(u, ren(m), s) \in mem2 \cup {Nil}
          /\ Kid(u, ren(m), s) # Nil => Up(u, Kid(u, ren(m), s)) = ren(m)
        BY <1>2, <1>3, <1>8
  <2>2. IF Up(t, m) = Nil THEN t.root = m
        ELSE Up(t, m) \in mem /\ \E s \in Sides : Kid(t, Up(t, m), s) = m
        BY DEF Shape, LinksAt
  <2>3. CASE Up(t, m) = Nil
    <3>1. Up(u, ren(m)) = Nil /\ u.root = ren(m)
          BY <1>2, <1>3, <2>2, <2>3
    <3> QED BY <2>1, <3>1 DEF LinksAt
  <2>4. CASE Up(t, m) # Nil
    <3>1. PICK s \in Sides : Up(t, m) \in mem /\ Kid(t, Up(t, m), s) = m
          BY <2>2, <2>4
    <3>2. /\ Up(u, ren(m)) = ren(Up(t, m)) /\ Up(u, ren(m)) \in mem2
          /\ Up(u, ren(m)) # Nil /\ Kid(u, Up(u, ren(m)), s) = ren(m)
          BY <1>2, <1>3, <3>1
    <3> QED BY <2>1, <3>2 DEF LinksAt
  <2> QED BY <2>3, <2>4
<1>10. ASSUME NEW m \in mem PROVE SplitAt(u, sub2, pos, ren(m))
  <2> SUFFICES ASSUME NEW s \in Sides
               PROVE  /\ sub2[ren(m)] = {ren(m)} \cup sub2[Kid(u, ren(m), s)]
                                          \cup sub2[Kid(u, ren(m), Other(s))]
                      /\ \A x \in sub2[Kid(u, ren(m), s)] : Toward(pos, s, x, ren(m))
      BY DEF SplitAt
  <2>1. PICK A, B : A = sub[Kid(t, m, s)] /\ B = sub[Kid(t, m, Other(s))]
        OBVIOUS
  <2>2. /\ sub[m] = {m} \cup A \cup B /\ \A x \in A : Toward(pos, s, x, m)
        /\ A \subseteq mem
        BY <1>1, <1>8, <2>1
  <2>3. /\ sub2[Kid(u, ren(m), s)] = {ren(x) : x \in A}
        /\ sub2[Kid(u, ren(m), Other(s))] = {ren(x) : x \in B}
        BY <1>3, <1>6, <1>8, <2>1, OtherSide
  <2>4. sub2[ren(m)] = {ren(x) : x \in sub[m]}
        BY <1>6
  <2>5. {ren(x) : x \in {m} \cup A \cup B}
          = {ren(m)} \cup {ren(x) : x \in A} \cup {ren(x) : x \in B}
        OBVIOUS
  <2>6. \A x \in {ren(y) : y \in A} : Toward(pos, s, x, ren(m))
        BY <1>7, <2>2
  <2> QED BY <2>2, <2>3, <2>4, <2>5, <2>6
<1>11. /\ u.root \in mem2 \cup {Nil} /\ sub2[u.root] = mem2
       /\ u.root # Nil => Up(u, u.root) = Nil
  <2>1. {ren(x) : x \in mem} = mem2
        BY <1>2
  <2>2. sub2[u.root] = mem2
        BY <1>3, <1>4, <1>6, <2>1
  <2>3. u.root \in mem2 \cup {Nil} /\ (u.root # Nil => Up(u, u.root) = Nil)
        BY <1>2, <1>3, <1>4
  <2> QED BY <2>2, <2>3
<1>12. mem2 \subseteq Nodes /\ sub2[Nil] = {}
       BY <1>1, <1>2, <1>6
<1>13. \A m \in mem2 : LinksAt(u, mem2, m) /\ SplitAt(u, sub2, pos, m)
  <2> HIDE DEF mem2
  <2> QED BY <1>2, <1>9, <1>10
<1> QED BY <1>1, <1>6, <1>11, <1>12, <1>13 DEF Shape

LEMMA RenameColours ==
  ASSUME NEW t, NEW mem, NEW sub, NEW pos, Shape(t, mem, sub, pos),
         NEW a \in mem, NEW b \in Nodes, b \notin mem,
         NEW u, Renamed(t, u, mem, a, b),
         NEW pc \in {"done", "erase"}, NEW up \in mem \cup {Nil}, NEW bh,
         Colours(t, pc, Nil, up, mem, bh)
  PROVE  \E bh2 : Colours(u, pc, Nil, Ren(a, b, up), (mem \ {a}) \cup {b}, bh2)
<1> DEFINE ren(x) == Ren(a, b, x)
           mem2 == (mem \ {a}) \cup {b}
<1>1. /\ mem \subseteq Nodes /\ Nil \notin mem /\ mem \subseteq Ptr /\ Nil \in Ptr
      /\ \A m \in mem, s \in Sides : Kid(t, m, s) \in mem \cup {Nil}
      BY SubKids
<1>2. /\ \A x \in mem : ren(x) \in mem2 /\ ren(x) # Nil
      /\ ren(Nil) = Nil
      /\ \A x, y \in mem \cup {Nil} : ren(x) = ren(y) <=> x = y
      /\ \A y \in mem2 : \E x \in mem : y = ren(x)
  <2>1. RenIn(a, b, mem, mem2)
        BY <1>1, RenIs
  <2> QED BY <2>1 DEF RenIn
<1>3. /\ \A m \in mem, s \in Sides : Kid(u, ren(m), s) = ren(Kid(t, m, s))
      /\ \A m \in mem : Hue(u, ren(m)) = Hue(t, m)
      /\ u.root = ren(t.root) /\ t.root \in mem \cup {Nil}
      BY DEF Renamed, Shape
<1>4. PICK side \in Sides : Bal(t, mem, bh, IF pc = "done" THEN Nil ELSE up, side)
      BY DEF Colours, Sides
<1>5. PICK q : q = IF pc = "done" THEN Nil ELSE up
      OBVIOUS
<1>6. /\ bh \in [Ptr -> Nat] /\ bh[Nil] = 0 /\ q \in mem \cup {Nil}
      /\ \A n \in mem, s \in Sides :
           bh[n] = bh[Kid(t, n, s)] + (IF n = q /\ s = side THEN 1 ELSE 0)
                     + (IF Hue(t, n) THEN 0 ELSE 1)
      BY <1>4, <1>5 DEF Bal
<1>7. PICK bh2 : bh2 = [bh EXCEPT ![b] = bh[a]]
      OBVIOUS
<1>8. bh2 \in [Ptr -> Nat] /\ \A m \in mem \cup {Nil} : bh2[ren(m)] = bh[m]
  <2>1. b \in Ptr /\ a \in Ptr /\ b # Nil
        BY <1>1, NilIsNoNode DEF Ptr
  <2>2. bh2 \in [Ptr -> Nat] /\ bh2[b] = bh[a] /\ \A m \in Ptr \ {b} : bh2[m] = bh[m]
        BY <1>6, <1>7, <2>1
  <2>3. ASSUME NEW m \in mem \cup {Nil} PROVE bh2[ren(m)] = bh[m]
    <3>1. CASE m = a
          BY <2>2, <3>1 DEF Ren
    <3>2. CASE m # a
          BY <1>1, <2>1, <2>2, <3>2 DEF Ren
    <3> QED BY <3>1, <3>2
  <2> QED BY <2>2, <2>3
<1> HIDE DEF ren
<1>9. Bal(u, mem2, bh2, ren(q), side)
  <2>1. ASSUME NEW m \in mem, NEW s \in Sides
        PROVE  bh2[ren(m)] = bh2[Kid(u, ren(m), s)]
                               + (IF ren(m) = ren(q) /\ s = side THEN 1 ELSE 0)
                               + (IF Hue(u, ren(m)) THEN 0 ELSE 1)
    <3>1. bh2[Kid(u, ren(m), s)] = bh[Kid(t, m, s)] /\ bh2[ren(m)] = bh[m]
          BY <1>1, <1>3, <1>8
    <3>2. (ren(m) = ren(q) <=> m = q) /\ (Hue(u, ren(m)) <=> Hue(t, m))
          BY <1>2, <1>3, <1>6
    <3>3. bh[m] = bh[Kid(t, m, s)] + (IF m = q /\ s = side THEN 1 ELSE 0)
                     + (IF Hue(t, m) THEN 0 ELSE 1)
          BY <1>6
    <3> QED BY <3>1, <3>2, <3>3
  <2>2. \A n \in mem2, s \in Sides :
          bh2[n] = bh2[Kid(u, n, s)] + (IF n = ren(q) /\ s = side THEN 1 ELSE 0)
                     + (IF Hue(u, n) THEN 0 ELSE 1)
    <3> HIDE DEF mem2
    <3> QED BY <1>2, <2>1
  <2>3. bh2[Nil] = 0
        BY <1>2, <1>6, <1>8
  <2> QED BY <1>8, <2>2, <2>3 DEF Bal
<1>10. \A k \in mem \cup {Nil} : Red(u, ren(k)) <=> Red(t, k)
       BY <1>1, <1>2, <1>3 DEF Red
<1>11. NoRedRed(t, mem, Nil) /\ ~ Red(t, t.root)
       BY DEF Colours
<1>12. NoRedRed(u, mem2, Nil)
  <2>1. ASSUME NEW m \in mem, NEW s \in Sides
        PROVE  ~ (Hue(u, ren(m)) /\ Red(u, Kid(u, ren(m), s)))
    <3>1. Hue(u, ren(m)) <=> Hue(t, m)
          BY <1>3
    <3>2. Red(u, Kid(u, ren(m), s)) <=> Red(t, Kid(t, m, s))
          BY <1>1, <1>3, <1>10
    <3>3. ~ (Hue(t, m) /\ Red(t, Kid(t, m, s)))
          BY <1>11 DEF NoRedRed, Red
    <3> QED BY <3>1, <3>2, <3>3
  <2> HIDE DEF mem2
  <2> QED BY <1>2, <2>1 DEF NoRedRed
<1>13. ~ Red(u, u.root)
       BY <1>3, <1>10, <1>11
<1>14. CASE pc = "done"
  <2>1. q = Nil /\ ren(q) = Nil
        BY <1>2, <1>5, <1>14
  <2>2. Bal(u, mem2, bh2, Nil, "left")
        BY <1>1, <1>9, <2>1, NilIsNoNode DEF Bal
  <2> QED BY <1>12, <1>13, <1>14, <2>2 DEF Colours
<1>15. CASE pc = "erase"
  <2>1. q = up /\ up \in mem
        BY <1>5, <1>15 DEF Colours
  <2>2. PICK z \in Sides : Bal(t, mem, bh, up, z) /\ Kid(t, up, z) = Nil
        BY <1>15 DEF Colours
  <2>3. z = side
    <3>1. bh[up] = bh[Kid(t, up, z)] + (IF up = up /\ z = z THEN 1 ELSE 0)
                     + (IF Hue(t, up) THEN 0 ELSE 1)
          BY <2>1, <2>2 DEF Bal
    <3>2. bh[up] = bh[Kid(t, up, z)] + (IF up = q /\ z = side THEN 1 ELSE 0)
                     + (IF Hue(t, up) THEN 0 ELSE 1)
          BY <1>6, <2>1
    <3>3. bh[up] \in Nat /\ bh[Kid(t, up, z)] \in Nat
          BY <1>1, <1>6, <2>1
    <3> QED BY <2>1, <3>1, <3>2, <3>3
  <2>4. Kid(u, ren(up), side) = Nil /\ ren(up) \in mem2 /\ ~ Red(u, Nil)
        BY <1>2, <1>3, <2>1, <2>2, <2>3 DEF Red
  <2>5. Bal(u, mem2, bh2, ren(up), side)
        BY <1>9, <2>1
  <2> QED BY <1>12, <1>13, <1>15, <2>4, <2>5 DEF Colours, ren
<1> QED BY <1>14, <1>15

-----------------------------------------------------------------------------
(* Erase: the successor of a node with two children.                       *)

Follows(n, S, L, R, P, p0, c) ==
  /\ L = Kid(tree, n, "left") /\ R = Kid(tree, n, "right")
  /\ S = Outermost(R, "left") /\ c = Kid(tree, S, "right")
  /\ P = Up(tree, S) /\ p0 = Up(tree, n)

LEMMA SuccessorIs ==
  ASSUME tree \in Trees, NEW r, Ranks(r, tree), NEW k \in Nat, \A m \in Nodes : r[m] < k,
         NEW mem, NEW sub, NEW pos, Shape(tree, mem, sub, pos),
         NEW n \in mem, Kid(tree, n, "left") # Nil, Kid(tree, n, "right") # Nil,
         NEW S, NEW L, NEW R, NEW P, NEW p0, NEW c, Follows(n, S, L, R, P, p0, c)
  PROVE  /\ {L, R, S, P} \subseteq mem /\ {c, p0} \subseteq mem \cup {Nil} /\ S \in sub[n]
         /\ Lone(tree, S, "right", c) /\ Kid(tree, S, "left") = Nil
         /\ n \notin {L, R, S, c, p0} /\ L # R /\ L \notin {S, c, P} /\ S \notin {P, c}
         /\ Up(tree, L) = n /\ Up(tree, R) = n
         /\ p0 \notin {S, L, R, P} /\ (p0 = c => c = Nil)
         /\ p0 # Nil => \E s \in Sides : Kid(tree, p0, s) = n
         /\ S = R => P = n
         /\ S # R => P # n /\ c # R /\ R # S /\ Kid(tree, P, "left") = S
         /\ \A m \in mem, s \in Sides : Kid(tree, m, s) = S <=>
              m = P /\ s = (IF S = R THEN "right" ELSE "left")
         /\ \A x \in mem \ {n, S}, s \in Sides :
              Toward(pos, s, x, S) <=> Toward(pos, s, x, n)
<1>1. /\ mem \subseteq Nodes /\ Nil \notin Nodes /\ Nil \notin mem
      /\ pos \in [Nodes -> Int] /\ sub[Nil] = {} /\ sub \in [Ptr -> SUBSET mem]
      /\ mem \subseteq Ptr
      BY SubKids
<1>2. /\ "left" \in Sides /\ "right" \in Sides /\ Other("left") = "right"
      /\ Other("right") = "left" /\ \A s \in Sides : s = "left" \/ s = "right"
      BY DEF Sides, Other
<1>3. /\ L = Kid(tree, n, "left") /\ R = Kid(tree, n, "right")
      /\ S = Outermost(R, "left") /\ c = Kid(tree, S, "right")
      /\ P = Up(tree, S) /\ p0 = Up(tree, n)
      BY DEF Follows
<1>4. \A m \in mem, s \in Sides :
        /\ Kid(tree, m, s) \in mem \cup {Nil}
        /\ Kid(tree, m, s) # Nil => Up(tree, Kid(tree, m, s)) = m
        /\ sub[m] = {m} \cup sub[Kid(tree, m, s)] \cup sub[Kid(tree, m, Other(s))]
        /\ \A x \in sub[Kid(tree, m, s)] : Toward(pos, s, x, m)
      BY SubKids
<1>5. /\ L \in mem /\ L # n /\ Up(tree, L) = n /\ n \notin sub[L] /\ L # p0
      /\ R \in mem /\ R # n /\ Up(tree, R) = n /\ n \notin sub[R] /\ R # p0
      /\ L # R /\ p0 # n /\ p0 \in mem \cup {Nil}
  <2>1. /\ L \in mem \cup {Nil} /\ L # n /\ n \notin sub[L]
        /\ L # Nil => Up(tree, L) = n /\ L # R /\ L # p0
        /\ p0 # n /\ p0 \in mem \cup {Nil}
        BY <1>2, <1>3, Around
  <2>2. /\ R \in mem \cup {Nil} /\ R # n /\ n \notin sub[R]
        /\ R # Nil => Up(tree, R) = n /\ R # p0
        BY <1>2, <1>3, Around
  <2> QED BY <1>3, <2>1, <2>2
<1>6. /\ S \in sub[R] /\ Kid(tree, S, "left") = Nil
      /\ \A x \in sub[R] : x # S => pos[S] < pos[x]
  <2>1. /\ S \in sub[R] /\ Kid(tree, S, "left") = Nil
        /\ \A x \in sub[R] : x # S => Toward(pos, "left", S, x)
        BY <1>2, <1>3, <1>5, OutermostIs
  <2> QED BY <2>1 DEF Toward
<1>7. sub[n] = {n} \cup sub[L] \cup sub[R] /\ sub[L] \subseteq mem /\ sub[R] \subseteq mem
      BY <1>1, <1>2, <1>3, <1>4, <1>5
<1>8. /\ \A x \in sub[L] : pos[x] < pos[n] /\ pos[x] \in Int
      /\ \A x \in sub[R] : pos[n] < pos[x] /\ pos[x] \in Int
      /\ pos[n] \in Int
  <2>1. \A x \in sub[L] : Toward(pos, "left", x, n)
        BY <1>2, <1>3, <1>4
  <2>2. \A x \in sub[R] : Toward(pos, "right", x, n)
        BY <1>2, <1>3, <1>4
  <2>3. \A x \in mem : pos[x] \in Int
        BY <1>1
  <2> QED BY <1>7, <2>1, <2>2, <2>3 DEF Toward
<1>9. /\ S \in mem /\ S # n /\ S \notin sub[L] /\ L \notin sub[R] /\ L \in sub[L]
      /\ R \in sub[R] /\ L # S
  <2>1. L \in sub[L] /\ R \in sub[R]
        BY <1>5, SubKids
  <2>2. \A x \in sub[L] : x \notin sub[R]
    <3> SUFFICES ASSUME NEW x, x \in sub[L], x \in sub[R] PROVE FALSE
        OBVIOUS
    <3>1. pos[x] < pos[n] /\ pos[n] < pos[x] /\ pos[x] \in Int /\ pos[n] \in Int
          BY <1>8
    <3> QED BY <3>1
  <2> QED BY <1>5, <1>6, <1>7, <2>1, <2>2
<1>10. /\ c \in mem \cup {Nil} /\ c # S /\ S \notin sub[c] /\ sub[c] \subseteq sub[S]
       /\ c # Nil => Up(tree, c) = S /\ c # P
       /\ P # S /\ P \in mem \cup {Nil} /\ S # Nil
       BY <1>2, <1>3, <1>9, Around
<1>11. Lone(tree, S, "right", c)
       BY <1>2, <1>3, <1>6 DEF Lone
<1>12. sub[S] \subseteq sub[R] /\ (S # R => P \in sub[R])
       BY <1>3, <1>5, <1>6, SubSub
<1>13. c # Nil => c \in sub[R]
  <2> SUFFICES ASSUME c # Nil PROVE c \in sub[R]
      OBVIOUS
  <2>1. c \in sub[c]
        BY <1>10, SubKids
  <2> QED BY <1>10, <1>12, <2>1
<1>14. P \in mem /\ (S = R => P = n) /\ (S # R => P # n) /\ (P = n \/ P \in sub[R])
       BY <1>3, <1>5, <1>7, <1>9, <1>12
<1>15. P # Nil /\ Up(tree, S) # Nil
       BY <1>1, <1>3, <1>14
<1>16. PICK z \in Sides : Kid(tree, P, z) = S
  <2>1. LinksAt(tree, mem, S)
        BY <1>9 DEF Shape
  <2> QED BY <1>3, <1>15, <2>1 DEF LinksAt
<1>17. z = IF S = R THEN "right" ELSE "left"
  <2>1. CASE S = R
    <3>1. Kid(tree, n, "left") # S
          BY <1>3, <1>5, <2>1
    <3> QED BY <1>2, <1>14, <1>16, <2>1, <3>1
  <2>2. CASE S # R
    <3>1. P \in sub[R] /\ P # S
          BY <1>10, <1>12, <2>2
    <3>2. pos[S] < pos[P]
          BY <1>6, <3>1
    <3>3. z # "right"
      <4> SUFFICES ASSUME z = "right" PROVE FALSE
          OBVIOUS
      <4>1. S \in sub[S]
            BY <1>9, SubKids
      <4>2. Toward(pos, z, S, P)
            BY <1>4, <1>14, <1>16, <4>1
      <4>3. pos[P] < pos[S]
            BY <1>2, <4>2 DEF Toward
      <4>4. pos[P] \in Int /\ pos[S] \in Int
            BY <1>6, <1>8, <3>1
      <4> QED BY <3>2, <4>3, <4>4
    <3> QED BY <1>2, <2>2, <3>3
  <2> QED BY <2>1, <2>2
<1>18. \A m \in mem, s \in Sides : Kid(tree, m, s) = S <=>
              m = P /\ s = (IF S = R THEN "right" ELSE "left")
  <2>1. \A m \in mem, s \in Sides : Kid(tree, m, s) = S => m = P
        BY <1>3, <1>4, <1>10
  <2>2. Kid(tree, P, Other(z)) # S
        BY <1>10, <1>14, <1>16, Around
  <2>3. \A s \in Sides : Kid(tree, P, s) = S <=> s = z
        BY <1>2, <1>16, <2>2
  <2> QED BY <1>14, <1>17, <2>1, <2>3
<1>19. p0 # Nil => \E s \in Sides : Kid(tree, p0, s) = n
  <2>1. LinksAt(tree, mem, n)
        BY DEF Shape
  <2> QED BY <1>3, <2>1 DEF LinksAt
<1>20. p0 \notin sub[R] /\ p0 \notin sub[L]
  <2>1. CASE p0 = Nil
        BY <1>1, <1>7, <2>1
  <2>2. CASE p0 # Nil
    <3>1. PICK s \in Sides : Kid(tree, p0, s) = n
          BY <1>19, <2>2
    <3>2. p0 \notin sub[n]
          BY <1>5, <2>2, <3>1, Around
    <3> QED BY <1>7, <3>2
  <2> QED BY <2>1, <2>2
<1>21. c # R
  <2>1. CASE c = Nil
        BY <1>1, <1>5, <2>1
  <2>2. CASE c # Nil
    <3>1. Up(tree, c) = S /\ Up(tree, R) = n /\ S # n
          BY <1>5, <1>9, <1>10, <2>2
    <3> QED BY <3>1
  <2> QED BY <2>1, <2>2
<1>22. L # c /\ L # P
  <2>1. L # Nil
        BY <1>1, <1>5
  <2> QED BY <1>5, <1>9, <1>13, <1>14, <2>1
<1>23. ASSUME NEW x \in mem \ {n, S}, NEW s \in Sides
       PROVE  Toward(pos, s, x, S) <=> Toward(pos, s, x, n)
  <2>1. CASE x \notin sub[n]
    <3>1. S \in sub[n]
          BY <1>6, <1>7
    <3> QED BY <2>1, <3>1, Interval
  <2>2. CASE x \in sub[L]
    <3>1. pos[x] < pos[n] /\ pos[n] < pos[S] /\ pos[x] \in Int /\ pos[n] \in Int
            /\ pos[S] \in Int
          BY <1>6, <1>8, <2>2
    <3> QED BY <1>2, <3>1 DEF Toward
  <2>3. CASE x \in sub[R]
    <3>1. pos[S] < pos[x] /\ pos[n] < pos[x] /\ pos[x] \in Int /\ pos[n] \in Int
            /\ pos[S] \in Int
          BY <1>6, <1>8, <1>23, <2>3
    <3> QED BY <1>2, <3>1 DEF Toward
  <2> QED BY <1>7, <1>23, <2>1, <2>2, <2>3
<1>24. /\ n # c /\ (p0 = c => c = Nil) /\ p0 \notin {S, L, R, P}
  <2>1. n \notin sub[R] /\ n # Nil
        BY <1>1, <1>5
  <2>2. p0 # P
        BY <1>5, <1>14, <1>20
  <2> QED BY <1>5, <1>6, <1>9, <1>13, <1>20, <2>1, <2>2
<1>25. S # R => Kid(tree, P, "left") = S
       BY <1>16, <1>17
<1>26. {L, R, S, P} \subseteq mem /\ {c, p0} \subseteq mem \cup {Nil} /\ S \in sub[n]
       BY <1>5, <1>6, <1>7, <1>9, <1>10, <1>14
<1>27. n \notin {L, R, S, c, p0} /\ L # R /\ L \notin {S, c, P} /\ S \notin {P, c}
       BY <1>5, <1>9, <1>10, <1>22, <1>24
<1> QED BY <1>5, <1>6, <1>11, <1>14, <1>18, <1>19, <1>21, <1>23, <1>24, <1>25, <1>26, <1>27

-----------------------------------------------------------------------------
(* Erase: the stores that put the successor in the place of the node.      *)

Replaced(t, u, n, S, L, R, P, p0, c) ==
  /\ \A m \in Nodes, s \in Sides :
       Kid(u, m, s) = IF m = S THEN (IF s = "left" THEN L ELSE IF S = R THEN c ELSE R)
                      ELSE IF m = P /\ s = "left" /\ S # R THEN c
                      ELSE IF m = p0 /\ Kid(t, m, s) = n THEN S
                      ELSE Kid(t, m, s)
  /\ \A m \in Nodes :
       Up(u, m) = IF m = c THEN (IF S = R THEN S ELSE P)
                  ELSE IF m = S THEN p0
                  ELSE IF m = L \/ m = R THEN S
                  ELSE Up(t, m)
  /\ \A m \in Nodes :
       Hue(u, m) = IF m = c THEN FALSE ELSE IF m = S THEN Hue(t, n) ELSE Hue(t, m)
  /\ u.root = IF p0 = Nil THEN S ELSE t.root

(* What is below a node has a smaller rank.                                *)
LEMMA SubRank ==
  ASSUME NEW t, NEW r, Ranks(r, t), NEW mem, NEW sub, NEW pos, Shape(t, mem, sub, pos)
  PROVE  \A z \in mem : \A k \in sub[z] : k # z => r[k] < r[z]
<1> DEFINE Good == {z \in Nodes : z \in mem => \A k \in sub[z] : k # z => r[k] < r[z]}
<1>1. /\ r \in [Nodes -> Nat]
      /\ \A n \in Nodes, side \in Sides :
           Kid(t, n, side) \in Nodes => r[Kid(t, n, side)] < r[n]
      BY DEF Ranks
<1>2. ASSUME NEW z \in Nodes, \A m \in Nodes : r[m] < r[z] => m \in Good
      PROVE  z \in Good
  <2> SUFFICES ASSUME z \in mem, NEW k \in sub[z], k # z PROVE r[k] < r[z]
      OBVIOUS
  <2>1. PICK s \in Sides : k \in sub[Kid(t, z, s)]
    <3>1. k \in sub[Kid(t, z, "left")] \cup sub[Kid(t, z, Other("left"))]
          BY SubKids DEF Sides
    <3> QED BY <3>1 DEF Sides, Other
  <2>2. PICK c : c = Kid(t, z, s)
        OBVIOUS
  <2>3. c \in mem /\ c \in Nodes /\ k \in sub[c] /\ sub[c] \subseteq mem
    <3>1. c \in mem \cup {Nil} /\ k \in sub[c] /\ sub[Nil] = {}
          BY <2>1, <2>2, SubKids
    <3> QED BY <3>1, SubKids
  <2>4. r[c] < r[z]
        BY <1>1, <2>2, <2>3
  <2>5. k # c => r[k] < r[c]
        BY <1>2, <2>3, <2>4
  <2>6. r[c] \in Nat /\ r[z] \in Nat /\ r[k] \in Nat
    <3>1. k \in Nodes
          BY <2>3, SubKids
    <3> QED BY <1>1, <2>3, <3>1
  <2> QED BY <2>4, <2>5, <2>6
<1>3. mem \subseteq Nodes
      BY DEF Shape
<1> HIDE DEF Good
<1>4. \A z \in Nodes : z \in Good
      BY <1>1, <1>2, RankInduction
<1> QED BY <1>3, <1>4 DEF Good

(* What is known of the nodes involved.                                    *)
Beside(n, S, L, R, P, p0, c, mem) ==
  /\ mem \subseteq Nodes /\ n \in mem
  /\ {L, R, S, P} \subseteq mem /\ {c, p0} \subseteq mem \cup {Nil}
  /\ n \notin {L, R, S, c, p0} /\ L # R /\ L \notin {S, c, P} /\ S \notin {P, c}
  /\ p0 \notin {S, L, R, P}
  /\ L = Kid(tree, n, "left") /\ R = Kid(tree, n, "right")
  /\ c = Kid(tree, S, "right") /\ Kid(tree, S, "left") = Nil
  /\ P = Up(tree, S) /\ p0 = Up(tree, n) /\ Up(tree, L) = n /\ Up(tree, R) = n
  /\ p0 # Nil => \E s \in Sides : Kid(tree, p0, s) = n
  /\ p0 # Nil => ~ (Kid(tree, p0, "left") = n /\ Kid(tree, p0, "right") = n)
  /\ S = R => P = n
  /\ S # R => P # n /\ c # R
  /\ \A m \in Nodes, s \in Sides : Kid(tree, m, s) = S <=>
       m = P /\ s = (IF S = R THEN "right" ELSE "left")

(* The successor is taken out of its place below right.                    *)
Spliced(t, u, S, R, P, c) ==
  /\ \A m \in Nodes, s \in Sides :
       Kid(u, m, s) = IF S # R /\ m = S /\ s = "right" THEN R
                      ELSE IF S # R /\ m = P /\ s = "left" THEN c ELSE Kid(t, m, s)
  /\ \A m \in Nodes : /\ Up(u, m) = (IF S # R /\ m = R THEN S ELSE Up(t, m))
                      /\ Hue(u, m) = Hue(t, m)
  /\ SameAnchors(t, u)

LEMMA DoSplice ==
  ASSUME tree \in Trees, NEW r, Ranks(r, tree), NEW mem,
         NEW n, NEW S, NEW L, NEW R, NEW P, NEW p0, NEW c, Beside(n, S, L, R, P, p0, c, mem),
         r[S] < r[n]
  PROVE  \E u, r2 :
           /\ u \in Trees
           /\ Leads(tree, IF S = R THEN <<>>
                          ELSE SetChild(P, "left", c) \o SetChild(S, "right", R)
                                 \o SetParent(R, S), u)
           /\ Ranks(r2, u) /\ Spliced(tree, u, S, R, P, c)
           /\ r2[L] < r2[S] /\ (p0 # Nil => r2[S] < r2[p0])
           /\ (S = R /\ c # Nil) => r2[c] < r2[S]
<1>1. /\ r \in [Nodes -> Nat]
      /\ \A m \in Nodes, s \in Sides :
           Kid(tree, m, s) \in Nodes => r[Kid(tree, m, s)] < r[m]
      BY DEF Ranks
<1>2. /\ L \in Nodes /\ R \in Nodes /\ S \in Nodes /\ P \in Nodes /\ n \in Nodes
      /\ c \in Ptr /\ p0 \in Ptr /\ (c # Nil => c \in Nodes) /\ (p0 # Nil => p0 \in Nodes)
      BY DEF Beside, Ptr
<1>3. "left" \in Sides /\ "right" \in Sides /\ \A s \in Sides : s = "left" \/ s = "right"
      BY DEF Sides
<1>4. /\ r[L] < r[n] /\ r[R] < r[n] /\ r[S] < r[P] /\ (c # Nil => r[c] < r[S])
      /\ p0 # Nil => r[n] < r[p0]
      /\ \A m \in Nodes : r[m] \in Nat
  <2>1. r[L] < r[n] /\ r[R] < r[n] /\ (c # Nil => r[c] < r[S])
        BY <1>1, <1>2, <1>3 DEF Beside
  <2>2. r[S] < r[P]
    <3>1. \E s \in Sides : Kid(tree, P, s) = S
          BY <1>2, <1>3 DEF Beside
    <3> QED BY <1>1, <1>2, <3>1
  <2>3. p0 # Nil => r[n] < r[p0]
    <3>1. p0 # Nil => \E s \in Sides : Kid(tree, p0, s) = n
          BY DEF Beside
    <3> QED BY <1>1, <1>2, <3>1
  <2> QED BY <1>1, <2>1, <2>2, <2>3
<1>5. /\ S # n /\ L # S /\ R # n /\ L # n /\ p0 # S /\ S # P
      /\ S = R => P = n
      BY DEF Beside
<1>6. \A m \in Nodes, s \in Sides : Kid(tree, m, s) = S <=>
        m = P /\ s = (IF S = R THEN "right" ELSE "left")
      BY DEF Beside
<1>7. Kid(tree, S, "left") = Nil /\ Kid(tree, S, "right") = c /\ Nil \notin Nodes
      BY NilIsNoNode DEF Beside
<1>8. PICK up \in BOOLEAN : up = FALSE
      OBVIOUS
<1>9. CASE S = R
  <2>1. Leads(tree, <<>>, tree)
        BY LeadsNil, RanksRanked
  <2>2. \A s \in Sides : Kid(tree, S, s) \in Nodes => r[Kid(tree, S, s)] < r[n]
    <3>1. c # Nil => r[c] < r[n]
          BY <1>2, <1>4, <1>9
    <3> QED BY <1>3, <1>7, <3>1
  <2>3. \A m \in Nodes, s \in Sides :
          Kid(tree, m, s) = S => IF up THEN r[n] < r[m] ELSE r[n] <= r[m]
        BY <1>2, <1>4, <1>5, <1>6, <1>8, <1>9
  <2>4. PICK r2 : Ranks(r2, tree) /\ Lifted(r, r2, S, n, up)
        BY <1>2, <1>5, <2>2, <2>3, Lift
  <2>5. /\ r2[L] < r2[S] /\ (p0 # Nil => r2[S] < r2[p0])
        /\ (S = R /\ c # Nil) => r2[c] < r2[S]
    <3>1. r2[L] < r2[S] /\ (p0 # Nil => r2[S] < r2[p0])
          BY <1>2, <1>4, <1>5, <2>4 DEF Lifted
    <3>2. c # Nil => r2[c] < r2[S]
          BY <1>2, <1>3, <1>7, <2>4 DEF Ranks
    <3> QED BY <3>1, <3>2
  <2>6. Spliced(tree, tree, S, R, P, c)
        BY <1>9 DEF Spliced, SameAnchors
  <2> QED BY <1>9, <2>1, <2>4, <2>5, <2>6
<1>10. CASE S # R
  <2>1. c \in Nodes => r[c] < r[P]
        BY <1>2, <1>4, <1>7
  <2>2. PICK t1 \in Trees : /\ Leads(tree, SetChild(P, "left", c), t1)
                            /\ Ranks(r, t1) /\ KidSet(tree, t1, P, "left", c)
        BY <1>2, <1>3, <2>1, DoKid
  <2>3. \A m \in Nodes, s \in Sides :
          Kid(t1, m, s) = IF m = P /\ s = "left" THEN c ELSE Kid(tree, m, s)
        BY <2>2 DEF KidSet
  <2>4. \A s \in Sides : Kid(t1, S, s) \in Nodes => r[Kid(t1, S, s)] < r[n]
    <3>1. r[S] \in Nat /\ r[n] \in Nat
          BY <1>2, <1>4
    <3>2. c # Nil => r[c] < r[n]
          BY <1>2, <1>4, <3>1
    <3> QED BY <1>2, <1>3, <1>5, <1>7, <2>3, <3>2
  <2>5. \A m \in Nodes, s \in Sides :
          Kid(t1, m, s) = S => IF up THEN r[n] < r[m] ELSE r[n] <= r[m]
    <3>1. c # S
          BY DEF Beside
    <3> QED BY <1>6, <1>10, <2>3, <3>1
  <2>6. PICK r2 : Ranks(r2, t1) /\ Lifted(r, r2, S, n, up)
        BY <1>2, <1>5, <2>2, <2>4, <2>5, Lift
  <2>7. r2[L] < r2[S] /\ (p0 # Nil => r2[S] < r2[p0]) /\ r2[R] < r2[S]
        BY <1>2, <1>4, <1>5, <1>10, <2>6 DEF Lifted
  <2>8. PICK t2 \in Trees : /\ Leads(t1, SetChild(S, "right", R), t2)
                            /\ Ranks(r2, t2) /\ KidSet(t1, t2, S, "right", R)
        BY <1>2, <1>3, <2>2, <2>6, <2>7, DoKid DEF Ptr
  <2>9. PICK b \in BOOLEAN : b = IsRed(R) /\ b = Hue(tree, R)
        BY <1>2, RedHue
  <2>10. PICK u \in Trees : /\ Leads(t2, SetParentColor(R, S, b), u)
                            /\ Ranks(r2, u) /\ UpSet(t2, u, R, S, b)
         BY <1>2, <2>8, DoUp DEF Ptr
  <2>11. PICK q1, q2, q3 : /\ q1 = SetChild(P, "left", c) /\ q2 = SetChild(S, "right", R)
                           /\ q3 = SetParent(R, S)
         OBVIOUS
  <2>12. Leads(tree, q1 \o q2 \o q3, u)
    <3>1. q3 = SetParentColor(R, S, b)
          BY <2>9, <2>11 DEF SetParent
    <3>2. Leads(tree, q1, t1) /\ Leads(t1, q2, t2) /\ Leads(t2, q3, u)
          BY <2>2, <2>8, <2>10, <2>11, <3>1
    <3>3. Leads(tree, q1 \o q2, t2)
          BY <3>2, LeadsOn
    <3> QED BY <3>2, <3>3, LeadsOn
  <2>13. Spliced(tree, u, S, R, P, c)
    <3>1. \A m \in Nodes, s \in Sides :
            Kid(u, m, s) = IF m = S /\ s = "right" THEN R ELSE Kid(t1, m, s)
          BY <2>8, <2>10 DEF KidSet, UpSet, SameKids
    <3>2. \A m \in Nodes : /\ Up(u, m) = (IF m = R THEN S ELSE Up(tree, m))
                           /\ Hue(u, m) = Hue(tree, m)
          BY <2>2, <2>8, <2>9, <2>10 DEF KidSet, UpSet, SameUp
    <3>3. SameAnchors(tree, u)
          BY <2>2, <2>8, <2>10 DEF KidSet, UpSet, SameAnchors
    <3> QED BY <1>5, <1>10, <2>3, <3>1, <3>2, <3>3 DEF Spliced
  <2>14. Leads(tree, IF S = R THEN <<>>
                     ELSE SetChild(P, "left", c) \o SetChild(S, "right", R)
                            \o SetParent(R, S), u)
         BY <1>10, <2>11, <2>12
  <2> QED BY <1>10, <2>7, <2>10, <2>13, <2>14
<1> QED BY <1>9, <1>10

ReplaceStores(n, S, L, R, P, p0, c, up) ==
  (IF S = R THEN <<>>
   ELSE SetChild(P, "left", c) \o SetChild(S, "right", R) \o SetParent(R, S))
    \o SetChild(S, "left", L)
    \o SetParent(L, S)
    \o ChangeChild(n, S, p0)
    \o SetParentColor(S, p0, IsRed(n))
    \o IfNode(c, SetParentColor(c, up, FALSE))

LEMMA DoReplace ==
  ASSUME tree \in Trees, NEW r, Ranks(r, tree), NEW mem,
         NEW n, NEW S, NEW L, NEW R, NEW P, NEW p0, NEW c, Beside(n, S, L, R, P, p0, c, mem),
         r[S] < r[n], NEW up, S = R => up = S, S # R => up = P
  PROVE  \E u \in Trees :
           /\ Leads(tree, ReplaceStores(n, S, L, R, P, p0, c, up), u)
           /\ Replaced(tree, u, n, S, L, R, P, p0, c) /\ u.leftmost = tree.leftmost
<1> DEFINE gs == IF Child(p0, "left") = n THEN "left" ELSE "right"
<1>1. /\ L \in Nodes /\ R \in Nodes /\ S \in Nodes /\ P \in Nodes /\ n \in Nodes
      /\ c \in Ptr /\ p0 \in Ptr /\ S \in Ptr /\ L \in Ptr /\ up \in Ptr
      /\ (c # Nil => c \in Nodes) /\ (p0 # Nil => p0 \in Nodes)
      BY DEF Beside, Ptr
<1>2. "left" \in Sides /\ "right" \in Sides /\ Other("left") = "right"
      /\ \A s \in Sides : s = "left" \/ s = "right"
      BY DEF Sides, Other
<1>3. PICK q1, q2, q3, q4, q5, q6 :
        /\ q1 = IF S = R THEN <<>>
                ELSE SetChild(P, "left", c) \o SetChild(S, "right", R) \o SetParent(R, S)
        /\ q2 = SetChild(S, "left", L) /\ q3 = SetParent(L, S)
        /\ q4 = ChangeChild(n, S, p0) /\ q5 = SetParentColor(S, p0, IsRed(n))
        /\ q6 = IfNode(c, SetParentColor(c, up, FALSE))
      OBVIOUS
<1>4. PICK t1, r2 :
           /\ t1 \in Trees
           /\ Leads(tree, q1, t1)
           /\ Ranks(r2, t1) /\ Spliced(tree, t1, S, R, P, c)
           /\ r2[L] < r2[S] /\ (p0 # Nil => r2[S] < r2[p0])
      BY <1>3, DoSplice
<1>5. PICK t2 \in Trees : /\ Leads(t1, q2, t2)
                          /\ Ranks(r2, t2) /\ KidSet(t1, t2, S, "left", L)
      BY <1>1, <1>2, <1>3, <1>4, DoKid
<1>6. PICK b \in BOOLEAN : b = IsRed(L) /\ b = Hue(tree, L)
      BY <1>1, RedHue
<1>7. PICK t3 \in Trees : /\ Leads(t2, q3, t3)
                          /\ Ranks(r2, t3) /\ UpSet(t2, t3, L, S, b)
  <2>1. q3 = SetParentColor(L, S, b)
        BY <1>3, <1>6 DEF SetParent
  <2> QED BY <1>1, <1>5, <2>1, DoUp
<1>8. PICK t4 \in Trees : /\ Leads(t3, q4, t4)
                          /\ Ranks(r2, t4) /\ LinkSet(t3, t4, n, S, p0)
      BY <1>1, <1>3, <1>4, <1>7, DoChange
<1>9. PICK d \in BOOLEAN : d = IsRed(n) /\ d = Hue(tree, n)
      BY <1>1, RedHue
<1>10. PICK t5 \in Trees : /\ Leads(t4, q5, t5)
                           /\ Ranks(r2, t5) /\ UpSet(t4, t5, S, p0, d)
  <2>1. q5 = SetParentColor(S, p0, d)
        BY <1>3, <1>9
  <2> QED BY <1>1, <1>8, <2>1, DoUp
<1>11. PICK e \in BOOLEAN : e = FALSE
       OBVIOUS
<1>12. PICK u \in Trees : /\ Leads(t5, q6, u)
                          /\ Ranks(r2, u) /\ UpSet(t5, u, c, up, e)
  <2>1. q6 = IfNode(c, SetParentColor(c, up, e))
        BY <1>3, <1>11
  <2> QED BY <1>1, <1>10, <2>1, DoUpIf
<1>13. Leads(tree, q1 \o q2 \o q3 \o q4 \o q5 \o q6, u)
  <2>1. Leads(tree, q1 \o q2, t2)
        BY <1>4, <1>5, LeadsOn
  <2>2. Leads(tree, q1 \o q2 \o q3, t3)
        BY <1>7, <2>1, LeadsOn
  <2>3. Leads(tree, q1 \o q2 \o q3 \o q4, t4)
        BY <1>8, <2>2, LeadsOn
  <2>4. Leads(tree, q1 \o q2 \o q3 \o q4 \o q5, t5)
        BY <1>10, <2>3, LeadsOn
  <2> QED BY <1>12, <2>4, LeadsOn
<1>14. /\ S # n /\ L # S /\ p0 # S /\ c # S /\ L # c /\ R # c /\ L # R
       /\ p0 # P /\ (S = R => P = n)
       /\ c = Kid(tree, S, "right")
       /\ \A s \in Sides : p0 # Nil => (Kid(tree, p0, s) = n <=> s = gs)
  <2>1. /\ S # n /\ L # S /\ p0 # S /\ c # S /\ L # c /\ L # R
        /\ p0 # P /\ (S = R => P = n) /\ (S # R => c # R)
        /\ c = Kid(tree, S, "right")
        /\ p0 # Nil => \E s \in Sides : Kid(tree, p0, s) = n
        BY DEF Beside
  <2>2. S = R => c # R
        BY <2>1
  <2>3. p0 # Nil => \A s \in Sides : Kid(tree, p0, s) = n <=> s = gs
    <3> SUFFICES ASSUME p0 # Nil, NEW s \in Sides PROVE Kid(tree, p0, s) = n <=> s = gs
        OBVIOUS
    <3>1. Child(p0, "left") = Kid(tree, p0, "left")
          BY Reads
    <3>2. ~ (Kid(tree, p0, "left") = n /\ Kid(tree, p0, "right") = n)
          BY DEF Beside
    <3> QED BY <1>2, <2>1, <3>1, <3>2
  <2> QED BY <2>1, <2>2, <2>3
<1>15. \A m \in Nodes, s \in Sides :
         Kid(t3, m, s) = IF m = S THEN (IF s = "left" THEN L ELSE IF S = R THEN c ELSE R)
                         ELSE IF m = P /\ s = "left" /\ S # R THEN c
                         ELSE Kid(tree, m, s)
  <2>1. \A m \in Nodes, s \in Sides :
          Kid(t3, m, s) = IF m = S /\ s = "left" THEN L ELSE Kid(t1, m, s)
        BY <1>5, <1>7 DEF KidSet, UpSet, SameKids
  <2> QED BY <1>2, <1>4, <1>14, <2>1 DEF Spliced
<1>16. /\ \A m \in Nodes : /\ Up(t3, m) = (IF m = L THEN S
                                           ELSE IF S # R /\ m = R THEN S ELSE Up(tree, m))
                           /\ Hue(t3, m) = Hue(tree, m)
       /\ t3.root = tree.root /\ t3.leftmost = tree.leftmost
       BY <1>4, <1>5, <1>6, <1>7 DEF Spliced, KidSet, UpSet, SameUp, SameAnchors
<1>17. /\ \A m \in Nodes, s \in Sides :
            Kid(t4, m, s) = IF p0 # Nil /\ m = p0 /\ Kid(tree, m, s) = n THEN S
                            ELSE Kid(t3, m, s)
       /\ SameUp(t3, t4)
       /\ t4.root = IF p0 = Nil THEN S ELSE t3.root
       /\ t4.leftmost = t3.leftmost
  <2>1. CASE p0 = Nil
    <3>1. AnchorSet(t3, t4, "root", S)
          BY <1>8, <2>1 DEF LinkSet
    <3> QED BY <2>1, <3>1 DEF AnchorSet, SameKids
  <2>2. CASE p0 # Nil
    <3>1. KidSet(t3, t4, p0, gs, S)
          BY <1>8, <2>2 DEF LinkSet
    <3> HIDE DEF gs
    <3> QED BY <1>14, <2>2, <3>1 DEF KidSet, SameAnchors
  <2> QED BY <2>1, <2>2
<1>18. Replaced(tree, u, n, S, L, R, P, p0, c) /\ u.leftmost = tree.leftmost
  <2>1. \A m \in Nodes, s \in Sides : Kid(u, m, s) = Kid(t4, m, s)
        BY <1>10, <1>12 DEF UpSet, SameKids
  <2>2. \A m \in Nodes, s \in Sides :
       Kid(u, m, s) = IF m = S THEN (IF s = "left" THEN L ELSE IF S = R THEN c ELSE R)
                      ELSE IF m = P /\ s = "left" /\ S # R THEN c
                      ELSE IF m = p0 /\ Kid(tree, m, s) = n THEN S
                      ELSE Kid(tree, m, s)
        BY <1>14, <1>15, <1>17, <2>1, NilIsNoNode
  <2>3. \A m \in Nodes :
          /\ Up(u, m) = (IF m = c THEN up ELSE IF m = S THEN p0 ELSE Up(t4, m))
          /\ Hue(u, m) = (IF m = c THEN e ELSE IF m = S THEN d ELSE Hue(t4, m))
        BY <1>10, <1>12 DEF UpSet
  <2>4. \A m \in Nodes : Up(t4, m) = Up(t3, m) /\ Hue(t4, m) = Hue(t3, m)
        BY <1>17 DEF SameUp
  <2>5. \A m \in Nodes :
          Up(u, m) = IF m = c THEN (IF S = R THEN S ELSE P)
                     ELSE IF m = S THEN p0
                     ELSE IF m = L \/ m = R THEN S
                     ELSE Up(tree, m)
        BY <1>14, <1>16, <2>3, <2>4
  <2>6. \A m \in Nodes :
          Hue(u, m) = IF m = c THEN FALSE ELSE IF m = S THEN Hue(tree, n) ELSE Hue(tree, m)
        BY <1>9, <1>11, <1>16, <2>3, <2>4
  <2>7. u.root = (IF p0 = Nil THEN S ELSE tree.root) /\ u.leftmost = tree.leftmost
        BY <1>10, <1>12, <1>16, <1>17 DEF UpSet, SameAnchors
  <2> QED BY <2>2, <2>5, <2>6, <2>7 DEF Replaced
<1>19. ReplaceStores(n, S, L, R, P, p0, c, up) = q1 \o q2 \o q3 \o q4 \o q5 \o q6
       BY <1>3, Zenon DEF ReplaceStores
<1> QED BY <1>13, <1>18, <1>19

LEMMA ReplaceRenames ==
  ASSUME NEW mem, NEW n, NEW S, NEW L, NEW R, NEW P, NEW p0, NEW c,
         Beside(n, S, L, R, P, p0, c, mem),
         \A m \in mem, s \in Sides : Kid(tree, m, s) = n => m = p0,
         \A m \in mem : Up(tree, m) = n => m \in {L, R},
         c # Nil => ~ Hue(tree, S) /\ Hue(tree, S) \in BOOLEAN,
         tree.root = n <=> p0 = Nil,
         NEW v, Bypassed(tree, v, S, c), NEW u, Replaced(tree, u, n, S, L, R, P, p0, c)
  PROVE  Renamed(v, u, mem \ {S}, n, S)
<1>1. /\ mem \subseteq Nodes /\ n \in mem /\ S \in mem /\ P \in mem /\ L \in mem /\ R \in mem
      /\ n \notin {L, R, S, c, p0} /\ L # R /\ L \notin {S, c, P} /\ S \notin {P, c}
      /\ p0 \notin {S, L, R, P} /\ c \in mem \cup {Nil}
      /\ L = Kid(tree, n, "left") /\ R = Kid(tree, n, "right")
      /\ P = Up(tree, S) /\ p0 = Up(tree, n)
      /\ S = R => P = n
      /\ S # R => P # n /\ c # R
      BY DEF Beside
<1>2. \A m \in Nodes, s \in Sides : Kid(tree, m, s) = S <=>
        m = P /\ s = (IF S = R THEN "right" ELSE "left")
      BY DEF Beside
<1>3. Nil \notin Nodes /\ \A s \in Sides : s = "left" \/ s = "right"
      BY NilIsNoNode DEF Sides
<1>4. \A m \in mem, s \in Sides :
        Kid(v, m, s) = IF m = P /\ Kid(tree, m, s) = S THEN c ELSE Kid(tree, m, s)
      BY <1>1 DEF Bypassed
<1>5. \A m \in mem, s \in Sides :
       Kid(u, m, s) = IF m = S THEN (IF s = "left" THEN L ELSE IF S = R THEN c ELSE R)
                      ELSE IF m = P /\ s = "left" /\ S # R THEN c
                      ELSE IF m = p0 /\ Kid(tree, m, s) = n THEN S
                      ELSE Kid(tree, m, s)
      BY <1>1 DEF Replaced
<1>6. ASSUME NEW m \in mem \ {S}, NEW s \in Sides
      PROVE  Kid(u, Ren(n, S, m), s) = Ren(n, S, Kid(v, m, s))
  <2>1. CASE m = n
    <3>1. Ren(n, S, m) = S
          BY <2>1 DEF Ren
    <3>2. Kid(u, S, s) = IF s = "left" THEN L ELSE IF S = R THEN c ELSE R
          BY <1>1, <1>5
    <3>3. Kid(v, n, s) = IF s = "left" THEN L ELSE IF S = R THEN c ELSE R
          BY <1>1, <1>3, <1>4
    <3> QED BY <1>1, <2>1, <3>1, <3>2, <3>3 DEF Ren
  <2>2. CASE m # n
    <3>1. Ren(n, S, m) = m
          BY <2>2 DEF Ren
    <3>2. Kid(tree, m, s) = S <=> m = P /\ s = "left" /\ S # R
          BY <1>1, <1>2, <2>2
    <3>3. CASE Kid(tree, m, s) = S
      <4>1. Kid(u, m, s) = c /\ Kid(v, m, s) = c
            BY <1>1, <1>4, <1>5, <3>2, <3>3
      <4> QED BY <1>1, <3>1, <4>1 DEF Ren
    <3>4. CASE Kid(tree, m, s) # S
      <4>1. /\ Kid(v, m, s) = Kid(tree, m, s)
            /\ Kid(u, m, s) = IF m = p0 /\ Kid(tree, m, s) = n THEN S ELSE Kid(tree, m, s)
            BY <1>4, <1>5, <3>2, <3>4
      <4>2. Kid(tree, m, s) = n => m = p0
            OBVIOUS
      <4> QED BY <3>1, <4>1, <4>2 DEF Ren
    <3> QED BY <3>3, <3>4
  <2> QED BY <2>1, <2>2
<1>7. \A m \in mem : /\ Up(v, m) = (IF m = c THEN P ELSE Up(tree, m))
                     /\ Hue(v, m) = (IF m = c THEN Hue(tree, S) ELSE Hue(tree, m))
      BY <1>1 DEF Bypassed
<1>8. \A m \in mem :
       /\ Up(u, m) = (IF m = c THEN (IF S = R THEN S ELSE P)
                      ELSE IF m = S THEN p0
                      ELSE IF m = L \/ m = R THEN S
                      ELSE Up(tree, m))
       /\ Hue(u, m) = (IF m = c THEN FALSE ELSE IF m = S THEN Hue(tree, n)
                       ELSE Hue(tree, m))
      BY <1>1 DEF Replaced
<1>9. ASSUME NEW m \in mem \ {S}
      PROVE  Up(u, Ren(n, S, m)) = Ren(n, S, Up(v, m))
  <2>1. CASE m = n
        BY <1>1, <1>7, <1>8, <2>1 DEF Ren
  <2>2. CASE m # n
    <3>1. Ren(n, S, m) = m
          BY <2>2 DEF Ren
    <3>2. CASE m = c
          BY <1>1, <1>7, <1>8, <3>1, <3>2 DEF Ren
    <3>3. CASE m # c /\ (m = L \/ m = R)
      <4>1. Up(tree, m) = n /\ Up(u, m) = S
        <5>1. Up(tree, L) = n /\ Up(tree, R) = n
              BY DEF Beside
        <5> QED BY <1>8, <3>3, <5>1
      <4> QED BY <1>7, <3>1, <3>3, <4>1 DEF Ren
    <3>4. CASE m # c /\ m # L /\ m # R
          BY <1>7, <1>8, <3>1, <3>4 DEF Ren
    <3> QED BY <3>2, <3>3, <3>4
  <2> QED BY <2>1, <2>2
<1>10. ASSUME NEW m \in mem \ {S}
       PROVE  Hue(u, Ren(n, S, m)) = Hue(v, m)
  <2>1. CASE m = n
        BY <1>1, <1>7, <1>8, <2>1 DEF Ren
  <2>2. CASE m # n
    <3>1. Ren(n, S, m) = m
          BY <2>2 DEF Ren
    <3>2. m = c => Hue(tree, S) = FALSE
          BY <1>1, <1>3
    <3> QED BY <1>7, <1>8, <3>1, <3>2
  <2> QED BY <2>1, <2>2
<1>11. u.root = Ren(n, S, v.root)
  <2>1. v.root = tree.root
        BY <1>1, <1>3 DEF Bypassed
  <2>2. u.root = IF p0 = Nil THEN S ELSE tree.root
        BY DEF Replaced
  <2> QED BY <2>1, <2>2 DEF Ren
<1> QED BY <1>6, <1>9, <1>10, <1>11 DEF Renamed

(* A tree that differs from t as one that n was bypassed in.               *)
LEMMA BypassedExists ==
  ASSUME NEW t, NEW n, NEW c
  PROVE  \E u : Bypassed(t, u, n, c)
<1>1. PICK N : N = [m \in Nodes |->
                      [left |-> IF m = Up(t, n) /\ Kid(t, m, "left") = n THEN c
                                ELSE Kid(t, m, "left"),
                       right |-> IF m = Up(t, n) /\ Kid(t, m, "right") = n THEN c
                                 ELSE Kid(t, m, "right"),
                       parent |-> IF m = c THEN Up(t, n) ELSE Up(t, m),
                       red |-> IF m = c THEN Hue(t, n) ELSE Hue(t, m)]]
      OBVIOUS
<1>2. PICK u : u = [root |-> IF Up(t, n) = Nil THEN c ELSE t.root, node |-> N]
      OBVIOUS
<1>3. u.node = N /\ u.root = IF Up(t, n) = Nil THEN c ELSE t.root
      BY <1>2
<1>4. ASSUME NEW m \in Nodes
      PROVE  /\ N[m].left = IF m = Up(t, n) /\ Kid(t, m, "left") = n THEN c
                            ELSE Kid(t, m, "left")
             /\ N[m].right = IF m = Up(t, n) /\ Kid(t, m, "right") = n THEN c
                             ELSE Kid(t, m, "right")
             /\ N[m].parent = IF m = c THEN Up(t, n) ELSE Up(t, m)
             /\ N[m].red = IF m = c THEN Hue(t, n) ELSE Hue(t, m)
      BY <1>1
<1>5. \A m \in Nodes, s \in Sides :
       Kid(u, m, s) = IF m = Up(t, n) /\ Kid(t, m, s) = n THEN c ELSE Kid(t, m, s)
  <2> SUFFICES ASSUME NEW m \in Nodes, NEW s \in Sides
      PROVE Kid(u, m, s) = IF m = Up(t, n) /\ Kid(t, m, s) = n THEN c ELSE Kid(t, m, s)
      OBVIOUS
  <2>1. Kid(u, m, "left") = N[m].left /\ Kid(u, m, "right") = N[m].right
        BY <1>3 DEF Kid
  <2> QED BY <1>4, <2>1 DEF Sides
<1>6. \A m \in Nodes : /\ Up(u, m) = (IF m = c THEN Up(t, n) ELSE Up(t, m))
                       /\ Hue(u, m) = (IF m = c THEN Hue(t, n) ELSE Hue(t, m))
  <2> SUFFICES ASSUME NEW m \in Nodes
      PROVE  /\ Up(u, m) = (IF m = c THEN Up(t, n) ELSE Up(t, m))
             /\ Hue(u, m) = (IF m = c THEN Hue(t, n) ELSE Hue(t, m))
      OBVIOUS
  <2>1. Up(u, m) = N[m].parent /\ Hue(u, m) = N[m].red
        BY <1>3 DEF Up, Hue
  <2> QED BY <1>4, <2>1
<1> QED BY <1>3, <1>5, <1>6 DEF Bypassed

LEMMA ReplaceGoes ==
  ASSUME tree \in Trees, Ranked(tree), NEW mem, NEW node, NEW parent,
         Head_(tree, "idle", node, parent, mem), NEW n \in mem,
         Nil \notin {Child(n, "left"), Child(n, "right")},
         NEW up, up = Replace(n).rebalance,
         NEW pc, pc = IF up = Nil THEN "done" ELSE "erase"
  PROVE  /\ tree.leftmost # n
         /\ Goes(Replace(n).stores, pc, Nil, up, mem \ {n})
<1>1. PICK pos, sub, bh : /\ Shape(tree, mem, sub, pos)
                          /\ Keyed => Sorted(mem, pos)
                          /\ LeftmostOf(tree, mem, pos)
                          /\ Colours(tree, "idle", node, parent, mem, bh)
      BY DEF Head_
<1>2. IsFiniteSet(mem) /\ Loose(tree, "idle", mem)
      BY DEF Head_
<1>3. /\ Bal(tree, mem, bh, Nil, "left") /\ NoRedRed(tree, mem, Nil)
      /\ ~ Red(tree, tree.root)
      BY <1>1 DEF Colours
<1>4. PICK L, R : L = Kid(tree, n, "left") /\ R = Kid(tree, n, "right")
      OBVIOUS
<1>5. L # Nil /\ R # Nil /\ L = Child(n, "left") /\ R = Child(n, "right")
      BY <1>4, Reads
<1>6. PICK S : S = Outermost(R, "left")
      OBVIOUS
<1>7. PICK P, p0, c : P = Up(tree, S) /\ p0 = Up(tree, n) /\ c = Kid(tree, S, "right")
      OBVIOUS
<1>8. Follows(n, S, L, R, P, p0, c)
      BY <1>4, <1>6, <1>7 DEF Follows
<1>9. PICK r, k : Ranks(r, tree) /\ k \in Nat /\ \A m \in Nodes : r[m] < k
      BY <1>1, <1>2, BoundedRank
<1>10. /\ {L, R, S, P} \subseteq mem /\ {c, p0} \subseteq mem \cup {Nil} /\ S \in sub[n]
       /\ Lone(tree, S, "right", c) /\ Kid(tree, S, "left") = Nil
       /\ n \notin {L, R, S, c, p0} /\ L # R /\ L \notin {S, c, P} /\ S \notin {P, c}
       /\ Up(tree, L) = n /\ Up(tree, R) = n
       /\ p0 \notin {S, L, R, P}
       /\ p0 # Nil => \E s \in Sides : Kid(tree, p0, s) = n
       /\ S = R => P = n
       /\ S # R => P # n /\ c # R
       /\ \A m \in mem, s \in Sides : Kid(tree, m, s) = S <=>
            m = P /\ s = (IF S = R THEN "right" ELSE "left")
       /\ \A x \in mem \ {n, S}, s \in Sides :
            Toward(pos, s, x, S) <=> Toward(pos, s, x, n)
       BY <1>1, <1>4, <1>5, <1>8, <1>9, SuccessorIs
<1>11. /\ mem \subseteq Nodes /\ Nil \notin Nodes /\ Nil \notin mem /\ n \in Nodes
       /\ \A m \in mem, s \in Sides :
            /\ Kid(tree, m, s) \in mem \cup {Nil}
            /\ Kid(tree, m, s) # Nil => Up(tree, Kid(tree, m, s)) = m
       BY <1>1, SubKids
<1>12. \A m \in Nodes \ mem, s \in Sides : Kid(tree, m, s) = Nil
       BY <1>2 DEF Loose
<1>13. Beside(n, S, L, R, P, p0, c, mem)
  <2>1. p0 # Nil => ~ (Kid(tree, p0, "left") = n /\ Kid(tree, p0, "right") = n)
    <3> SUFFICES ASSUME p0 # Nil, Kid(tree, p0, "left") = n PROVE Kid(tree, p0, "right") # n
        OBVIOUS
    <3>1. p0 \in mem /\ n # Nil
          BY <1>10, <1>11
    <3> QED BY <1>1, <3>1, Around DEF Sides, Other
  <2>2. \A m \in Nodes, s \in Sides : Kid(tree, m, s) = S <=>
            m = P /\ s = (IF S = R THEN "right" ELSE "left")
    <3>1. S # Nil /\ P \in mem
          BY <1>10, <1>11
    <3> QED BY <1>10, <1>12, <3>1
  <2> QED BY <1>4, <1>7, <1>10, <1>11, <2>1, <2>2 DEF Beside
<1>14. r[S] < r[n]
       BY <1>1, <1>9, <1>10, SubRank
<1>15. PICK to : to = IF S = R THEN S ELSE P
       OBVIOUS
<1>16. PICK q : q = (IF S = R THEN <<>>
                     ELSE SetChild(P, "left", c) \o SetChild(S, "right", R)
                            \o SetParent(R, S))
                    \o SetChild(S, "left", L)
                    \o SetParent(L, S)
                    \o ChangeChild(n, S, p0)
                    \o SetParentColor(S, p0, IsRed(n))
                    \o IfNode(c, SetParentColor(c, to, FALSE))
       OBVIOUS
<1>17. PICK u \in Trees : /\ Leads(tree, q, u)
                          /\ Replaced(tree, u, n, S, L, R, P, p0, c)
                          /\ u.leftmost = tree.leftmost
  <2>1. \E u \in Trees : /\ Leads(tree, ReplaceStores(n, S, L, R, P, p0, c, to), u)
                         /\ Replaced(tree, u, n, S, L, R, P, p0, c)
                         /\ u.leftmost = tree.leftmost
    <3>1. (S = R => to = S) /\ (S # R => to = P)
          BY <1>15
    <3> HIDE <1>15
    <3> QED BY <1>9, <1>13, <1>14, <3>1, DoReplace
  <2>2. q = ReplaceStores(n, S, L, R, P, p0, c, to)
        BY <1>16, Zenon DEF ReplaceStores
  <2> QED BY <2>1, <2>2
<1>18. Replace(n).stores = q /\ up = IF c = Nil /\ ~ IsRed(S) THEN to ELSE Nil
  <2>1. PICK x, y : /\ x = q /\ y = IF c = Nil /\ ~ IsRed(S) THEN to ELSE Nil
        OBVIOUS
  <2>2. /\ R = Child(n, "right") /\ L = Child(n, "left") /\ c = Child(S, "right")
        /\ P = Parent(S) /\ p0 = Parent(n)
        BY <1>5, <1>7, Reads
  <2>3. /\ to = (IF S = R THEN S ELSE Parent(S))
        /\ S # R => to = P
        BY <1>15, <2>2
  <2>4. q = (IF S = R THEN <<>>
             ELSE SetChild(to, "left", c) \o SetChild(S, "right", R) \o SetParent(R, S))
            \o SetChild(S, "left", L)
            \o SetParent(L, S)
            \o ChangeChild(n, S, p0)
            \o SetParentColor(S, p0, IsRed(n))
            \o IfNode(c, SetParentColor(c, to, FALSE))
    <3>1. CASE S = R
          BY <1>16, <3>1, Zenon
    <3>2. CASE S # R
          BY <1>16, <2>3, <3>2, Zenon
    <3> QED BY <3>1, <3>2
  <2>5. Replace(n) = [stores |-> q, rebalance |-> y]
        BY <1>6, <2>1, <2>2, <2>3, <2>4, Zenon DEF Replace
  <2> QED BY <2>1, <2>5
<1>19. PICK v : Bypassed(tree, v, S, c)
       BY BypassedExists
<1>20. c # Nil => ~ Hue(tree, S) /\ Hue(tree, S) \in BOOLEAN
  <2>1. c # Nil => ~ Hue(tree, S)
        BY <1>1, <1>3, <1>10, LoneRed
  <2>2. Hue(tree, S) \in BOOLEAN
    <3>1. S \in Nodes
          BY <1>10, <1>11
    <3> QED BY <3>1, TreeType
  <2> QED BY <2>1, <2>2
<1>21. Renamed(v, u, mem \ {S}, n, S)
  <2>1. \A m \in mem, s \in Sides : Kid(tree, m, s) = n => m = p0
        BY <1>7, <1>11
  <2>2. \A m \in mem : Up(tree, m) = n => m \in {L, R}
    <3> SUFFICES ASSUME NEW m \in mem, Up(tree, m) = n PROVE m \in {L, R}
        OBVIOUS
    <3>1. LinksAt(tree, mem, m)
          BY <1>1 DEF Shape
    <3>2. PICK s \in Sides : Kid(tree, n, s) = m
          BY <1>11, <3>1 DEF LinksAt
    <3> QED BY <1>4, <3>2 DEF Sides
  <2>3. tree.root = n <=> p0 = Nil
    <3>1. LinksAt(tree, mem, n) /\ (tree.root # Nil => Up(tree, tree.root) = Nil)
          BY <1>1 DEF Shape
    <3> QED BY <1>7, <1>11, <3>1 DEF LinksAt
  <2> QED BY <1>13, <1>17, <1>19, <1>20, <2>1, <2>2, <2>3, ReplaceRenames
<1>22. PICK sub1 : Shape(v, mem \ {S}, sub1, pos)
       BY <1>1, <1>10, <1>19, BypassShape
<1>23. PICK up1 : up1 = IF c = Nil /\ ~ Red(tree, S) THEN P ELSE Nil
       OBVIOUS
<1>24. /\ up = Ren(n, S, up1) /\ (up = Nil <=> up1 = Nil)
       /\ up1 \in (mem \ {S}) \cup {Nil}
  <2>1. IsRed(S) <=> Red(tree, S)
        BY Reads
  <2>2. S # Nil /\ P # Nil /\ n # Nil /\ P \in mem /\ P # S
        BY <1>10, <1>11
  <2>3. CASE c = Nil /\ ~ Red(tree, S)
    <3>1. up = to /\ up1 = P
          BY <1>18, <1>23, <2>1, <2>3
    <3>2. Ren(n, S, P) = to
          BY <1>10, <1>15 DEF Ren
    <3>3. to # Nil
          BY <1>15, <2>2
    <3> QED BY <2>2, <3>1, <3>2, <3>3
  <2>4. CASE ~ (c = Nil /\ ~ Red(tree, S))
    <3>1. up = Nil /\ up1 = Nil
          BY <1>18, <1>23, <2>1, <2>4
    <3> QED BY <2>2, <3>1 DEF Ren
  <2> QED BY <2>3, <2>4
<1>25. PICK pc1 : pc1 = IF up1 = Nil THEN "done" ELSE "erase"
       OBVIOUS
<1>26. pc = pc1 /\ pc1 \in {"done", "erase"}
       BY <1>24, <1>25
<1>27. \E bh1 : Colours(v, pc1, Nil, up1, mem \ {S}, bh1)
  <2>1. S \in mem /\ P = Up(tree, S)
        BY <1>7, <1>10
  <2>2. \A y, w : /\ y = (IF c = Nil /\ ~ Red(tree, S) THEN Up(tree, S) ELSE Nil)
                  /\ w = (IF y = Nil THEN "done" ELSE "erase")
                  => \E bh1 : Colours(v, w, Nil, y, mem \ {S}, bh1)
        BY <1>1, <1>3, <1>10, <1>19, <2>1, BypassColours, Zenon
  <2> QED BY <1>23, <1>25, <2>1, <2>2, Zenon
<1>28. PICK bh1 : Colours(v, pc1, Nil, up1, mem \ {S}, bh1)
       BY <1>27
<1>29. /\ n \in mem \ {S} /\ S \in Nodes /\ S \notin mem \ {S}
       /\ ((mem \ {S}) \ {n}) \cup {S} = mem \ {n}
       BY <1>10, <1>11
<1>30. PICK sub2 : Shape(u, mem \ {n}, sub2, pos)
  <2>1. \A x \in (mem \ {S}) \ {n}, s \in Sides :
          Toward(pos, s, x, S) <=> Toward(pos, s, x, n)
        BY <1>10
  <2>2. \E sub2 : Shape(u, ((mem \ {S}) \ {n}) \cup {S}, sub2, pos)
        BY <1>21, <1>22, <1>29, <2>1, RenameShape
  <2> QED BY <1>29, <2>2
<1>31. PICK bh2 : Colours(u, pc1, Nil, up, mem \ {n}, bh2)
  <2>1. \E bh2 : Colours(u, pc1, Nil, Ren(n, S, up1), ((mem \ {S}) \ {n}) \cup {S}, bh2)
    <3>1. PICK M, w, y : M = mem \ {S} /\ w = pc1 /\ y = up1
          OBVIOUS
    <3>2. /\ Renamed(v, u, M, n, S) /\ Shape(v, M, sub1, pos) /\ y \in M \cup {Nil}
          /\ Colours(v, w, Nil, y, M, bh1) /\ n \in M /\ S \in Nodes /\ S \notin M
          /\ w \in {"done", "erase"}
          BY <1>21, <1>22, <1>24, <1>26, <1>28, <1>29, <3>1
    <3>3. \E bh2 : Colours(u, w, Nil, Ren(n, S, y), (M \ {n}) \cup {S}, bh2)
          BY <3>2, RenameColours
    <3> QED BY <3>1, <3>3
  <2> QED BY <1>24, <1>29, <2>1
<1>32. tree.leftmost # n
  <2> SUFFICES ASSUME tree.leftmost = n PROVE FALSE
      OBVIOUS
  <2>1. Kid(tree, n, "left") = Nil
        BY <1>1, <1>9, NextOfLeftmost
  <2> QED BY <1>4, <1>5, <2>1
<1>33. LeftmostOf(u, mem \ {n}, pos)
  <2>1. u.leftmost = IF tree.leftmost = n THEN Next_(n) ELSE tree.leftmost
        BY <1>17, <1>32
  <2> QED BY <1>1, <1>9, <2>1, LeftmostGone
<1>34. Loose(u, pc1, mem \ {n})
  <2>1. \A m \in (Nodes \ mem) \cup {n}, s \in Sides : Kid(u, m, s) = Kid(tree, m, s)
    <3>1. \A m \in (Nodes \ mem) \cup {n} :
            m \in Nodes /\ m # S /\ m # p0 /\ ~ (m = P /\ S # R)
          BY <1>10, <1>11
    <3> QED BY <1>17, <3>1 DEF Replaced
  <2>2. pc1 # "idle"
        BY <1>26
  <2> QED BY <1>1, <1>2, <2>1, <2>2, LooseGone
<1>35. IsFiniteSet(mem \ {n}) /\ (Keyed => Sorted(mem \ {n}, pos))
       BY <1>1, <1>2, SortedGone, FS_RemoveElement
<1>36. Head_(u, pc1, Nil, up, mem \ {n})
       BY <1>30, <1>31, <1>33, <1>34, <1>35 DEF Head_
<1>37. Goes(q, pc1, Nil, up, mem \ {n})
       BY <1>17, <1>36 DEF Goes
<1> QED BY <1>18, <1>26, <1>32, <1>37
=============================================================================
