---------------------------- MODULE DriverProofs ----------------------------
(***************************************************************************)
(* Proofs about the replay loop: each id has one tree and each map one     *)
(* symbol, found again whatever was added in between, so that the driver   *)
(* counts every record in its place and its totals are right.  What the    *)
(* two red-black trees do is taken from RBTreeProofs, once for each tree.  *)
(***************************************************************************)
EXTENDS Driver, SumLemmas, SequenceTheorems

TP == INSTANCE RBTreeProofs WITH Nodes <- TreeStructs, Cmp <- CmpTree,
                                 tree <- trees, members <- tree_set
MP == INSTANCE RBTreeProofs WITH Nodes <- MapStructs, Cmp <- CmpMap,
                                 tree <- map_trees, members <- map_set

-----------------------------------------------------------------------------
(* The operators of the two instances are those that the proofs are about. *)

LEMMA SameTreeSearch == \A n : T!Search(n) = TP!Search(n)
BY DEF T!Search, TP!Search, T!SearchFrom, TP!SearchFrom, T!Child, TP!Child, T!Parent, TP!Parent

LEMMA SameTreeAdd ==
  ASSUME NEW n, T!Add(n)
  PROVE  TP!Add(n)
BY DEF T!Add, TP!Add, T!Search, TP!Search, T!SearchFrom, TP!SearchFrom,
       T!Child, TP!Child, T!Parent, TP!Parent, T!Link, TP!Link,
       T!SetParentColor, TP!SetParentColor, T!SetChild, TP!SetChild,
       T!ChangeChild, TP!ChangeChild

LEMMA SameTreeRebalance ==
  ASSUME T!Rebalance
  PROVE  TP!Rebalance
BY DEF T!Rebalance, TP!Rebalance, T!Store, TP!Store, T!Executed, TP!Executed,
       T!Sides, TP!Sides, T!Other, TP!Other, T!Continue, TP!Continue,
       T!Inserting, TP!Inserting, T!Recolouring, TP!Recolouring, T!SideOf, TP!SideOf,
       T!InsertDone, TP!InsertDone, T!InsertFlip, TP!InsertFlip,
       T!InsertRotate, TP!InsertRotate, T!RotateAtParent, TP!RotateAtParent,
       T!RotateAtGparent, TP!RotateAtGparent,
       T!EraseRotateSibling, TP!EraseRotateSibling, T!EraseFlip, TP!EraseFlip,
       T!EraseRotate, TP!EraseRotate, T!EraseRotateTwice, TP!EraseRotateTwice,
       T!SiblingUp, TP!SiblingUp, T!RotateSetParents, TP!RotateSetParents,
       T!IfNode, TP!IfNode, T!SetParent, TP!SetParent,
       T!Child, TP!Child, T!Parent, TP!Parent, T!IsRed, TP!IsRed,
       T!SetParentColor, TP!SetParentColor, T!SetChild, TP!SetChild,
       T!ChangeChild, TP!ChangeChild

LEMMA SameTreeReturn ==
  ASSUME T!Return
  PROVE  TP!Return
BY DEF T!Return, TP!Return, T!Idle, TP!Idle, T!Unlinked, TP!Unlinked

LEMMA SameTreeWalk == T!First = TP!First /\ \A n : T!Next_(n) = TP!Next_(n)
BY DEF T!First, TP!First, T!Next_, TP!Next_, T!Outermost, TP!Outermost,
       T!Ascend, TP!Ascend, T!Child, TP!Child, T!Parent, TP!Parent

LEMMA SameMapSearch == \A n : M!Search(n) = MP!Search(n)
BY DEF M!Search, MP!Search, M!SearchFrom, MP!SearchFrom, M!Child, MP!Child, M!Parent, MP!Parent

LEMMA SameMapAdd ==
  ASSUME NEW n, M!Add(n)
  PROVE  MP!Add(n)
BY DEF M!Add, MP!Add, M!Search, MP!Search, M!SearchFrom, MP!SearchFrom,
       M!Child, MP!Child, M!Parent, MP!Parent, M!Link, MP!Link,
       M!SetParentColor, MP!SetParentColor, M!SetChild, MP!SetChild,
       M!ChangeChild, MP!ChangeChild

LEMMA SameMapRebalance ==
  ASSUME M!Rebalance
  PROVE  MP!Rebalance
BY DEF M!Rebalance, MP!Rebalance, M!Store, MP!Store, M!Executed, MP!Executed,
       M!Sides, MP!Sides, M!Other, MP!Other, M!Continue, MP!Continue,
       M!Inserting, MP!Inserting, M!Recolouring, MP!Recolouring, M!SideOf, MP!SideOf,
       M!InsertDone, MP!InsertDone, M!InsertFlip, MP!InsertFlip,
       M!InsertRotate, MP!InsertRotate, M!RotateAtParent, MP!RotateAtParent,
       M!RotateAtGparent, MP!RotateAtGparent,
       M!EraseRotateSibling, MP!EraseRotateSibling, M!EraseFlip, MP!EraseFlip,
       M!EraseRotate, MP!EraseRotate, M!EraseRotateTwice, MP!EraseRotateTwice,
       M!SiblingUp, MP!SiblingUp, M!RotateSetParents, MP!RotateSetParents,
       M!IfNode, MP!IfNode, M!SetParent, MP!SetParent,
       M!Child, MP!Child, M!Parent, MP!Parent, M!IsRed, MP!IsRed,
       M!SetParentColor, MP!SetParentColor, M!SetChild, MP!SetChild,
       M!ChangeChild, MP!ChangeChild

LEMMA SameMapReturn ==
  ASSUME M!Return
  PROVE  MP!Return
BY DEF M!Return, MP!Return, M!Idle, MP!Idle, M!Unlinked, MP!Unlinked

LEMMA SameMapWalk == M!First = MP!First /\ \A n : M!Next_(n) = MP!Next_(n)
BY DEF M!First, MP!First, M!Next_, MP!Next_, M!Outermost, MP!Outermost,
       M!Ascend, MP!Ascend, M!Child, MP!Child, M!Parent, MP!Parent

-----------------------------------------------------------------------------
(* The structures and their keys.                                          *)

FirstOf(id) == <<id, 1>>

LEMMA StructTypes ==
  /\ Nil \notin TreeStructs /\ Nil \notin MapStructs
  /\ MapIds \subseteq Nat
  /\ \A s \in TreeStructs : IdOf(s) \in Nat
  /\ \A s \in MapStructs : IdOf(s) \in MapIds
  /\ \A r \in Records : r.id \in Nat /\ r.maps \in Seq(MapIds) /\ FirstOf(r.id) \in TreeStructs
  /\ \A m \in MapIds : FirstOf(m) \in MapStructs
  /\ \A m : IdOf(FirstOf(m)) = m
<1>1. Records \subseteq [id : Nat, maps : Seq(Nat)]
      BY RecordsAssumption
<1>2. \A r \in Records : r.id \in Nat /\ r.maps \in Seq(Nat)
      BY <1>1
<1>3. \A r \in Records : \A i \in DOMAIN r.maps : r.maps[i] \in Nat
      BY <1>2
<1>4. MapIds \subseteq Nat
      BY <1>3 DEF MapIds
<1>5. \A r \in Records : r.maps \in Seq(MapIds)
  <2>1. ASSUME NEW r \in Records PROVE r.maps \in Seq(MapIds)
    <3>1. \A i \in DOMAIN r.maps : r.maps[i] \in MapIds
          BY DEF MapIds
    <3>2. PICK s, n : s = r.maps /\ n = Len(s)
          OBVIOUS
    <3>3. n \in Nat /\ s \in [1 .. n -> Nat]
          BY <1>2, <3>2, LenProperties
    <3>4. s \in [1 .. n -> MapIds]
          BY <3>1, <3>2, <3>3
    <3> QED BY <3>2, <3>3, <3>4
  <2> QED BY <2>1
<1>6. Nil \notin TreeStructs /\ Nil \notin MapStructs
      BY NilAssumption
<1>7. /\ \A s \in TreeStructs : IdOf(s) \in Nat
      /\ \A r \in Records : FirstOf(r.id) \in TreeStructs
      BY <1>2 DEF TreeStructs, Structs, IdOf, FirstOf
<1>8. /\ \A s \in MapStructs : IdOf(s) \in MapIds
      /\ \A m \in MapIds : FirstOf(m) \in MapStructs
      /\ \A m : IdOf(FirstOf(m)) = m
      BY DEF MapStructs, Structs, IdOf, FirstOf
<1> QED BY <1>2, <1>4, <1>5, <1>6, <1>7, <1>8

LEMMA TreesKeyed == TP!Keyed
<1>1. PICK key : key = [s \in TreeStructs |-> IdOf(s)]
      OBVIOUS
<1>2. key \in [TreeStructs -> Int]
      BY <1>1, StructTypes
<1>3. \A m, n \in TreeStructs :
        CmpTree(m, n) = IF key[m] < key[n] THEN -1 ELSE IF key[m] > key[n] THEN 1 ELSE 0
      BY <1>1 DEF CmpTree
<1> QED BY <1>2, <1>3 DEF TP!Keyed, TP!IsKey

LEMMA TreeCmp == \A s, t \in TreeStructs : CmpTree(s, t) = 0 <=> IdOf(s) = IdOf(t)
BY StructTypes DEF CmpTree

LEMMA IntType == \A n \in Int : ToInt(n) \in Int
BY RecordsAssumption DEF ToInt

LEMMA MapsKeyed ==
  ASSUME IdsFit
  PROVE  /\ MP!Keyed
         /\ \A s, t \in MapStructs : CmpMap(s, t) = 0 <=> IdOf(s) = IdOf(t)
<1>1. \A a, b \in MapIds : a - b \in Int /\ ToInt(a - b) \in Int
      BY StructTypes, IntType
<1>2. \A a, b, c \in MapIds : /\ ToInt(a - b) + ToInt(b - c) = ToInt(a - c)
                              /\ a # b => ToInt(a - b) # 0
      BY DEF IdsFit
<1>3. \A a \in MapIds : ToInt(a - a) = 0
  <2>1. ASSUME NEW a \in MapIds PROVE ToInt(a - a) = 0
    <3>1. PICK d : d = ToInt(a - a)
          OBVIOUS
    <3>2. d \in Int
          BY <1>1, <3>1
    <3>3. ToInt(a - a) + ToInt(a - a) = ToInt(a - a)
          BY <1>2
    <3>4. d + d = d
          BY <3>1, <3>3
    <3>5. d = 0
          BY <3>2, <3>4
    <3> QED BY <3>1, <3>5
  <2> QED BY <2>1
<1>4. CASE MapStructs = {}
  <2>1. PICK key : key = [s \in MapStructs |-> 0]
        OBVIOUS
  <2>2. MP!IsKey(key)
        BY <1>4, <2>1 DEF MP!IsKey
  <2> QED BY <1>4, <2>2 DEF MP!Keyed
<1>5. CASE MapStructs # {}
  <2>1. PICK c \in MapIds : TRUE
        BY <1>5, StructTypes
  <2>2. PICK key : key = [s \in MapStructs |-> ToInt(IdOf(s) - c)]
        OBVIOUS
  <2>3. key \in [MapStructs -> Int]
        BY <1>1, <2>1, <2>2, StructTypes
  <2>4. ASSUME NEW m \in MapStructs, NEW n \in MapStructs
        PROVE  /\ CmpMap(m, n) = IF key[m] < key[n] THEN -1
                                 ELSE IF key[m] > key[n] THEN 1 ELSE 0
               /\ CmpMap(m, n) = 0 <=> IdOf(m) = IdOf(n)
    <3>1. PICK a, b : a = IdOf(m) /\ b = IdOf(n)
          OBVIOUS
    <3>2. a \in MapIds /\ b \in MapIds
          BY <3>1, StructTypes
    <3>3. PICK cmp, x, y : cmp = ToInt(a - b) /\ x = ToInt(a - c) /\ y = ToInt(b - c)
          OBVIOUS
    <3>4. /\ cmp \in Int /\ x \in Int /\ y \in Int /\ cmp + y = x
          /\ cmp = 0 <=> a = b
          BY <1>1, <1>2, <1>3, <2>1, <3>2, <3>3
    <3>5. CmpMap(m, n) = IF cmp < 0 THEN -1 ELSE IF cmp > 0 THEN 1 ELSE 0
          BY <3>1, <3>3 DEF CmpMap
    <3>6. key[m] = x /\ key[n] = y
          BY <2>2, <3>1, <3>3
    <3>7. /\ cmp < 0 <=> x < y
          /\ cmp > 0 <=> x > y
          BY <3>4
    <3> QED BY <3>1, <3>4, <3>5, <3>6, <3>7
  <2>5. MP!Keyed
        BY <2>3, <2>4 DEF MP!Keyed, MP!IsKey
  <2> QED BY <2>4, <2>5
<1> QED BY <1>4, <1>5

-----------------------------------------------------------------------------
(* What the searches find when each id has at most its first structure.    *)

LEMMA TreeSearch ==
  ASSUME TP!IInv, op.pc = "idle", \A s \in tree_set : s = FirstOf(IdOf(s)),
         NEW s \in TreeStructs, NEW found, found = T!Search(s).found
  PROVE  /\ found # Nil => found = FirstOf(IdOf(s)) /\ found \in tree_set
         /\ found = Nil => FirstOf(IdOf(s)) \notin tree_set
<1>1. Nil \notin TreeStructs
      BY StructTypes
<1>2. TP!Settled /\ found = TP!Search(s).found
      BY SameTreeSearch DEF TP!Settled
<1>3. /\ found # Nil => found \in tree_set /\ CmpTree(found, s) = 0
      /\ found = Nil => \A m \in tree_set : CmpTree(m, s) # 0
      BY <1>1, <1>2, TreesKeyed, TP!SearchRight
<1>4. tree_set \subseteq TreeStructs
      BY <1>1, TP!MembersAre
<1> QED BY <1>3, <1>4, TreeCmp, StructTypes

LEMMA MapSearchFinds ==
  ASSUME IdsFit, MP!IInv, op.pc = "idle", \A s \in map_set : s = FirstOf(IdOf(s)),
         NEW s \in MapStructs, NEW found, found = M!Search(s).found
  PROVE  /\ found # Nil => found = FirstOf(IdOf(s)) /\ found \in map_set
         /\ found = Nil => FirstOf(IdOf(s)) \notin map_set
<1>1. Nil \notin MapStructs
      BY StructTypes
<1>2. MP!Settled /\ found = MP!Search(s).found
      BY SameMapSearch DEF MP!Settled
<1>3. /\ found # Nil => found \in map_set /\ CmpMap(found, s) = 0
      /\ found = Nil => \A m \in map_set : CmpMap(m, s) # 0
      BY <1>1, <1>2, MapsKeyed, MP!SearchRight
<1>4. map_set \subseteq MapStructs
      BY <1>1, MP!MembersAre
<1> QED BY <1>3, <1>4, MapsKeyed, StructTypes

-----------------------------------------------------------------------------
(* The inductive invariant.  op serves both trees: the one that the driver *)
(* does not work on has no call in progress.                               *)

TreeCall == IF pc = "get_tree" THEN op ELSE T!Idle
MapCall == IF pc = "get_map" THEN op ELSE M!Idle

TreesInv ==
  /\ TP!UnderWay(trees, TreeCall, tree_set)
  /\ MP!UnderWay(map_trees, MapCall, map_set)
  /\ pc = "main" => op = T!Idle
  /\ TreeCall = T!Idle => \A s \in TreeStructs \ tree_set : trees.node[s] = T!Unlinked
  /\ MapCall = M!Idle => \A s \in MapStructs \ map_set : map_trees.node[s] = M!Unlinked

(* The entries that have their map symbol, and those that wait for it.     *)
Resolving ==
  /\ record \in Records
  /\ resolved \in Seq(MapStructs) /\ todo \in Seq(MapIds)
  /\ Len(resolved) + Len(todo) = Len(record.maps)
  /\ \A i \in 1 .. Len(resolved) : resolved[i] = FirstOf(record.maps[i])
  /\ \A i \in 1 .. Len(todo) : todo[i] = record.maps[Len(resolved) + i]

AtMain ==
  /\ pc = "main"
  /\ record = NoRecord /\ todo = <<>> /\ resolved = <<>>
  /\ cs_tree = Nil /\ ms = Nil

AtGetTree ==
  /\ pc = "get_tree"
  /\ record \in Records /\ todo = <<>> /\ resolved = <<>> /\ ms = Nil
  /\ cs_tree = IF op.pc = "idle" THEN Nil ELSE FirstOf(record.id)

AtGetMap ==
  /\ pc = "get_map"
  /\ Resolving
  /\ cs_tree = FirstOf(record.id)
  /\ op.pc = "idle" => ms = Nil
  /\ op.pc # "idle" => todo # <<>> /\ ms = FirstOf(Head(todo))

ReplayedTrees == {FirstOf(r.id) : r \in Replayed}
ReplayedMaps ==
  {FirstOf(m) : m \in UNION {{r.maps[i] : i \in DOMAIN r.maps} : r \in Replayed}}

(* What the trees hold: the first structure of each id that was met.       *)
HoldsInv ==
  /\ tree_set = ReplayedTrees \cup ({cs_tree} \ {Nil})
  /\ map_set = ReplayedMaps \cup {resolved[i] : i \in DOMAIN resolved} \cup ({ms} \ {Nil})
  /\ last_ms \in map_set \cup {Nil}

CountInv ==
  /\ inserted \subseteq [tree : TreeStructs, maps : Seq(MapStructs), nr : Nat]
  /\ IsFiniteSet(inserted) /\ Cardinality(inserted) <= MaxRecords
  /\ pc # "main" => Cardinality(inserted) < MaxRecords
  /\ \A i \in inserted : i.nr \in 1 .. Cardinality(inserted)
  /\ replayed \in [Records -> 0 .. Cardinality(inserted)]

DriverInv ==
  /\ TreesInv
  /\ AtMain \/ AtGetTree \/ AtGetMap
  /\ HoldsInv
  /\ CountInv

(* Which structures the trees hold.                                        *)
LEMMA OnlyFirsts ==
  ASSUME DriverInv
  PROVE  /\ \A s \in tree_set : s \in TreeStructs /\ s = FirstOf(IdOf(s))
         /\ \A s \in map_set : s \in MapStructs /\ s = FirstOf(IdOf(s))
<1>1. \A id : FirstOf(id) = FirstOf(IdOf(FirstOf(id)))
      BY StructTypes
<1>2. \A r \in Replayed : r \in Records
      BY DEF Replayed
<1>3. cs_tree = Nil \/ (record \in Records /\ cs_tree = FirstOf(record.id))
      BY DEF DriverInv, AtMain, AtGetTree, AtGetMap, Resolving
<1>4. \A s \in tree_set : s \in TreeStructs /\ s = FirstOf(IdOf(s))
  <2>1. \A s \in ReplayedTrees : s \in TreeStructs /\ s = FirstOf(IdOf(s))
        BY <1>1, <1>2, StructTypes DEF ReplayedTrees
  <2> QED BY <1>1, <1>3, <2>1, StructTypes DEF DriverInv, HoldsInv
<1>5. \A s \in map_set : s \in MapStructs /\ s = FirstOf(IdOf(s))
  <2>1. ASSUME NEW s \in ReplayedMaps PROVE s \in MapStructs /\ s = FirstOf(IdOf(s))
    <3>1. PICK m \in UNION {{r.maps[i] : i \in DOMAIN r.maps} : r \in Replayed} :
            s = FirstOf(m)
          BY DEF ReplayedMaps
    <3>2. m \in MapIds
          BY <1>2, <3>1 DEF MapIds
    <3> QED BY <1>1, <3>1, <3>2, StructTypes
  <2>2. ASSUME NEW i \in DOMAIN resolved
        PROVE  resolved[i] \in MapStructs /\ resolved[i] = FirstOf(IdOf(resolved[i]))
    <3>1. CASE resolved = <<>>
          BY <2>2, <3>1
    <3>2. CASE Resolving
      <4>1. /\ i \in 1 .. Len(resolved) /\ resolved[i] \in MapStructs
            /\ resolved[i] = FirstOf(record.maps[i])
            BY <2>2, <3>2 DEF Resolving
      <4> QED BY <1>1, <4>1
    <3> QED BY <3>1, <3>2 DEF DriverInv, AtMain, AtGetTree, AtGetMap
  <2>3. ms # Nil => ms \in MapStructs /\ ms = FirstOf(IdOf(ms))
    <3> SUFFICES ASSUME ms # Nil PROVE ms \in MapStructs /\ ms = FirstOf(IdOf(ms))
        OBVIOUS
    <3>1. Resolving /\ todo # <<>> /\ ms = FirstOf(Head(todo))
          BY DEF DriverInv, AtMain, AtGetTree, AtGetMap
    <3>2. Head(todo) \in MapIds
          BY <3>1, HeadTailProperties DEF Resolving
    <3> QED BY <1>1, <3>1, <3>2, StructTypes
  <2> QED BY <2>1, <2>2, <2>3 DEF DriverInv, HoldsInv
<1> QED BY <1>4, <1>5

(* Where a tree stands while there is no call on it.                       *)
LEMMA IdleCalls ==
  ASSUME DriverInv, op.pc = "idle"
  PROVE  op = T!Idle /\ op = M!Idle /\ TreeCall = op /\ MapCall = op
         /\ TP!IInv /\ MP!IInv /\ TP!Settled /\ MP!Settled
<1>1. Nil \notin TreeStructs /\ Nil \notin MapStructs
      BY StructTypes
<1>2. T!Idle = M!Idle /\ TP!Idle = T!Idle /\ MP!Idle = T!Idle
      BY DEF T!Idle, M!Idle, TP!Idle, MP!Idle
<1>3. op = T!Idle
  <2>1. CASE pc = "get_tree"
    <3>1. TP!IInv /\ TP!Settled
          BY <2>1 DEF DriverInv, TreesInv, TreeCall, TP!IInv, TP!Settled
    <3> QED BY <1>1, <1>2, <3>1, TP!IdleIs
  <2>2. CASE pc = "get_map"
    <3>1. MP!IInv /\ MP!Settled
          BY <2>2 DEF DriverInv, TreesInv, MapCall, MP!IInv, MP!Settled
    <3> QED BY <1>1, <1>2, <3>1, MP!IdleIs
  <2>3. CASE pc = "main"
        BY <2>3 DEF DriverInv, TreesInv
  <2> QED BY <2>1, <2>2, <2>3 DEF DriverInv, AtMain, AtGetTree, AtGetMap
<1>4. TreeCall = op /\ MapCall = op
      BY <1>2, <1>3 DEF TreeCall, MapCall
<1>5. TP!IInv /\ MP!IInv /\ TP!Settled /\ MP!Settled
      BY <1>4 DEF DriverInv, TreesInv, TP!IInv, MP!IInv, TP!Settled, MP!Settled
<1> QED BY <1>2, <1>3, <1>4, <1>5

-----------------------------------------------------------------------------
(* What the steps of a call on a tree do to the trees.                     *)

LEMMA AddToTrees ==
  ASSUME DriverInv, pc = "get_tree", T!Add(Fresh(record.id, tree_set)), pc' = pc,
         UNCHANGED mapVars
  PROVE  /\ op.pc = "idle" /\ op'.pc = "insert"
         /\ Fresh(record.id, tree_set) = FirstOf(record.id)
         /\ tree_set' = tree_set \cup {FirstOf(record.id)}
         /\ TreesInv'
<1>1. PICK s : s = Fresh(record.id, tree_set)
      OBVIOUS
<1>2. TP!Add(s) /\ Nil \notin TreeStructs
      BY <1>1, SameTreeAdd, StructTypes
<1>3. /\ op.pc = "idle" /\ op'.pc = "insert" /\ TP!Search(s).found = Nil
      /\ tree_set' = tree_set \cup {s}
      BY <1>2, TP!AddEffect
<1>4. record \in Records
      BY DEF DriverInv, AtMain, AtGetTree, AtGetMap
<1>5. s \in TreeStructs /\ IdOf(s) = record.id
      BY <1>1, <1>4, StructTypes DEF Fresh, TreeStructs, Structs, IdOf, FirstOf
<1>6. FirstOf(record.id) \notin tree_set
      BY <1>3, <1>5, IdleCalls, OnlyFirsts, SameTreeSearch, TreeSearch
<1>7. s = FirstOf(record.id)
      BY <1>1, <1>6 DEF Fresh, FirstOf
<1>8. TP!IInv'
      BY <1>2, <1>3, <1>5, <1>6, <1>7, IdleCalls, TP!AddKeeps
<1>9. TreeCall' = op' /\ MapCall' = M!Idle /\ MapCall = M!Idle
      BY DEF TreeCall, MapCall
<1>10. TreeCall' # T!Idle
       BY <1>3, <1>9 DEF T!Idle
<1>11. TreesInv'
       BY <1>8, <1>9, <1>10 DEF DriverInv, TreesInv, TP!IInv, mapVars
<1> QED BY <1>1, <1>3, <1>7, <1>11

LEMMA RebalanceTrees ==
  ASSUME DriverInv, pc = "get_tree", T!Rebalance, pc' = pc, UNCHANGED mapVars
  PROVE  op.pc # "idle" /\ op'.pc # "idle" /\ tree_set' = tree_set /\ TreesInv'
<1>1. TP!Rebalance /\ Nil \notin TreeStructs
      BY SameTreeRebalance, StructTypes
<1>2. TP!IInv
      BY DEF DriverInv, TreesInv, TreeCall, TP!IInv
<1>3. op.pc # "idle" /\ op'.pc # "idle" /\ tree_set' = tree_set
      BY <1>1, <1>2, TP!RebalanceEffect
<1>4. TP!IInv'
      BY <1>1, <1>2, TP!StepKeeps DEF TP!Step
<1>5. TreeCall' = op' /\ MapCall' = M!Idle /\ MapCall = M!Idle
      BY DEF TreeCall, MapCall
<1>6. TreeCall' # T!Idle
      BY <1>3, <1>5 DEF T!Idle
<1>7. TreesInv'
      BY <1>4, <1>5, <1>6 DEF DriverInv, TreesInv, TP!IInv, mapVars
<1> QED BY <1>3, <1>7

LEMMA ReturnFromTrees ==
  ASSUME DriverInv, pc = "get_tree", T!Return, pc' = "get_map", UNCHANGED mapVars
  PROVE  op.pc # "idle" /\ op'.pc = "idle" /\ tree_set' = tree_set /\ TreesInv'
<1>1. TP!Return /\ Nil \notin TreeStructs
      BY SameTreeReturn, StructTypes
<1>2. TP!IInv
      BY DEF DriverInv, TreesInv, TreeCall, TP!IInv
<1>3. /\ op.pc = "done" /\ op' = TP!Idle /\ op'.pc = "idle" /\ tree_set' = tree_set
      /\ \A s \in TreeStructs \ tree_set : trees'.node[s] = TP!Unlinked
      BY <1>1, <1>2, TP!ReturnEffect
<1>4. TP!IInv'
      BY <1>1, <1>2, TP!StepKeeps DEF TP!Step
<1>5. T!Idle = TP!Idle /\ M!Idle = TP!Idle /\ T!Unlinked = TP!Unlinked
      BY DEF T!Idle, M!Idle, TP!Idle, T!Unlinked, TP!Unlinked
<1>6. TreeCall' = op' /\ MapCall' = M!Idle /\ MapCall = M!Idle
      BY <1>3, <1>5 DEF TreeCall, MapCall
<1>7. TreesInv'
      BY <1>3, <1>4, <1>5, <1>6 DEF DriverInv, TreesInv, TP!IInv, mapVars
<1> QED BY <1>3, <1>7

LEMMA AddToMaps ==
  ASSUME IdsFit, DriverInv, pc = "get_map", todo # <<>>, M!Add(Fresh(Head(todo), map_set)),
         pc' = pc, UNCHANGED treeVars
  PROVE  /\ op.pc = "idle" /\ op'.pc = "insert"
         /\ Fresh(Head(todo), map_set) = FirstOf(Head(todo))
         /\ map_set' = map_set \cup {FirstOf(Head(todo))}
         /\ TreesInv'
<1>1. PICK s : s = Fresh(Head(todo), map_set)
      OBVIOUS
<1>2. MP!Add(s) /\ Nil \notin MapStructs
      BY <1>1, SameMapAdd, StructTypes
<1>3. /\ op.pc = "idle" /\ op'.pc = "insert" /\ MP!Search(s).found = Nil
      /\ map_set' = map_set \cup {s}
      BY <1>2, MP!AddEffect
<1>4. Head(todo) \in MapIds
      BY HeadTailProperties DEF DriverInv, AtMain, AtGetTree, AtGetMap, Resolving
<1>5. s \in MapStructs /\ IdOf(s) = Head(todo)
      BY <1>1, <1>4, StructTypes DEF Fresh, MapStructs, Structs, IdOf, FirstOf
<1>6. FirstOf(Head(todo)) \notin map_set
      BY <1>3, <1>5, IdleCalls, OnlyFirsts, SameMapSearch, MapSearchFinds
<1>7. s = FirstOf(Head(todo))
      BY <1>1, <1>6 DEF Fresh, FirstOf
<1>8. MP!IInv'
      BY <1>2, <1>3, <1>5, <1>6, <1>7, IdleCalls, MP!AddKeeps
<1>9. MapCall' = op' /\ TreeCall' = T!Idle /\ TreeCall = T!Idle
      BY DEF TreeCall, MapCall
<1>10. MapCall' # M!Idle
       BY <1>3, <1>9 DEF M!Idle
<1>11. TreesInv'
       BY <1>8, <1>9, <1>10 DEF DriverInv, TreesInv, MP!IInv, treeVars
<1> QED BY <1>1, <1>3, <1>7, <1>11

LEMMA RebalanceMaps ==
  ASSUME DriverInv, pc = "get_map", M!Rebalance, pc' = pc, UNCHANGED treeVars
  PROVE  op.pc # "idle" /\ op'.pc # "idle" /\ map_set' = map_set /\ TreesInv'
<1>1. MP!Rebalance /\ Nil \notin MapStructs
      BY SameMapRebalance, StructTypes
<1>2. MP!IInv
      BY DEF DriverInv, TreesInv, MapCall, MP!IInv
<1>3. op.pc # "idle" /\ op'.pc # "idle" /\ map_set' = map_set
      BY <1>1, <1>2, MP!RebalanceEffect
<1>4. MP!IInv'
      BY <1>1, <1>2, MP!StepKeeps DEF MP!Step
<1>5. MapCall' = op' /\ TreeCall' = T!Idle /\ TreeCall = T!Idle
      BY DEF TreeCall, MapCall
<1>6. MapCall' # M!Idle
      BY <1>3, <1>5 DEF M!Idle
<1>7. TreesInv'
      BY <1>4, <1>5, <1>6 DEF DriverInv, TreesInv, MP!IInv, treeVars
<1> QED BY <1>3, <1>7

LEMMA ReturnFromMaps ==
  ASSUME DriverInv, pc = "get_map", M!Return, pc' = pc, UNCHANGED treeVars
  PROVE  op.pc # "idle" /\ op'.pc = "idle" /\ map_set' = map_set /\ TreesInv'
<1>1. MP!Return /\ Nil \notin MapStructs
      BY SameMapReturn, StructTypes
<1>2. MP!IInv
      BY DEF DriverInv, TreesInv, MapCall, MP!IInv
<1>3. /\ op.pc = "done" /\ op' = MP!Idle /\ op'.pc = "idle" /\ map_set' = map_set
      /\ \A s \in MapStructs \ map_set : map_trees'.node[s] = MP!Unlinked
      BY <1>1, <1>2, MP!ReturnEffect
<1>4. MP!IInv'
      BY <1>1, <1>2, MP!StepKeeps DEF MP!Step
<1>5. M!Idle = MP!Idle /\ T!Idle = MP!Idle /\ M!Unlinked = MP!Unlinked
      BY DEF T!Idle, M!Idle, MP!Idle, M!Unlinked, MP!Unlinked
<1>6. MapCall' = op' /\ TreeCall' = T!Idle /\ TreeCall = T!Idle
      BY <1>3, <1>5 DEF TreeCall, MapCall
<1>7. TreesInv'
      BY <1>3, <1>4, <1>5, <1>6 DEF DriverInv, TreesInv, MP!IInv, treeVars
<1> QED BY <1>3, <1>7

LEMMA TreesStay ==
  ASSUME DriverInv, op.pc = "idle", UNCHANGED <<treeVars, mapVars, op>>
  PROVE  TreesInv'
<1>1. op = T!Idle /\ op = M!Idle /\ TreeCall = op /\ MapCall = op
      BY IdleCalls
<1>2. TreeCall' = op /\ MapCall' = op
      BY <1>1 DEF TreeCall, MapCall
<1> QED BY <1>1, <1>2 DEF DriverInv, TreesInv, treeVars, mapVars

-----------------------------------------------------------------------------
(* Every action keeps the invariant.                                       *)

LEMMA CountsStay ==
  ASSUME CountInv, UNCHANGED <<inserted, replayed>>,
         pc' = "main" \/ Cardinality(inserted) < MaxRecords
  PROVE  CountInv'
BY DEF CountInv

LEMMA ReplayedStay ==
  ASSUME UNCHANGED replayed
  PROVE  ReplayedTrees' = ReplayedTrees /\ ReplayedMaps' = ReplayedMaps
BY DEF ReplayedTrees, ReplayedMaps, Replayed

LEMMA DriverInit == Init => DriverInv
<1> SUFFICES ASSUME Init PROVE DriverInv
    OBVIOUS
<1>1. Nil \notin TreeStructs /\ Nil \notin MapStructs
      BY StructTypes
<1>2. T!EmptyTree = TP!EmptyTree /\ M!EmptyTree = MP!EmptyTree /\ T!Idle = TP!Idle
      /\ T!Idle = MP!Idle /\ M!Idle = T!Idle
      BY DEF T!EmptyTree, TP!EmptyTree, M!EmptyTree, MP!EmptyTree, T!Idle, TP!Idle, M!Idle,
             MP!Idle, T!Unlinked, TP!Unlinked, M!Unlinked, MP!Unlinked
<1>3. TP!IInv /\ MP!IInv
      BY <1>1, <1>2, TP!InitInv, MP!InitInv DEF Init, TP!Init, MP!Init
<1>4. TreeCall = op /\ MapCall = op /\ op = T!Idle
      BY <1>2 DEF Init, TreeCall, MapCall
<1>5. /\ \A s \in TreeStructs : trees.node[s] = T!Unlinked
      /\ \A s \in MapStructs : map_trees.node[s] = M!Unlinked
      BY DEF Init, T!EmptyTree, M!EmptyTree
<1>6. TreesInv
      BY <1>3, <1>4, <1>5 DEF TreesInv, TP!IInv, MP!IInv
<1>7. AtMain
      BY DEF Init, AtMain
<1>8. Replayed = {}
      BY DEF Init, Replayed
<1>9. HoldsInv
      BY <1>8 DEF Init, HoldsInv, ReplayedTrees, ReplayedMaps
<1>10. CountInv
       BY FS_EmptySet, RecordsAssumption DEF Init, CountInv
<1> QED BY <1>6, <1>7, <1>9, <1>10 DEF DriverInv

LEMMA NextRecordKeeps ==
  ASSUME DriverInv, NEW r \in Records, NextRecord(r)
  PROVE  DriverInv'
<1>1. AtMain /\ op = T!Idle /\ op.pc = "idle"
      BY DEF NextRecord, DriverInv, TreesInv, AtMain, AtGetTree, AtGetMap, T!Idle
<1>2. TreesInv'
      BY <1>1, TreesStay DEF NextRecord
<1>3. AtGetTree'
      BY <1>1 DEF NextRecord, AtMain, AtGetTree
<1>4. HoldsInv'
      BY ReplayedStay DEF NextRecord, DriverInv, HoldsInv, treeVars, mapVars
<1>5. CountInv'
      BY CountsStay DEF NextRecord, DriverInv
<1> QED BY <1>2, <1>3, <1>4, <1>5 DEF DriverInv

(* get_tree() returns the first structure of the record's id.              *)
LEMMA HaveTreeKeeps ==
  ASSUME AtGetTree, HaveTree, record' = record, cs_tree' = FirstOf(record.id),
         op'.pc = "idle", UNCHANGED <<ms, resolved>>
  PROVE  AtGetMap'
<1>1. record \in Records /\ resolved = <<>> /\ ms = Nil
      BY DEF AtGetTree
<1>2. record.maps \in Seq(MapIds)
      BY <1>1, StructTypes
<1>3. PICK maps : maps = record.maps
      OBVIOUS
<1>4. /\ maps \in Seq(MapIds) /\ Len(maps) \in Nat
      /\ Len(resolved) = 0 /\ resolved \in Seq(MapStructs)
      BY <1>1, <1>2, <1>3
<1>5. Resolving'
  <2>1. todo' = maps /\ record'.maps = maps /\ resolved' = resolved /\ record' \in Records
        BY <1>1, <1>3 DEF HaveTree
  <2>2. \A i \in 1 .. Len(maps) : 0 + i = i
        OBVIOUS
  <2> QED BY <1>4, <2>1, <2>2 DEF Resolving
<1> QED BY <1>1, <1>5 DEF AtGetMap, HaveTree

LEMMA TreeFoundKeeps ==
  ASSUME DriverInv, TreeFound
  PROVE  DriverInv'
<1>1. AtGetTree /\ op.pc = "idle" /\ record \in Records /\ cs_tree = Nil
      BY DEF TreeFound, DriverInv, AtMain, AtGetTree, AtGetMap
<1>2. PICK found : found = T!Search(FirstOf(record.id)).found
      OBVIOUS
<1>3. found # Nil /\ cs_tree' = found /\ HaveTree
      BY <1>2 DEF TreeFound, FirstOf
<1>4. FirstOf(record.id) \in TreeStructs /\ IdOf(FirstOf(record.id)) = record.id
      BY <1>1, StructTypes
<1>5. found = FirstOf(record.id) /\ found \in tree_set
      BY <1>1, <1>2, <1>3, <1>4, IdleCalls, OnlyFirsts, TreeSearch
<1>6. TreesInv'
      BY <1>1, TreesStay DEF TreeFound
<1>7. AtGetMap'
      BY <1>1, <1>3, <1>5, HaveTreeKeeps DEF TreeFound
<1>8. HoldsInv'
  <2>1. tree_set = ReplayedTrees
        BY <1>1 DEF DriverInv, HoldsInv
  <2>2. tree_set = ReplayedTrees \cup ({found} \ {Nil})
        BY <1>5, <2>1
  <2>3. /\ map_set = ReplayedMaps \cup {resolved[i] : i \in DOMAIN resolved}
                                  \cup ({ms} \ {Nil})
        /\ last_ms \in map_set \cup {Nil}
        BY DEF DriverInv, HoldsInv
  <2> QED BY <1>3, <2>2, <2>3, ReplayedStay DEF TreeFound, HoldsInv, treeVars, mapVars
<1>9. CountInv'
      BY CountsStay DEF TreeFound, DriverInv, CountInv
<1> QED BY <1>6, <1>7, <1>8, <1>9 DEF DriverInv

LEMMA TreeNewKeeps ==
  ASSUME DriverInv, TreeNew
  PROVE  DriverInv'
<1>1. /\ pc = "get_tree" /\ T!Add(Fresh(record.id, tree_set)) /\ pc' = pc
      /\ cs_tree' = Fresh(record.id, tree_set) /\ UNCHANGED mapVars
      BY DEF TreeNew
<1>2. /\ op.pc = "idle" /\ op'.pc = "insert"
      /\ Fresh(record.id, tree_set) = FirstOf(record.id)
      /\ tree_set' = tree_set \cup {FirstOf(record.id)}
      /\ TreesInv'
      BY <1>1, AddToTrees
<1>3. AtGetTree /\ cs_tree = Nil /\ record \in Records
      BY <1>1, <1>2 DEF DriverInv, AtMain, AtGetTree, AtGetMap
<1>4. AtGetTree'
      BY <1>1, <1>2, <1>3 DEF TreeNew, AtGetTree
<1>5. HoldsInv'
  <2>1. FirstOf(record.id) # Nil
        BY <1>3, StructTypes
  <2>2. tree_set = ReplayedTrees
        BY <1>3 DEF DriverInv, HoldsInv
  <2>3. tree_set' = ReplayedTrees \cup ({cs_tree'} \ {Nil})
        BY <1>1, <1>2, <2>1, <2>2
  <2>4. /\ map_set = ReplayedMaps \cup {resolved[i] : i \in DOMAIN resolved}
                                  \cup ({ms} \ {Nil})
        /\ last_ms \in map_set \cup {Nil}
        BY DEF DriverInv, HoldsInv
  <2> QED BY <2>3, <2>4, ReplayedStay DEF TreeNew, HoldsInv, mapVars
<1>6. CountInv'
      BY <1>1, CountsStay DEF TreeNew, DriverInv, CountInv
<1> QED BY <1>2, <1>4, <1>5, <1>6 DEF DriverInv

LEMMA TreeRebalanceKeeps ==
  ASSUME DriverInv, TreeRebalance
  PROVE  DriverInv'
<1>1. /\ pc = "get_tree" /\ UNCHANGED mapVars
      /\ UNCHANGED <<record, cs_tree, ms, resolved, last_ms, inserted, replayed>>
      BY DEF TreeRebalance
<1>2. AtGetTree
      BY <1>1 DEF DriverInv, AtMain, AtGetTree, AtGetMap
<1>3. CountInv'
      BY <1>1, CountsStay DEF DriverInv, CountInv
<1>4. ASSUME tree_set' = tree_set PROVE HoldsInv'
      BY <1>1, <1>4, ReplayedStay DEF DriverInv, HoldsInv, mapVars
<1>5. CASE T!Rebalance /\ UNCHANGED <<pc, todo>>
  <2>1. op.pc # "idle" /\ op'.pc # "idle" /\ tree_set' = tree_set /\ TreesInv'
        BY <1>1, <1>5, RebalanceTrees
  <2>2. AtGetTree'
        BY <1>1, <1>2, <1>5, <2>1 DEF AtGetTree
  <2> QED BY <1>3, <1>4, <2>1, <2>2 DEF DriverInv
<1>6. CASE T!Return /\ HaveTree
  <2>1. op.pc # "idle" /\ op'.pc = "idle" /\ tree_set' = tree_set /\ TreesInv'
        BY <1>1, <1>6, ReturnFromTrees DEF HaveTree
  <2>2. AtGetMap'
        BY <1>1, <1>2, <1>6, <2>1, HaveTreeKeeps DEF AtGetTree
  <2> QED BY <1>3, <1>4, <2>1, <2>2 DEF DriverInv
<1> QED BY <1>5, <1>6 DEF TreeRebalance

(* get_map() returns the first structure of the map of the next entry.     *)
LEMMA HaveMapKeeps ==
  ASSUME Resolving, todo # <<>>, NEW symbol, symbol = FirstOf(Head(todo)), HaveMap(symbol),
         record' = record
  PROVE  /\ Resolving'
         /\ symbol \in MapStructs
         /\ {resolved'[i] : i \in DOMAIN resolved'}
              = {resolved[i] : i \in DOMAIN resolved} \cup {symbol}
<1>1. PICK maps, a, b : maps = record.maps /\ a = Len(resolved) /\ b = Len(todo)
      OBVIOUS
<1>2. /\ record \in Records /\ resolved \in Seq(MapStructs) /\ todo \in Seq(MapIds)
      /\ a + b = Len(maps) /\ a \in Nat /\ b \in Nat /\ b > 0
      /\ \A i \in 1 .. a : resolved[i] = FirstOf(maps[i])
      /\ \A i \in 1 .. b : todo[i] = maps[a + i]
  <2>1. b \in Nat \ {0} /\ a \in Nat
        BY <1>1, EmptySeq, LenProperties DEF Resolving
  <2> QED BY <1>1, <2>1 DEF Resolving
<1>3. PICK left, done : left = Tail(todo) /\ done = Append(resolved, symbol)
      OBVIOUS
<1>4. /\ left \in Seq(MapIds) /\ Len(left) = b - 1
      /\ \A i \in 1 .. b - 1 : left[i] = todo[i + 1]
      /\ Head(todo) \in MapIds /\ Head(todo) = todo[1]
      BY <1>1, <1>2, <1>3, HeadTailProperties
<1>5. symbol \in MapStructs
      BY <1>4, StructTypes
<1>6. /\ done \in Seq(MapStructs) /\ Len(done) = a + 1
      /\ \A i \in 1 .. a : done[i] = resolved[i]
      /\ done[a + 1] = symbol
      BY <1>1, <1>2, <1>3, <1>5, AppendProperties
<1>7. ASSUME NEW i \in 1 .. Len(done) PROVE done[i] = FirstOf(maps[i])
  <2>1. CASE i = a + 1
    <3>1. todo[1] = maps[a + 1]
          BY <1>2
    <3> QED BY <1>4, <1>6, <2>1, <3>1
  <2>2. CASE i # a + 1
    <3>1. i \in 1 .. a
          BY <1>2, <1>6, <2>2
    <3> QED BY <1>2, <1>6, <3>1
  <2> QED BY <2>1, <2>2
<1>8. ASSUME NEW i \in 1 .. Len(left) PROVE left[i] = maps[Len(done) + i]
  <2>1. i \in 1 .. b - 1 /\ i + 1 \in 1 .. b /\ a + (i + 1) = (a + 1) + i
        BY <1>2, <1>4
  <2>2. left[i] = todo[i + 1] /\ todo[i + 1] = maps[a + (i + 1)]
        BY <1>2, <1>4, <2>1
  <2> QED BY <1>6, <2>1, <2>2
<1>9. Len(done) + Len(left) = Len(maps)
      BY <1>2, <1>4, <1>6
<1>10. resolved' = done /\ todo' = left /\ record'.maps = maps /\ record' \in Records
       BY <1>1, <1>2, <1>3 DEF HaveMap
<1>11. Resolving'
       BY <1>4, <1>6, <1>7, <1>8, <1>9, <1>10 DEF Resolving
<1>12. {done[i] : i \in DOMAIN done} = {resolved[i] : i \in DOMAIN resolved} \cup {symbol}
  <2>1. DOMAIN done = 1 .. a + 1 /\ DOMAIN resolved = 1 .. a
        BY <1>1, <1>2, <1>6
  <2>2. 1 .. a + 1 = (1 .. a) \cup {a + 1}
        BY <1>2
  <2> QED BY <1>6, <2>1, <2>2
<1> QED BY <1>5, <1>10, <1>11, <1>12

LEMMA MapAnswered ==
  ASSUME DriverInv, AtGetMap, op.pc = "idle", todo # <<>>,
         NEW symbol \in map_set, symbol = FirstOf(Head(todo)), HaveMap(symbol),
         UNCHANGED <<treeVars, mapVars, op, pc, record, cs_tree, ms, inserted, replayed>>
  PROVE  DriverInv'
<1>1. Resolving /\ ms = Nil
      BY DEF AtGetMap
<1>2. /\ Resolving'
      /\ {resolved'[i] : i \in DOMAIN resolved'}
           = {resolved[i] : i \in DOMAIN resolved} \cup {symbol}
      BY <1>1, HaveMapKeeps
<1>3. AtGetMap'
      BY <1>1, <1>2 DEF AtGetMap
<1>4. TreesInv'
      BY TreesStay
<1>5. HoldsInv'
  <2>1. /\ tree_set' = tree_set /\ map_set' = map_set /\ cs_tree' = cs_tree /\ ms' = ms
        /\ last_ms' = symbol
        BY DEF treeVars, mapVars, HaveMap
  <2>2. /\ map_set = ReplayedMaps \cup {resolved[i] : i \in DOMAIN resolved}
                                  \cup ({ms} \ {Nil})
        /\ tree_set = ReplayedTrees \cup ({cs_tree} \ {Nil})
        BY DEF DriverInv, HoldsInv
  <2>3. map_set' = ReplayedMaps \cup {resolved'[i] : i \in DOMAIN resolved'}
                                \cup ({ms'} \ {Nil})
        BY <1>2, <2>1, <2>2
  <2> QED BY <2>1, <2>2, <2>3, ReplayedStay DEF HoldsInv
<1>6. CountInv'
      BY CountsStay DEF DriverInv, CountInv, AtGetMap
<1> QED BY <1>3, <1>4, <1>5, <1>6 DEF DriverInv

LEMMA MapLastKeeps ==
  ASSUME DriverInv, MapLast
  PROVE  DriverInv'
<1>1. AtGetMap /\ op.pc = "idle" /\ todo # <<>> /\ last_ms # Nil
      BY DEF MapLast, DriverInv, AtMain, AtGetTree, AtGetMap
<1>2. last_ms \in map_set
      BY <1>1 DEF DriverInv, HoldsInv
<1>3. last_ms = FirstOf(Head(todo))
      BY <1>2, OnlyFirsts DEF MapLast
<1> QED BY <1>1, <1>2, <1>3, MapAnswered DEF MapLast

LEMMA MapFoundKeeps ==
  ASSUME IdsFit, DriverInv, MapFound
  PROVE  DriverInv'
<1>1. AtGetMap /\ op.pc = "idle" /\ todo # <<>>
      BY DEF MapFound, MapSearch, DriverInv, AtMain, AtGetTree, AtGetMap
<1>2. PICK found : found = M!Search(FirstOf(Head(todo))).found
      OBVIOUS
<1>3. found # Nil /\ HaveMap(found)
      BY <1>2 DEF MapFound, FirstOf
<1>4. Head(todo) \in MapIds
      BY <1>1, HeadTailProperties DEF AtGetMap, Resolving
<1>5. FirstOf(Head(todo)) \in MapStructs /\ IdOf(FirstOf(Head(todo))) = Head(todo)
      BY <1>4, StructTypes
<1>6. found = FirstOf(Head(todo)) /\ found \in map_set
      BY <1>1, <1>2, <1>3, <1>5, IdleCalls, OnlyFirsts, MapSearchFinds
<1> QED BY <1>1, <1>3, <1>6, MapAnswered DEF MapFound

LEMMA MapNewKeeps ==
  ASSUME IdsFit, DriverInv, MapNew
  PROVE  DriverInv'
<1>1. /\ AtGetMap /\ todo # <<>> /\ M!Add(Fresh(Head(todo), map_set)) /\ pc' = pc
      /\ ms' = Fresh(Head(todo), map_set) /\ UNCHANGED treeVars
      /\ UNCHANGED <<pc, record, todo, cs_tree, resolved, last_ms, inserted, replayed>>
      BY DEF MapNew, MapSearch, DriverInv, AtMain, AtGetTree, AtGetMap
<1>2. /\ op.pc = "idle" /\ op'.pc = "insert"
      /\ Fresh(Head(todo), map_set) = FirstOf(Head(todo))
      /\ map_set' = map_set \cup {FirstOf(Head(todo))}
      /\ TreesInv'
      BY <1>1, AddToMaps DEF AtGetMap
<1>3. Head(todo) \in MapIds /\ ms = Nil
      BY <1>1, <1>2, HeadTailProperties DEF AtGetMap, Resolving
<1>4. AtGetMap'
  <2>1. Resolving'
        BY <1>1 DEF AtGetMap, Resolving
  <2>2. todo' # <<>> /\ ms' = FirstOf(Head(todo'))
        BY <1>1, <1>2
  <2> QED BY <1>1, <1>2, <2>1, <2>2 DEF AtGetMap
<1>5. HoldsInv'
  <2>1. FirstOf(Head(todo)) # Nil
        BY <1>3, StructTypes
  <2>2. /\ map_set = ReplayedMaps \cup {resolved[i] : i \in DOMAIN resolved}
        /\ tree_set = ReplayedTrees \cup ({cs_tree} \ {Nil})
        /\ last_ms \in map_set \cup {Nil}
        BY <1>3 DEF DriverInv, HoldsInv
  <2>3. map_set' = ReplayedMaps \cup {resolved[i] : i \in DOMAIN resolved}
                                \cup ({ms'} \ {Nil})
        BY <1>1, <1>2, <2>1, <2>2
  <2> QED BY <1>1, <1>2, <2>2, <2>3, ReplayedStay DEF HoldsInv, treeVars
<1>6. CountInv'
      BY <1>1, CountsStay DEF DriverInv, CountInv, AtGetMap
<1> QED BY <1>2, <1>4, <1>5, <1>6 DEF DriverInv

LEMMA MapRebalanceKeeps ==
  ASSUME DriverInv, MapRebalance
  PROVE  DriverInv'
<1>1. /\ AtGetMap /\ pc' = pc /\ UNCHANGED treeVars
      /\ UNCHANGED <<pc, record, cs_tree, inserted, replayed>>
      BY DEF MapRebalance, DriverInv, AtMain, AtGetTree, AtGetMap
<1>2. CountInv'
      BY <1>1, CountsStay DEF DriverInv, CountInv, AtGetMap
<1>3. CASE M!Rebalance /\ UNCHANGED <<last_ms, resolved, todo, ms>>
  <2>1. op.pc # "idle" /\ op'.pc # "idle" /\ map_set' = map_set /\ TreesInv'
        BY <1>1, <1>3, RebalanceMaps DEF AtGetMap
  <2>2. AtGetMap'
    <3>1. Resolving'
          BY <1>1, <1>3 DEF AtGetMap, Resolving
    <3> QED BY <1>1, <1>3, <2>1, <3>1 DEF AtGetMap
  <2>3. HoldsInv'
        BY <1>1, <1>3, <2>1, ReplayedStay DEF DriverInv, HoldsInv, treeVars
  <2> QED BY <1>2, <2>1, <2>2, <2>3 DEF DriverInv
<1>4. CASE M!Return /\ HaveMap(ms) /\ ms' = Nil
  <2>1. op.pc # "idle" /\ op'.pc = "idle" /\ map_set' = map_set /\ TreesInv'
        BY <1>1, <1>4, ReturnFromMaps DEF AtGetMap
  <2>2. Resolving /\ todo # <<>> /\ ms = FirstOf(Head(todo))
        BY <1>1, <2>1 DEF AtGetMap
  <2>3. PICK symbol : symbol = ms
        OBVIOUS
  <2>4. /\ Resolving' /\ symbol \in MapStructs
        /\ {resolved'[i] : i \in DOMAIN resolved'}
             = {resolved[i] : i \in DOMAIN resolved} \cup {symbol}
        BY <1>1, <1>4, <2>2, <2>3, HaveMapKeeps
  <2>5. AtGetMap'
        BY <1>1, <1>4, <2>1, <2>4 DEF AtGetMap
  <2>6. symbol # Nil /\ last_ms' = symbol
        BY <1>4, <2>3, <2>4, StructTypes DEF HaveMap
  <2>7. /\ map_set = ReplayedMaps \cup {resolved[i] : i \in DOMAIN resolved} \cup {symbol}
        /\ tree_set = ReplayedTrees \cup ({cs_tree} \ {Nil})
        BY <2>3, <2>6 DEF DriverInv, HoldsInv
  <2>8. /\ map_set' = ReplayedMaps \cup {resolved'[i] : i \in DOMAIN resolved'}
                                   \cup ({ms'} \ {Nil})
        /\ last_ms' \in map_set'
        BY <1>4, <2>1, <2>4, <2>6, <2>7
  <2>9. HoldsInv'
        BY <1>1, <2>7, <2>8, ReplayedStay DEF HoldsInv, treeVars
  <2> QED BY <1>2, <2>1, <2>5, <2>9 DEF DriverInv
<1> QED BY <1>3, <1>4 DEF MapRebalance

(* All maps of the record are in the tree when no entry is left.           *)
LEMMA AllResolved ==
  ASSUME Resolving, todo = <<>>
  PROVE  /\ resolved = [i \in DOMAIN record.maps |-> FirstOf(record.maps[i])]
         /\ {resolved[i] : i \in DOMAIN resolved}
              = {FirstOf(m) : m \in {record.maps[i] : i \in DOMAIN record.maps}}
<1>1. PICK maps, done : maps = record.maps /\ done = resolved
      OBVIOUS
<1>2. maps \in Seq(MapIds) /\ done \in Seq(MapStructs)
      BY <1>1, StructTypes DEF Resolving
<1>3. /\ Len(done) = Len(maps)
      /\ \A i \in 1 .. Len(done) : done[i] = FirstOf(maps[i])
  <2>1. Len(todo) = 0 /\ Len(done) \in Nat /\ Len(done) + Len(todo) = Len(maps)
        BY <1>1, <1>2 DEF Resolving
  <2>2. \A i \in 1 .. Len(done) : done[i] = FirstOf(maps[i])
        BY <1>1 DEF Resolving
  <2> QED BY <2>1, <2>2
<1>4. PICK n : n = Len(maps) /\ n \in Nat
      BY <1>2
<1>5. done \in [1 .. n -> MapStructs] /\ DOMAIN maps = 1 .. n /\ DOMAIN done = 1 .. n
      BY <1>2, <1>3, <1>4, LenProperties
<1>6. done = [i \in 1 .. n |-> FirstOf(maps[i])]
      BY <1>3, <1>4, <1>5
<1>7. {done[i] : i \in 1 .. n} = {FirstOf(m) : m \in {maps[i] : i \in 1 .. n}}
      BY <1>3, <1>4
<1> QED BY <1>1, <1>5, <1>6, <1>7

LEMMA ReplayedGrows ==
  ASSUME CountInv, record \in Records, replayed' = [replayed EXCEPT ![record] = @ + 1]
  PROVE  /\ Replayed' = Replayed \cup {record}
         /\ ReplayedTrees' = ReplayedTrees \cup {FirstOf(record.id)}
         /\ ReplayedMaps' = ReplayedMaps \cup
              {FirstOf(m) : m \in {record.maps[i] : i \in DOMAIN record.maps}}
<1>1. \A r \in Records : replayed[r] \in Nat
      <2>1. Cardinality(inserted) \in Nat
            BY FS_CardinalityType DEF CountInv
      <2> QED BY <2>1 DEF CountInv
<1>2. /\ \A r \in Records : replayed'[r] = IF r = record THEN replayed[r] + 1 ELSE replayed[r]
      BY DEF CountInv
<1>3. Replayed' = Replayed \cup {record}
      BY <1>1, <1>2 DEF Replayed
<1>4. ReplayedTrees' = ReplayedTrees \cup {FirstOf(record.id)}
      BY <1>3 DEF ReplayedTrees
<1>5. \A x : x \in ReplayedMaps' <=>
        \E r \in Replayed' : \E i \in DOMAIN r.maps : x = FirstOf(r.maps[i])
      BY DEF ReplayedMaps
<1>6. \A x : x \in ReplayedMaps <=>
        \E r \in Replayed : \E i \in DOMAIN r.maps : x = FirstOf(r.maps[i])
      BY DEF ReplayedMaps
<1>7. \A x : x \in {FirstOf(m) : m \in {record.maps[i] : i \in DOMAIN record.maps}} <=>
        \E i \in DOMAIN record.maps : x = FirstOf(record.maps[i])
      OBVIOUS
<1>8. \A x : x \in ReplayedMaps' <=>
        x \in ReplayedMaps \/ \E i \in DOMAIN record.maps : x = FirstOf(record.maps[i])
      BY <1>3, <1>5, <1>6, Zenon
<1>9. ReplayedMaps' = ReplayedMaps \cup
        {FirstOf(m) : m \in {record.maps[i] : i \in DOMAIN record.maps}}
      BY <1>7, <1>8
<1> QED BY <1>3, <1>4, <1>9

(* A sighting that is recorded has a number of its own.                    *)
LEMMA InsertIs ==
  ASSUME DriverInv, Insert
  PROVE  /\ AtGetMap /\ op.pc = "idle" /\ record \in Records /\ ms = Nil
         /\ resolved = [i \in DOMAIN record.maps |-> FirstOf(record.maps[i])]
         /\ cs_tree = FirstOf(record.id)
         /\ \E new : /\ new = [tree |-> cs_tree, maps |-> resolved,
                               nr |-> Cardinality(inserted) + 1]
                     /\ inserted' = inserted \cup {new}
                     /\ new \notin inserted
                     /\ IsFiniteSet(inserted')
                     /\ Cardinality(inserted') = Cardinality(inserted) + 1
<1>1. AtGetMap /\ op.pc = "idle" /\ todo = <<>>
      BY DEF Insert, DriverInv, AtMain, AtGetTree, AtGetMap
<1>2. record \in Records /\ ms = Nil /\ cs_tree = FirstOf(record.id)
      BY <1>1 DEF AtGetMap, Resolving
<1>3. resolved = [i \in DOMAIN record.maps |-> FirstOf(record.maps[i])]
      BY <1>1, AllResolved DEF AtGetMap
<1>4. PICK new : new = [tree |-> cs_tree, maps |-> resolved,
                        nr |-> Cardinality(inserted) + 1]
      OBVIOUS
<1>5. inserted' = inserted \cup {new}
      BY <1>4 DEF Insert
<1>6. IsFiniteSet(inserted) /\ Cardinality(inserted) \in Nat
      BY FS_CardinalityType DEF DriverInv, CountInv
<1>7. new \notin inserted
  <2>1. new.nr = Cardinality(inserted) + 1
        BY <1>4
  <2> QED BY <1>6, <2>1 DEF DriverInv, CountInv
<1>8. IsFiniteSet(inserted') /\ Cardinality(inserted') = Cardinality(inserted) + 1
      BY <1>5, <1>6, <1>7, FS_AddElement
<1> QED BY <1>1, <1>2, <1>3, <1>4, <1>5, <1>7, <1>8

LEMMA InsertKeeps ==
  ASSUME DriverInv, Insert
  PROVE  DriverInv'
<1>1. /\ AtGetMap /\ op.pc = "idle" /\ record \in Records /\ ms = Nil
      /\ cs_tree = FirstOf(record.id)
      BY InsertIs
<1>2. PICK new : /\ new = [tree |-> cs_tree, maps |-> resolved,
                           nr |-> Cardinality(inserted) + 1]
                 /\ inserted' = inserted \cup {new}
                 /\ IsFiniteSet(inserted')
                 /\ Cardinality(inserted') = Cardinality(inserted) + 1
      BY InsertIs
<1>3. TreesInv'
      BY <1>1, TreesStay DEF Insert
<1>4. AtMain'
      BY <1>1 DEF Insert, AtGetMap, AtMain
<1>5. HoldsInv'
  <2>1. /\ ReplayedTrees' = ReplayedTrees \cup {FirstOf(record.id)}
        /\ ReplayedMaps' = ReplayedMaps \cup
             {FirstOf(m) : m \in {record.maps[i] : i \in DOMAIN record.maps}}
        BY <1>1, ReplayedGrows DEF Insert, DriverInv
  <2>2. {resolved[i] : i \in DOMAIN resolved}
          = {FirstOf(m) : m \in {record.maps[i] : i \in DOMAIN record.maps}}
        BY AllResolved DEF Insert, AtGetMap, DriverInv, AtMain, AtGetTree
  <2>3. FirstOf(record.id) # Nil
        BY <1>1, StructTypes
  <2>4. /\ tree_set = ReplayedTrees \cup ({cs_tree} \ {Nil})
        /\ map_set = ReplayedMaps \cup {resolved[i] : i \in DOMAIN resolved}
                                  \cup ({ms} \ {Nil})
        /\ last_ms \in map_set \cup {Nil}
        BY DEF DriverInv, HoldsInv
  <2>5. /\ tree_set' = tree_set /\ map_set' = map_set /\ last_ms' = last_ms /\ ms' = ms
        /\ cs_tree' = Nil /\ resolved' = <<>>
        BY DEF Insert, treeVars, mapVars
  <2>6. {resolved'[i] : i \in DOMAIN resolved'} = {}
        BY <2>5
  <2>7. tree_set' = ReplayedTrees' \cup ({cs_tree'} \ {Nil})
        BY <1>1, <2>1, <2>3, <2>4, <2>5
  <2>8. map_set' = ReplayedMaps' \cup {resolved'[i] : i \in DOMAIN resolved'}
                                 \cup ({ms'} \ {Nil})
        BY <1>1, <2>1, <2>2, <2>4, <2>5, <2>6
  <2> QED BY <2>4, <2>5, <2>7, <2>8 DEF HoldsInv
<1>6. CountInv'
  <2>1. PICK n : n = Cardinality(inserted)
        OBVIOUS
  <2>2. n \in Nat /\ MaxRecords \in Nat
        BY <2>1, FS_CardinalityType, RecordsAssumption DEF DriverInv, CountInv
  <2>3. /\ inserted \subseteq [tree : TreeStructs, maps : Seq(MapStructs), nr : Nat]
        /\ n < MaxRecords
        /\ \A i \in inserted : i.nr \in 1 .. n
        /\ replayed \in [Records -> 0 .. n]
        BY <1>1, <2>1 DEF DriverInv, CountInv, AtGetMap
  <2>4. new \in [tree : TreeStructs, maps : Seq(MapStructs), nr : Nat] /\ new.nr = n + 1
    <3>1. cs_tree \in TreeStructs
          BY <1>1, StructTypes
    <3>2. resolved \in Seq(MapStructs)
          BY <1>1 DEF AtGetMap, Resolving
    <3> QED BY <1>2, <2>1, <2>2, <3>1, <3>2
  <2>5. \A i \in inserted' : i.nr \in 1 .. n + 1
        BY <1>2, <2>2, <2>3, <2>4
  <2>6. replayed' \in [Records -> 0 .. n + 1]
    <3>1. replayed' = [replayed EXCEPT ![record] = @ + 1]
          BY DEF Insert
    <3>2. \A r \in Records : replayed[r] \in 0 .. n + 1 /\ replayed[r] + 1 \in 0 .. n + 1
          BY <2>2, <2>3
    <3> QED BY <1>1, <2>3, <3>1, <3>2
  <2>7. n + 1 <= MaxRecords /\ pc' = "main"
        BY <2>2, <2>3 DEF Insert
  <2> QED BY <1>2, <2>1, <2>3, <2>4, <2>5, <2>6, <2>7 DEF CountInv
<1> QED BY <1>3, <1>4, <1>5, <1>6 DEF DriverInv

LEMMA DriverNext ==
  ASSUME IdsFit, DriverInv, [Next]_vars
  PROVE  DriverInv'
<1>1. ASSUME NEW r \in Records, NextRecord(r) PROVE DriverInv'
      BY <1>1, NextRecordKeeps
<1>2. CASE Step
      BY <1>2, TreeFoundKeeps, TreeNewKeeps, TreeRebalanceKeeps, MapLastKeeps, MapFoundKeeps,
         MapNewKeeps, MapRebalanceKeeps, InsertKeeps DEF Step
<1>3. CASE UNCHANGED vars
  <2>1. UNCHANGED <<trees, map_trees, tree_set, map_set, op, pc>>
        BY <1>3 DEF vars
  <2>2. TreesInv'
        BY <2>1 DEF DriverInv, TreesInv, TreeCall, MapCall
  <2>3. HoldsInv' /\ CountInv' /\ (AtMain \/ AtGetTree \/ AtGetMap)'
        BY <1>3, ReplayedStay DEF vars, DriverInv, HoldsInv, CountInv, AtMain, AtGetTree,
                                 AtGetMap, Resolving
  <2> QED BY <2>2, <2>3 DEF DriverInv
<1> QED BY <1>1, <1>2, <1>3 DEF Next, Finished

-----------------------------------------------------------------------------
(* What the invariant gives.                                               *)

LEMMA InvDriverType == DriverInv => TypeOK
<1> SUFFICES ASSUME DriverInv PROVE TypeOK
    OBVIOUS
<1>1. /\ tree_set \subseteq TreeStructs /\ map_set \subseteq MapStructs
      /\ last_ms \in MapStructs \cup {Nil}
      BY OnlyFirsts DEF DriverInv, HoldsInv
<1>2. /\ pc \in {"main", "get_tree", "get_map"}
      /\ record \in Records \cup {NoRecord}
      /\ todo \in Seq(MapIds) /\ resolved \in Seq(MapStructs)
      BY EmptySeq DEF DriverInv, AtMain, AtGetTree, AtGetMap, Resolving
<1>3. cs_tree \in TreeStructs \cup {Nil}
      BY StructTypes DEF DriverInv, AtMain, AtGetTree, AtGetMap, Resolving
<1>4. ms \in MapStructs \cup {Nil}
      BY <1>1 DEF DriverInv, HoldsInv
<1>5. PICK n : n = Cardinality(inserted) /\ n \in Nat
      BY FS_CardinalityType DEF DriverInv, CountInv
<1>6. /\ inserted \subseteq [tree : TreeStructs, maps : Seq(MapStructs), nr : Nat]
      /\ n <= MaxRecords /\ MaxRecords \in Nat
      /\ \A i \in inserted : i.nr \in 1 .. n
      /\ replayed \in [Records -> 0 .. n]
      BY <1>5, RecordsAssumption DEF DriverInv, CountInv
<1>7. inserted \subseteq [tree : TreeStructs, maps : Seq(MapStructs), nr : 1 .. MaxRecords]
  <2>1. \A i \in inserted : i.nr \in 1 .. MaxRecords
        BY <1>5, <1>6
  <2> QED BY <1>6, <2>1
<1>8. replayed \in [Records -> 0 .. MaxRecords]
  <2>1. \A r \in Records : replayed[r] \in 0 .. MaxRecords
        BY <1>5, <1>6
  <2> QED BY <1>6, <2>1
<1> QED BY <1>1, <1>2, <1>3, <1>4, <1>7, <1>8 DEF TypeOK

LEMMA InvMapsOwn == DriverInv => MapsAreTheirOwn
<1> SUFFICES ASSUME DriverInv, NEW i \in DOMAIN resolved
             PROVE  IdOf(resolved[i]) = record.maps[i]
    BY DEF MapsAreTheirOwn
<1>1. CASE resolved = <<>>
      BY <1>1
<1>2. CASE Resolving
  <2>1. i \in 1 .. Len(resolved)
        BY <1>2 DEF Resolving
  <2> QED BY <1>2, <2>1, StructTypes DEF Resolving
<1> QED BY <1>1, <1>2 DEF DriverInv, AtMain, AtGetTree, AtGetMap

LEMMA InvLastFound ==
  ASSUME IdsFit
  PROVE  DriverInv => LastIsFound
<1> SUFFICES ASSUME DriverInv, last_ms # Nil, op.pc = "idle"
             PROVE  M!Search(last_ms).found = last_ms
    BY DEF LastIsFound
<1>1. last_ms \in map_set /\ last_ms \in MapStructs /\ last_ms = FirstOf(IdOf(last_ms))
      BY OnlyFirsts DEF DriverInv, HoldsInv
<1>2. PICK found : found = M!Search(last_ms).found
      OBVIOUS
<1>3. /\ found # Nil => found = FirstOf(IdOf(last_ms))
      /\ found = Nil => FirstOf(IdOf(last_ms)) \notin map_set
      BY <1>1, <1>2, IdleCalls, OnlyFirsts, MapSearchFinds
<1> QED BY <1>1, <1>2, <1>3

-----------------------------------------------------------------------------
(* The totals that main() prints.                                          *)

LEMMA SameCardinality ==
  ASSUME NEW S
  PROVE  /\ TP!Cardinality(S) = Cardinality(S) /\ MP!Cardinality(S) = Cardinality(S)
         /\ TP!IsFiniteSet(S) = IsFiniteSet(S) /\ MP!IsFiniteSet(S) = IsFiniteSet(S)
<1>1. TP!Cardinality(S) = Cardinality(S)
      BY DEF Cardinality, TP!Cardinality
<1>2. MP!Cardinality(S) = Cardinality(S)
      BY DEF Cardinality, MP!Cardinality
<1>3. TP!IsFiniteSet(S) = IsFiniteSet(S)
      BY DEF IsFiniteSet, TP!IsFiniteSet
<1>4. MP!IsFiniteSet(S) = IsFiniteSet(S)
      BY DEF IsFiniteSet, MP!IsFiniteSet
<1> QED BY <1>1, <1>2, <1>3, <1>4

(* The loops of main() count the structures that a tree holds.             *)
LEMMA NumTreesIs ==
  ASSUME DriverInv, pc = "main"
  PROVE  NumTrees = Cardinality(tree_set)
<1>1. Nil \notin TreeStructs /\ op.pc = "idle"
      BY StructTypes DEF DriverInv, TreesInv, T!Idle
<1>2. TP!IInv /\ TP!Settled /\ TreeCall = T!Idle
      BY <1>1, IdleCalls
<1>3. \A s \in TreeStructs \ tree_set : trees.node[s] = TP!Unlinked
      BY <1>2 DEF DriverInv, TreesInv, T!Unlinked, TP!Unlinked
<1>4. PICK from : from = CHOOSE f : f = [s \in TreeStructs \cup {Nil} |->
                           IF s = Nil THEN 0 ELSE 1 + f[TP!Next_(s)]]
      OBVIOUS
<1>5. from[TP!First] = Cardinality(tree_set)
      BY <1>1, <1>2, <1>3, <1>4, TreesKeyed, TP!CountLoop, SameCardinality
<1>6. from = CHOOSE f : f = [s \in TreeStructs \cup {Nil} |->
                           IF s = Nil THEN 0 ELSE 1 + f[T!Next_(s)]]
      BY <1>4 DEF T!Next_, TP!Next_, T!Outermost, TP!Outermost, T!Ascend, TP!Ascend,
                  T!Child, TP!Child, T!Parent, TP!Parent
<1>7. NumTrees = from[T!First]
      BY <1>6 DEF NumTrees
<1> QED BY <1>5, <1>7, SameTreeWalk

LEMMA NumMapsIs ==
  ASSUME IdsFit, DriverInv, pc = "main"
  PROVE  NumMaps = Cardinality(map_set)
<1>1. Nil \notin MapStructs /\ op.pc = "idle"
      BY StructTypes DEF DriverInv, TreesInv, T!Idle
<1>2. MP!IInv /\ MP!Settled /\ MapCall = M!Idle
      BY <1>1, IdleCalls
<1>3. \A s \in MapStructs \ map_set : map_trees.node[s] = MP!Unlinked
      BY <1>2 DEF DriverInv, TreesInv, M!Unlinked, MP!Unlinked
<1>4. PICK from : from = CHOOSE f : f = [s \in MapStructs \cup {Nil} |->
                           IF s = Nil THEN 0 ELSE 1 + f[MP!Next_(s)]]
      OBVIOUS
<1>5. from[MP!First] = Cardinality(map_set)
      BY <1>1, <1>2, <1>3, <1>4, MapsKeyed, MP!CountLoop, SameCardinality
<1>6. from = CHOOSE f : f = [s \in MapStructs \cup {Nil} |->
                           IF s = Nil THEN 0 ELSE 1 + f[M!Next_(s)]]
      BY <1>4 DEF M!Next_, MP!Next_, M!Outermost, MP!Outermost, M!Ascend, MP!Ascend,
                  M!Child, MP!Child, M!Parent, MP!Parent
<1>7. NumMaps = from[M!First]
      BY <1>6 DEF NumMaps
<1> QED BY <1>5, <1>7, SameMapWalk

(* There are as many first structures as ids.                              *)
LEMMA AsManyIds ==
  ASSUME NEW ids, IsFiniteSet({FirstOf(id) : id \in ids})
  PROVE  Cardinality({FirstOf(id) : id \in ids}) = Cardinality(ids)
<1>1. PICK firsts : firsts = {FirstOf(id) : id \in ids}
      OBVIOUS
<1>2. PICK f : f = [s \in firsts |-> IdOf(s)]
      OBVIOUS
<1>3. \A s \in firsts : IdOf(s) \in ids /\ s = FirstOf(IdOf(s))
      BY <1>1, StructTypes
<1>4. \A id \in ids : FirstOf(id) \in firsts /\ IdOf(FirstOf(id)) = id
      BY <1>1, StructTypes
<1>5. f \in Injection(firsts, ids) /\ f \in Surjection(firsts, ids)
  <2>1. f \in [firsts -> ids]
        BY <1>2, <1>3
  <2>2. \A s, t \in firsts : f[s] = f[t] => s = t
        BY <1>2, <1>3
  <2>3. \A id \in ids : \E s \in firsts : f[s] = id
        BY <1>2, <1>4
  <2> QED BY <2>1, <2>2, <2>3 DEF Injection, Surjection, IsInjective
<1> QED BY <1>1, <1>5, FS_Surjection

LEMMA InvTotals ==
  ASSUME IdsFit
  PROVE  DriverInv => TotalsAreDistinctIds
<1> SUFFICES ASSUME DriverInv, pc = "main"
             PROVE  /\ NumTrees = Cardinality({r.id : r \in Replayed})
                    /\ NumMaps = Cardinality(UNION {{r.maps[i] : i \in DOMAIN r.maps} :
                                                      r \in Replayed})
    BY DEF TotalsAreDistinctIds
<1>1. Nil \notin TreeStructs /\ Nil \notin MapStructs /\ op.pc = "idle"
      BY StructTypes DEF DriverInv, TreesInv, T!Idle
<1>2. TP!IInv /\ MP!IInv
      BY <1>1, IdleCalls
<1>3. IsFiniteSet(tree_set) /\ IsFiniteSet(map_set)
      BY <1>1, <1>2, TP!MembersAre, MP!MembersAre, SameCardinality
<1>4. cs_tree = Nil /\ ms = Nil /\ resolved = <<>>
      BY DEF DriverInv, AtMain, AtGetTree, AtGetMap
<1>5. tree_set = ReplayedTrees /\ map_set = ReplayedMaps
  <2>1. {resolved[i] : i \in DOMAIN resolved} = {}
        BY <1>4
  <2> QED BY <1>4, <2>1 DEF DriverInv, HoldsInv
<1>6. PICK ids : ids = {r.id : r \in Replayed}
      OBVIOUS
<1>7. tree_set = {FirstOf(id) : id \in ids}
      BY <1>5, <1>6 DEF ReplayedTrees
<1>8. PICK maps : maps = UNION {{r.maps[i] : i \in DOMAIN r.maps} : r \in Replayed}
      OBVIOUS
<1>9. map_set = {FirstOf(m) : m \in maps}
      BY <1>5, <1>8 DEF ReplayedMaps
<1>10. NumTrees = Cardinality(ids)
       BY <1>3, <1>7, NumTreesIs, AsManyIds
<1>11. NumMaps = Cardinality(maps)
       BY <1>3, <1>9, NumMapsIs, AsManyIds
<1> QED BY <1>6, <1>8, <1>10, <1>11

-----------------------------------------------------------------------------
(* When the ids of the maps fit.                                           *)

LEMMA SmallMod ==
  ASSUME NEW size \in Nat, size > 0, NEW n \in Int, 0 <= n, n < size
  PROVE  n % size = n
BY SMTT(30)

LEMMA HalfSize == IntSize \in Nat /\ IntSize > 0 /\ IntSize \div 2 \in Nat
                  /\ IntSize = IntSize \div 2 + IntSize \div 2
<1>1. PICK size : size = IntSize
      OBVIOUS
<1>2. size \in Nat /\ size > 0 /\ size % 2 = 0
      BY <1>1, RecordsAssumption
<1>3. size \div 2 \in Nat /\ size = size \div 2 + size \div 2
      BY <1>2, SMTT(30)
<1> QED BY <1>1, <1>2, <1>3

(* The difference of two ids that are less than half the range of an int   *)
(* apart survives the conversion that get_map() does, so that the theorems *)
(* below apply to all records with such ids.                               *)
THEOREM NearIdsFit ==
  ASSUME \A a, b \in MapIds : a - b < IntSize \div 2
  PROVE  IdsFit
<1>1. PICK half : half = IntSize \div 2
      OBVIOUS
<1>2. half \in Nat /\ IntSize = half + half /\ IntSize \in Nat /\ IntSize > 0
      BY <1>1, HalfSize
<1>3. ASSUME NEW d \in Int, d < half, - d < half
      PROVE  ToInt(d) = d
  <2>1. d + half \in Int /\ 0 <= d + half /\ d + half < IntSize
        BY <1>2, <1>3
  <2>2. (d + half) % IntSize = d + half
        BY <1>2, <2>1, SmallMod
  <2>3. ToInt(d) = (d + half) - half
        BY <1>1, <2>2 DEF ToInt
  <2> QED BY <1>2, <2>3
<1>4. \A a, b \in MapIds : a \in Int /\ b \in Int /\ a - b < half
      BY <1>1, StructTypes
<1>5. \A a, b \in MapIds : ToInt(a - b) = a - b
  <2>1. ASSUME NEW a \in MapIds, NEW b \in MapIds PROVE ToInt(a - b) = a - b
    <3>1. PICK d : d = a - b
          OBVIOUS
    <3>2. d \in Int /\ d < half /\ - d < half
          BY <1>2, <1>4, <3>1
    <3> QED BY <1>3, <3>1, <3>2
  <2> QED BY <2>1
<1> QED BY <1>4, <1>5 DEF IdsFit

-----------------------------------------------------------------------------
(* The driver counts as StackCounts does.                                  *)

IsSighting(i, r) ==
  i.tree = FirstOf(r.id) /\ i.maps = [k \in DOMAIN r.maps |-> FirstOf(r.maps[k])]

LEMMA CountIs == \A r : CountOf(r) = Cardinality({i \in inserted : IsSighting(i, r)})
BY DEF CountOf, IsSighting, FirstOf

LEMMA CountIsThen == \A r : CountOf(r)' = Cardinality({i \in inserted' : IsSighting(i, r)})
BY DEF CountOf, IsSighting, FirstOf

(* A sighting is of one record only.                                       *)
LEMMA SightingIsOfOne ==
  ASSUME NEW i, NEW r \in Records, NEW s \in Records, IsSighting(i, r), IsSighting(i, s)
  PROVE  r = s
<1>1. FirstOf(r.id) = FirstOf(s.id)
      BY DEF IsSighting
<1>2. r.id = s.id
      BY <1>1 DEF FirstOf
<1>3. PICK m, n : m = r.maps /\ n = s.maps
      OBVIOUS
<1>4. m \in Seq(Nat) /\ n \in Seq(Nat)
      BY <1>3, RecordsAssumption
<1>5. PICK f, g : /\ f = [k \in DOMAIN m |-> FirstOf(m[k])]
                  /\ g = [k \in DOMAIN n |-> FirstOf(n[k])]
      OBVIOUS
<1>6. f = g
      BY <1>3, <1>5 DEF IsSighting
<1>7. DOMAIN m = DOMAIN n
  <2>1. DOMAIN f = DOMAIN m /\ DOMAIN g = DOMAIN n
        BY <1>5
  <2> QED BY <1>6, <2>1
<1>8. \A k \in DOMAIN m : m[k] = n[k]
  <2>1. ASSUME NEW k \in DOMAIN m PROVE m[k] = n[k]
    <3>1. f[k] = FirstOf(m[k]) /\ g[k] = FirstOf(n[k])
          BY <1>5, <1>7, <2>1
    <3>2. PICK p, q : p = m[k] /\ q = n[k]
          OBVIOUS
    <3>3. FirstOf(p) = FirstOf(q)
          BY <1>6, <3>1, <3>2
    <3>4. p = q
          BY <3>3 DEF FirstOf
    <3> QED BY <3>2, <3>4
  <2> QED BY <2>1
<1>9. m = n
  <2>1. m \in [1 .. Len(m) -> Nat] /\ n \in [1 .. Len(n) -> Nat]
        BY <1>4, LenProperties
  <2>2. PICK l : l = DOMAIN m
        OBVIOUS
  <2>3. m = [k \in l |-> m[k]] /\ n = [k \in l |-> n[k]]
        BY <1>7, <2>1, <2>2
  <2>4. [k \in l |-> m[k]] = [k \in l |-> n[k]]
        BY <1>8, <2>2
  <2> QED BY <2>3, <2>4
<1>10. r.maps = s.maps
       BY <1>3, <1>9
<1>11. \A t \in Records : t = [id |-> t.id, maps |-> t.maps]
       BY RecordsAssumption
<1>12. r = [id |-> r.id, maps |-> r.maps] /\ s = [id |-> s.id, maps |-> s.maps]
       BY <1>11
<1> QED BY <1>2, <1>10, <1>12, Zenon

LEMMA InsertCounts ==
  ASSUME DriverInv, Insert
  PROVE  [r \in Records |-> CountOf(r)]'
           = [[r \in Records |-> CountOf(r)] EXCEPT ![record] = @ + 1]
<1>1. PICK new : /\ new = [tree |-> cs_tree, maps |-> resolved,
                           nr |-> Cardinality(inserted) + 1]
                 /\ inserted' = inserted \cup {new} /\ new \notin inserted
      BY InsertIs
<1>2. record \in Records /\ IsSighting(new, record)
  <2>1. new.tree = cs_tree /\ new.maps = resolved
        BY <1>1
  <2> QED BY <2>1, InsertIs DEF IsSighting
<1>3. ASSUME NEW r \in Records
      PROVE  CountOf(r)' = IF r = record THEN CountOf(r) + 1 ELSE CountOf(r)
  <2>1. PICK old : old = {i \in inserted : IsSighting(i, r)}
        OBVIOUS
  <2>2. IsFiniteSet(old)
        BY <2>1, FS_Subset DEF DriverInv, CountInv
  <2>3. CASE r = record
    <3>1. {i \in inserted' : IsSighting(i, r)} = old \cup {new}
          BY <1>1, <1>2, <2>1, <2>3
    <3>2. new \notin old
          BY <1>1, <2>1
    <3>3. Cardinality(old \cup {new}) = Cardinality(old) + 1
          BY <2>2, <3>2, FS_AddElement
    <3> QED BY <2>1, <2>3, <3>1, <3>3, CountIs, CountIsThen
  <2>4. CASE r # record
    <3>1. ~ IsSighting(new, r)
          BY <1>2, <2>4, SightingIsOfOne
    <3>2. {i \in inserted' : IsSighting(i, r)} = old
          BY <1>1, <2>1, <3>1
    <3> QED BY <2>1, <2>4, <3>2, CountIs, CountIsThen
  <2> QED BY <2>3, <2>4
<1> QED BY <1>2, <1>3

-----------------------------------------------------------------------------
(* The theorems.  IdsFit is what get_map() relies on: it compares two ids  *)
(* of maps by their difference, in an int.                                 *)

THEOREM DriverInvariant ==
  ASSUME IdsFit
  PROVE  Spec => []DriverInv
<1>1. DriverInv /\ [Next]_vars => DriverInv'
      BY DriverNext
<1> QED BY <1>1, DriverInit, PTL DEF Spec

(* Each variable of the replay loop keeps its type: the trees hold nothing *)
(* but structures of ids that are in the records, and no sighting gets a   *)
(* number that another has.                                                *)
THEOREM DriverTypeCorrect ==
  ASSUME IdsFit
  PROVE  Spec => []TypeOK
BY DriverInvariant, InvDriverType, PTL

(* get_map() gives every entry of a callstack the map symbol of its own    *)
(* map, whether it comes from last_ms, from the search or is new.          *)
THEOREM EntriesGetTheirMaps ==
  ASSUME IdsFit
  PROVE  Spec => []MapsAreTheirOwn
BY DriverInvariant, InvMapsOwn, PTL

(* last_ms is never stale: the search of get_map(), which it saves, would  *)
(* give the same answer whatever was added to the tree since.              *)
THEOREM LastAnswerIsFound ==
  ASSUME IdsFit
  PROVE  Spec => []LastIsFound
<1>1. DriverInv => LastIsFound
      BY InvLastFound
<1> QED BY <1>1, DriverInvariant, PTL

(* No id gets a second tree and no map a second symbol, and the loops at   *)
(* the end of main() reach every one of them once.                         *)
THEOREM TotalsCountIds ==
  ASSUME IdsFit
  PROVE  Spec => []TotalsAreDistinctIds
<1>1. DriverInv => TotalsAreDistinctIds
      BY InvTotals
<1> QED BY <1>1, DriverInvariant, PTL

(* All sightings of a record are counted in one place, those of different  *)
(* records in different places: get_tree() and get_map() keep the promise  *)
(* that callstack.h makes for the backends.                                *)
THEOREM DriverCountsStacks ==
  ASSUME IdsFit
  PROVE  Spec => ImplementsStackCounts
<1>1. Init => Abs!Init
  <2> SUFFICES ASSUME Init PROVE Abs!Init
      OBVIOUS
  <2>1. inserted = {} /\ replayed = [r \in Records |-> 0]
        BY DEF Init
  <2>2. \A r \in Records : CountOf(r) = 0
    <3>1. Cardinality({}) = 0
          BY FS_EmptySet
    <3>2. \A r : {i \in inserted : IsSighting(i, r)} = {}
          BY <2>1
    <3> QED BY <3>1, <3>2, CountIs
  <2> QED BY <2>1, <2>2 DEF Abs!Init
<1>2. DriverInv /\ [Next]_vars =>
        [Abs!Next]_<<[r \in Records |-> CountOf(r)], replayed>>
  <2> SUFFICES ASSUME DriverInv, [Next]_vars
               PROVE  [Abs!Next]_<<[r \in Records |-> CountOf(r)], replayed>>
      OBVIOUS
  <2>1. CASE Insert
    <3>1. record \in Records
          BY <2>1, InsertIs
    <3>2. replayed' = [replayed EXCEPT ![record] = @ + 1]
          BY <2>1 DEF Insert
    <3>3. Abs!Insert(record)
          BY <2>1, <3>2, InsertCounts DEF Abs!Insert
    <3> QED BY <3>1, <3>3 DEF Abs!Next
  <2>2. CASE ~ Insert
    <3>1. inserted' = inserted /\ replayed' = replayed
      <4>1. ASSUME NEW r \in Records, NextRecord(r)
            PROVE  inserted' = inserted /\ replayed' = replayed
            BY <4>1 DEF NextRecord
      <4>2. CASE Step
            BY <2>2, <4>2 DEF Step, TreeFound, TreeNew, TreeRebalance, MapLast, MapFound,
                              MapNew, MapRebalance
      <4>3. CASE UNCHANGED vars
            BY <4>3 DEF vars
      <4> QED BY <4>1, <4>2, <4>3 DEF Next, Finished
    <3>2. \A r \in Records : CountOf(r)' = CountOf(r)
          BY <3>1, CountIs, CountIsThen
    <3>3. [r \in Records |-> CountOf(r)]' = [r \in Records |-> CountOf(r)]
          BY <3>2
    <3> QED BY <3>1, <3>3
  <2> QED BY <2>1, <2>2
<1> QED BY <1>1, <1>2, DriverInvariant, PTL DEF Spec, ImplementsStackCounts, Abs!Spec
=============================================================================
