------------------------------- MODULE Driver -------------------------------
(***************************************************************************)
(* The replay loop of main.c.  Every record is given to the tree of its    *)
(* id: get_tree() looks it up in the red-black tree trees and adds one     *)
(* when there is none.  The linux backend asks get_map() for the map       *)
(* symbol of every entry, which is kept in the red-black tree map_trees,   *)
(* with the last answer in front of it (last_ms).                          *)
(*                                                                         *)
(* Both trees are instances of RBTree.  The program is sequential, so one  *)
(* variable op serves both.  A structure is a pair of the id it was        *)
(* allocated for and a number: the first structure for an id has number 1, *)
(* and there is a second one if the search misses the first.               *)
(*                                                                         *)
(* What the backend does with a callstack is abstracted to a set of        *)
(* sightings per tree: the other modules are about that.                   *)
(***************************************************************************)
EXTENDS Integers, Sequences, FiniteSets

CONSTANTS
  Records,     \* the recorded samples: an id and the maps of the entries
  IntSize,     \* how many values an int has
  MaxRecords,  \* bound on the number of replayed records, for TLC only
  Nil

ASSUME RecordsAssumption ==
  /\ Records \subseteq [id : Nat, maps : Seq(Nat)]
  /\ IntSize \in Nat \ {0} /\ IntSize % 2 = 0
  /\ MaxRecords \in Nat

VARIABLES
  trees, map_trees,      \* the two red-black trees
  tree_set, map_set,     \* the structures in them
  op,                    \* the operation on one of them
  pc,                    \* "main", or in "get_tree" or in "get_map"
  record, todo,          \* the current record, and its maps not yet resolved
  cs_tree,               \* what get_tree() returns
  ms,                    \* the map symbol of a get_map() in progress
  resolved,              \* the map symbols of the entries so far
  last_ms,
  inserted,              \* what the trees hold: sightings, numbered
  replayed               \* history: how often each record was replayed

treeVars == <<trees, tree_set>>
mapVars == <<map_trees, map_set>>
vars == <<trees, map_trees, tree_set, map_set, op, pc, record, todo, cs_tree,
          ms, resolved, last_ms, inserted, replayed>>

Structs(ids) == ids \X {1, 2}
TreeStructs == Structs({r.id : r \in Records})
MapIds == UNION {{r.maps[i] : i \in DOMAIN r.maps} : r \in Records}
MapStructs == Structs(MapIds)
IdOf(struct) == struct[1]

ASSUME NilAssumption == Nil \notin TreeStructs \cup MapStructs

(* Mutant: the search goes past the tree it looks for.                     *)
CmpTreePast(t, new) == IF IdOf(t) < IdOf(new) THEN -1 ELSE 1

(* The comparison of get_tree(): descending ids.                           *)
CmpTree(t, new) ==
  IF IdOf(t) < IdOf(new) THEN -1 ELSE IF IdOf(t) > IdOf(new) THEN 1 ELSE 0

(* The conversion of an unsigned long to an int.                           *)
ToInt(n) == ((n + IntSize \div 2) % IntSize) - IntSize \div 2

(* Mutant: the search goes past the map it looks for.                      *)
CmpMapPast(mt, new) ==
  IF ToInt(IdOf(mt) - IdOf(new)) <= 0 THEN -1 ELSE 1

(* Mutant: the difference is kept in a type of two bits less.              *)
CmpMapNarrow(mt, new) ==
  LET quarter == IntSize \div 4
      cmp == ((IdOf(mt) - IdOf(new) + quarter \div 2) % quarter) - quarter \div 2
  IN  IF cmp < 0 THEN -1 ELSE IF cmp > 0 THEN 1 ELSE 0

(* The comparison of get_map(): int cmp = mt->id - id.                     *)
CmpMap(mt, new) ==
  LET cmp == ToInt(IdOf(mt) - IdOf(new))
  IN  IF cmp < 0 THEN -1 ELSE IF cmp > 0 THEN 1 ELSE 0

T == INSTANCE RBTree WITH Nodes <- TreeStructs, Cmp <- CmpTree,
                          tree <- trees, members <- tree_set
M == INSTANCE RBTree WITH Nodes <- MapStructs, Cmp <- CmpMap,
                          tree <- map_trees, members <- map_set

(* A structure for an id that is not in use.                               *)
Fresh(id, used) == IF <<id, 1>> \in used THEN <<id, 2>> ELSE <<id, 1>>

NoRecord == [id |-> Nil, maps |-> <<>>]

(* init_caches().                                                          *)
Init ==
  /\ trees = T!EmptyTree /\ tree_set = {}
  /\ map_trees = M!EmptyTree /\ map_set = {}
  /\ op = T!Idle
  /\ pc = "main"
  /\ record = NoRecord /\ todo = <<>> /\ cs_tree = Nil /\ ms = Nil
  /\ resolved = <<>>
  /\ last_ms = Nil
  /\ inserted = {}
  /\ replayed = [r \in Records |-> 0]

-----------------------------------------------------------------------------

(* The next record: get_tree() is called.                                  *)
NextRecord(r) ==
  /\ pc = "main"
  /\ Cardinality(inserted) < MaxRecords
  /\ pc' = "get_tree"
  /\ record' = r
  /\ UNCHANGED <<treeVars, mapVars, op, todo, cs_tree, ms, resolved, last_ms,
                 inserted, replayed>>

(* get_tree() has its result, and the insertion begins.                    *)
HaveTree ==
  /\ pc' = "get_map"
  /\ todo' = record.maps

TreeFound ==
  /\ pc = "get_tree" /\ op.pc = "idle"
  /\ LET at == T!Search(<<record.id, 1>>)
     IN  /\ at.found # Nil
         /\ cs_tree' = at.found
  /\ HaveTree
  /\ UNCHANGED <<treeVars, mapVars, op, record, ms, resolved, last_ms,
                 inserted, replayed>>

TreeNew ==
  /\ pc = "get_tree"
  /\ LET new == Fresh(record.id, tree_set)
     IN  T!Add(new) /\ cs_tree' = new
  /\ UNCHANGED <<mapVars, pc, record, todo, ms, resolved, last_ms,
                 inserted, replayed>>

(* rb_insert_color() rebalances, then get_tree() returns the new tree.     *)
TreeRebalance ==
  /\ pc = "get_tree"
  /\ \/ T!Rebalance /\ UNCHANGED <<pc, todo>>
     \/ T!Return /\ HaveTree
  /\ UNCHANGED <<mapVars, record, cs_tree, ms, resolved, last_ms,
                 inserted, replayed>>

(* get_map() returns a map symbol for the next entry, and remembers it.    *)
HaveMap(symbol) ==
  /\ last_ms' = symbol
  /\ resolved' = Append(resolved, symbol)
  /\ todo' = Tail(todo)

(* Mutant: the last answer is given whatever is asked for.                 *)
MapLastAlways ==
  /\ pc = "get_map" /\ op.pc = "idle" /\ todo # <<>>
  /\ last_ms # Nil
  /\ HaveMap(last_ms)
  /\ UNCHANGED <<treeVars, mapVars, op, pc, record, cs_tree, ms, inserted,
                 replayed>>

(* The last answer is asked for again.                                     *)
MapLast ==
  /\ pc = "get_map" /\ op.pc = "idle" /\ todo # <<>>
  /\ last_ms # Nil
  /\ IdOf(last_ms) = Head(todo)
  /\ HaveMap(last_ms)
  /\ UNCHANGED <<treeVars, mapVars, op, pc, record, cs_tree, ms, inserted,
                 replayed>>

MapSearch ==
  /\ pc = "get_map" /\ op.pc = "idle" /\ todo # <<>>
  /\ last_ms # Nil => IdOf(last_ms) # Head(todo)

MapFound ==
  /\ MapSearch
  /\ LET at == M!Search(<<Head(todo), 1>>)
     IN  at.found # Nil /\ HaveMap(at.found)
  /\ UNCHANGED <<treeVars, mapVars, op, pc, record, cs_tree, ms, inserted,
                 replayed>>

(* Mutant: ms is not set when the map is new.                              *)
MapNewUnset ==
  /\ MapSearch
  /\ M!Add(Fresh(Head(todo), map_set))
  /\ UNCHANGED <<treeVars, pc, record, todo, cs_tree, ms, resolved, last_ms,
                 inserted, replayed>>

MapNew ==
  /\ MapSearch
  /\ LET new == Fresh(Head(todo), map_set)
     IN  M!Add(new) /\ ms' = new
  /\ UNCHANGED <<treeVars, pc, record, todo, cs_tree, resolved, last_ms,
                 inserted, replayed>>

MapRebalance ==
  /\ pc = "get_map"
  /\ \/ M!Rebalance /\ UNCHANGED <<last_ms, resolved, todo, ms>>
     \/ M!Return /\ HaveMap(ms) /\ ms' = Nil
  /\ UNCHANGED <<treeVars, pc, record, cs_tree, inserted, replayed>>

(* Every entry has its map: the callstack is in the tree.                  *)
Insert ==
  /\ pc = "get_map" /\ op.pc = "idle" /\ todo = <<>>
  /\ inserted' = inserted \cup {[tree |-> cs_tree, maps |-> resolved,
                                 nr |-> Cardinality(inserted) + 1]}
  /\ replayed' = [replayed EXCEPT ![record] = @ + 1]
  /\ pc' = "main"
  /\ record' = NoRecord /\ cs_tree' = Nil /\ resolved' = <<>>
  /\ UNCHANGED <<treeVars, mapVars, op, todo, ms, last_ms>>

Step ==
  \/ TreeFound \/ TreeNew \/ TreeRebalance
  \/ MapLast \/ MapFound \/ MapNew \/ MapRebalance
  \/ Insert

(* All records are replayed; what main() prints then changes nothing.      *)
Finished ==
  /\ pc = "main"
  /\ Cardinality(inserted) = MaxRecords
  /\ UNCHANGED vars

Next == (\E r \in Records : NextRecord(r)) \/ Step \/ Finished

Spec == Init /\ [][Next]_vars

-----------------------------------------------------------------------------

(* The loops over rb_first() and rb_next() at the end of main(), which     *)
(* count the trees and the maps.                                           *)
NumTrees ==
  LET from[t \in TreeStructs \cup {Nil}] ==
        IF t = Nil THEN 0 ELSE 1 + from[T!Next_(t)]
  IN  from[T!First]

NumMaps ==
  LET from[mt \in MapStructs \cup {Nil}] ==
        IF mt = Nil THEN 0 ELSE 1 + from[M!Next_(mt)]
  IN  from[M!First]

Replayed == {r \in Records : replayed[r] > 0}

(* Type correctness.                                                       *)
TypeOK ==
  /\ tree_set \subseteq TreeStructs /\ map_set \subseteq MapStructs
  /\ pc \in {"main", "get_tree", "get_map"}
  /\ record \in Records \cup {NoRecord}
  /\ todo \in Seq(MapIds)
  /\ cs_tree \in TreeStructs \cup {Nil}
  /\ {ms, last_ms} \subseteq MapStructs \cup {Nil}
  /\ resolved \in Seq(MapStructs)
  /\ inserted \subseteq [tree : TreeStructs, maps : Seq(MapStructs), nr : 1 .. MaxRecords]
  /\ replayed \in [Records -> 0 .. MaxRecords]

(* The ids of maps can be compared by the ints of their differences: these *)
(* add up, and are not 0 for two ids.  It is so for any ids that are less  *)
(* than half the range of an int apart.                                    *)
IdsFit ==
  \A a, b, c \in MapIds :
    /\ ToInt(a - b) + ToInt(b - c) = ToInt(a - c)
    /\ a # b => ToInt(a - b) # 0

(* Every entry gets the map symbol of its own map.                         *)
MapsAreTheirOwn ==
  \A i \in DOMAIN resolved : IdOf(resolved[i]) = record.maps[i]

(* What last_ms answers without a search is what a search would find.      *)
LastIsFound ==
  last_ms # Nil /\ op.pc = "idle" => M!Search(last_ms).found = last_ms

(* Between two records, the numbers that main() prints at its end are the  *)
(* numbers of different ids and of different maps in the records.          *)
TotalsAreDistinctIds ==
  pc = "main" =>
    /\ NumTrees = Cardinality({r.id : r \in Replayed})
    /\ NumMaps = Cardinality(UNION {{r.maps[i] : i \in DOMAIN r.maps} : r \in Replayed})

(* Whatever was added in between, the same id is given the same tree and   *)
(* the same map the same symbol, so that all sightings of a record are     *)
(* counted in one place: the first structure of each id.                   *)
CountOf(r) ==
  Cardinality({i \in inserted :
    /\ i.tree = <<r.id, 1>>
    /\ i.maps = [k \in DOMAIN r.maps |-> <<r.maps[k], 1>>]})

Abs == INSTANCE StackCounts WITH
  Stacks  <- Records,
  count   <- [r \in Records |-> CountOf(r)],
  inserts <- replayed
ImplementsStackCounts == Abs!Spec
=============================================================================
