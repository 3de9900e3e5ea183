# Verification of callstack-count

`callstack-count` is a single-threaded benchmark. It replays recorded samples
(an id and a callstack of up to 256 `(ip, map)` entries) into one of three
backends that count how often each callstack was seen, and compares what they
cost. What makes it hard is not concurrency but data structures that are
rebuilt under the feet of the code that walks them: nodes that are split,
replaced and freed in mid-walk, counters updated while a recursion unwinds, and
tables that switch representation.

This directory holds TLA+ models of those structures, the TLC runs that check
them on small instances, and TLAPS proofs, for every value of the constants,
about every one of them: the radix tree and its nodes, the linux backend with its
callchain tree, the hash table, the red-black tree, and the driver.
Paths below are relative to the repository's `src/`.

## Inventory

| Component | Source | State | Operations | Correct when |
|---|---|---|---|---|
| Driver | `main.c` | red-black tree of callstack trees by id; red-black tree of maps; `last_ms` | `get_tree`, `get_map`, the replay loop, statistics | one tree per id, one map symbol per map id, `last_ms` agrees with the tree |
| Backend interface | `include/callstack.h` | — | `new`, `insert`, `stats`, `put` | an insertion is one more sighting of that callstack and of no other |
| ART backend | `lib/art/art.c`, `ops.c` | radix tree of nodes in four layouts; `_node`, the link through which the current node is replaced | `insert` (`do_leaf`, `check_prefix`, `add_child`, `grow`), `search` | nodes map bytes to children, the tree stays a tree in memory, every inserted callstack is found with its count |
| linux backend | `lib/linux/callchain.c`, `callstack.c` | callchain tree with own and hierarchical counters; the cursor | `callchain_append`, `callchain_merge`, cursor operations, `sort_chain_*` | each path has its count, siblings differ in their first entry, counters add up |
| hash backend | `lib/hashtable/hashtable.c`, `callstack.c` | 3 internal buckets, then 2^16 buckets; key pointers | `hash_insert`, `hash_lookup` | counts survive the spill, keys are compared with what they were, callstacks are told apart |
| Red-black tree | `lib/linux/rbtree.c`, `include/linux/rbtree*.h` | coloured binary tree, cached leftmost node | insert, erase, iterate | ordered and balanced between calls, free of loops between any two stores |
| Allocation counters | `ccalloc.c`, `lib/linux/zalloc.c` | three counters | `ccalloc`, `cfree` | only printed |
| HOT backend | `lib/hot/` | none, a stub that is not built | `hot_insert` is empty | — |
| Headers, data | `include/`, `arch/`, `lib/linux/*.h`, `gen.d` | — | — | vendored or generated |

Interaction: `main()` asks `get_tree(id)` for the tree of a sample and calls its
`insert`. The linux backend calls back `get_map()` for every entry, fills its
cursor and appends it. The driver, `get_map()` and every callchain node keep
their children in red-black trees. The ART and hash backends read the entries as bytes. A
tree is never shared by two backends, and trees do not share state except the
cursor of the linux backend, which is refilled by each call.

The hard behaviours are listed with their lines in `PROJECT.json` (`hazards`).

## Modules

| Module | Models | Role |
|---|---|---|
| `StackCounts` | the promise of `struct callstack_tree.insert` | abstract specification: `count[s]` grows by one with every insertion of `s` |
| `ChildMap` | what an inner node promises its tree | abstract specification: a partial function from bytes to children |
| `ArtNode` | `struct radix_tree_node`, `alloc_node`, `make_leaf`, `is_full`, `find_child`, `add_child`, `grow` | operators on one node |
| `ArtNodeSpec` | the life of one inner node under `insert()` | state machine over `ArtNode`; implements `ChildMap` |
| `ArtTree` | `insert()`, `do_leaf()`, `check_prefix()`, `search()` over a heap of nodes | state machine over `ArtNode`; implements `StackCounts` where the code is right |
| `ArtProofs` | — | what the operators of `ArtNode` do to a node, layout by layout; theorems about `ArtNodeSpec` and `ArtTree` |
| `Callchain` | `callchain_append()` and its recursion | state machine; implements `StackCounts` |
| `SumLemmas` | — | induction over the natural numbers; `SumFunction` over a finite set |
| `CallchainProofs` | — | a callchain tree as a value: its paths, and what a new leaf and a split do to it; theorems about `Callchain` |
| `CallchainSort` | `rb_insert_callchain()`, `sort_chain_flat/graph_abs/graph_rel` | operators over `Callchain`'s tree |
| `LinuxBackend` | `insert()` of the linux backend, the cursor, `callchain_merge()` | state machine over `Callchain`, whose actions it embeds |
| `LinuxBackendProofs` | — | theorems about `LinuxBackend`, from the lemmas of `CallchainProofs` about the actions it embeds |
| `HashCounts` | what the hash table really promises | abstract specification: a table of counts that is forgotten once, that callstacks with the same hash share from then on, and that may fail when there are such callstacks |
| `HashTable` | `hash_insert()`, `hash_lookup()` | state machine; implements `HashCounts` |
| `HashTableProofs` | — | theorems about `HashTable` |
| `RBTree` | `rb_find_add`, `rb_insert_color`, `rb_erase`, the cached variants, all iterations | state machine, one step per store |
| `RBTreeLemmas` | — | a red-black tree as a value: what stores, rotations and an erasure do to it, and what each step of the code stores |
| `RBTreeProofs` | — | the invariant of the calls; theorems about `RBTree`; what a client of a tree needs |
| `Driver` | the replay loop, `get_tree()`, `get_map()`, `last_ms`, the final walks | state machine over two instances of `RBTree`; implements `StackCounts` |
| `DriverProofs` | — | theorems about `Driver`, from `RBTreeProofs` for each of the two trees |
| `MC*` | — | the sets that instantiate a module for TLC |

Definitions whose comment starts with "Mutant:" are deliberately wrong variants
of the definition that follows them. No specification uses them; putting one in
the place of its original must break the property it is listed with in
`PROJECT.json`.

### ArtNode, ArtNodeSpec

A node is a record with the fields of the C struct; `prefix_len` is the length
of the sequence `prefix`. The four layouts encode the byte-to-child function
differently, and the operators follow the encoding: `key[]` searched in order
(INNER_4, INNER_16), `key[b]` an index (INNER_48, with 0xff for unset), `arr[b]`
(INNER_256). The capacities 4, 16, 48 and 255 are constants with the assumption
`0 < Cap4 < Cap16 < Cap48 <= MaxByte`. `AddToInner` is the "Add to inner node"
branch of `insert()`: it grows a full node and calls `add_child()`; a failing
assertion sets `aborted`. `Relink` is `replace()` through the slot that
`find_child()` returned.

### ArtTree

`heap` maps addresses to live nodes; `grow()` removes the freed node from it.
One step is one iteration of the loop of `insert()`; `link` is `_node` (the
slot of a parent, or `priv->root`) and `depth` the bytes consumed. The disjuncts
of `InsertStep` are the branches of the code in its order: `InsertRoot`,
`LeafHit` and `LeafSplit` (`do_leaf()`, with its chain of inner nodes for long
prefixes), `PrefixMismatch`, `Consumed`, `Descend` and `AddLeaf`. `Grow` loses
prefix and count, the chain overwrites part of a prefix, a leaf without
remaining bytes is dropped: the model does what the code does.

Abstractions: bytes, capacities and `sizeof(prefix)` are small; a key is a
sequence of bytes, followed by zeroes when read past its end, as the entries of
a record are (`ByteAt`). For the same reason the second comparison of
`do_leaf()` (art.c:438), which reads `depth` bytes past both keys, is taken to
succeed. Keys of any length in bytes are what `lib/art/test.c` inserts; the
backend's are multiples of 16 bytes.

### Callchain

`nodes` are numbered in the order they are created; node 0 is `root->node`. The
functions `append_chain_children()` and `append_chain()` recurse into each
other: `pc = "down"` while they search (one step per `append_chain()` that
matches its node), `"up"` while they return, and `stack` holds the nodes whose
`append_chain_children()` is running. `Unwind` is the code at
`inc_children_hit`. `SplitAtEnd` and `SplitAndBranch` are the two halves of
`split_add_child()`, and `Fail` the path of a NULL from `ccalloc()`: before
anything changed, or between the split and the second child. The red-black tree
of children is a set, since the search depends on the first entries only (and
`DistinctSiblings` shows that they differ). `__max_depth`, a statistic of the
shape of that tree, is left out. The driver passes the period 0; the period 1
makes the `hit` counters visible.

`match_chain()` compares the entry in the tree with the one in the cursor and
goes to the left if the former is the lesser: children are ordered from the
greatest entry to the least. The order matters for sorting and merging only.

### CallchainSort

A tree that is built by `rb_insert_callchain()` is the sequence of its nodes in
order: heaviest first, equal ones in the order they came. `SortGraphAbs` and
`SortGraphRel` give one sequence per node (`node->rb_root`); what is shown is
what is reached from the root's. The product `children_hit * min_percent` is
exact here and a `double` in the code. The property excludes failed allocations:
a split that got no second child has raised the weight of its node and not that
of the nodes above, so the graph output may then hide it below a lighter parent.

### LinuxBackend

The cursor is a list of cells that only grows; `nr` cells are read and `last` is
the place where the next one goes. `callchain_cursor_append()` can fail only
where a cell must be allocated; both of its callers ignore that, so the entry is
left out (`missed`). The steps of `callchain_append()` are `Callchain`'s own
actions. `frames` is the recursion of `merge_chain_branch()` with its saved `nr`
and `last`; a branch with weight is appended by the same actions, starting at
`root->node` and without an update of `max_depth`. `Abandon` is the error path:
the call that fails returns past the restoration, the calls above restore. A
child that is being merged is erased from the tree first; that it must be the
first in order, and that `rb_next()` was taken before, is `RBTree`'s business.
There are two trees, since the cursor is shared by all of them. `insert()`
passes the period 0; the period 1 stands for other callers of the tree. The
program never calls `callchain_merge()`; a merge ends the behaviours of the
model. Its cursor is the thread's or a new one.

`CallchainsAssumption` makes `Chains` large enough for everything that can be
appended: the entries of a callstack up to any index before its end, and every
callchain with an entry left out. It restricts no behaviour; it is what makes
the histories `appends` and `weights` total. `KeptOf` says what is left of a
callstack without the lost entries.

### RBTree

`tree` holds the pointers and colours as they are in memory. A step of the code
(one iteration of `__rb_insert()` or `____rb_erase_color()`, or the unlinking in
`__rb_erase_augmented()`) first puts its stores in the queue `op.stores`, in
program order; `Store` executes one of them. What a step reads, it reads before
its stores, as the code does (a value read after a store is one that store does
not change). `Cmp` is the comparison of the caller. Colour and parent share a
word, hence a store.

### Driver

`T` and `M` are the instances of `RBTree` for `trees` and `map_trees`; they share
`op`, since the program is sequential. A structure is a pair of the id it was
allocated for and a number, so that a search which misses a structure is seen
to add a second one. `ToInt` is the conversion in `int cmp = mt->id - id`.

### HashTable

Every action is one call of `hash_insert()`. A bucket holds the address of a
`struct stream`, and `mem` says what that stream holds now. `StreamAt` gives
each callstack a stream of its own (the tests) or the same one to all (the
backend, whose `insert()` passes the address of a local variable and is called
from one place in `main()`, hence at one stack depth). The branch for an empty
internal bucket (hashtable.c:93-100) is unreachable: buckets below
`num_internal` have a key, and the line before would dereference it.

## Runs

| Run | Instance | Question | States |
|---|---|---|---|
| `art_node` | 6 bytes, capacities 2/3/4/6, 2 children | does a node stay a consistent map through all four layouts? | 7 109 |
| `art_shape` | 13 keys that nest, share prefixes, need chains and lose prefixes; prefix of 2 bytes, 4 insertions | is the tree well formed whatever is inserted, does each insertion end, is nothing counted twice, where can an assertion fail? | 80 547 |
| `art_counts` | 8 keys that avoid the known defects, 5 insertions | does the tree implement `StackCounts`, with the root growing to INNER_256? | 72 097 |
| `callchain` | 6 nested and branching chains, periods 0 and 1, 4 appends, 1 allocation failure | is the tree unambiguous and compressed, do counters add up, does it implement `StackCounts`, do the sorted outputs show the weights? | 416 158 |
| `linux_backend` | 5 callstacks of up to 3 entries, 2 trees of up to 2 appends, periods 0 and 1, 1 allocation failure, then a merge | does the cursor never mix callstacks or branches, what does a merge keep? | 797 220 |
| `hash_table` | 6 callstacks with 4 hashes, some begin others, 3 internal buckets, 7 insertions | does the table implement `HashCounts` across the spill, does every lookup find its bucket, when can the assertion fail, which callstacks can share a bucket without that? | 36 085 |
| `rbtree` | 8 nodes, any sequence of insertions and erasures, no bound on its length | free of loops at every store, balanced, ordered, walked in order; do calls end? | 87 858 |
| `driver` | 6 records with 5 tree ids and 5 maps, an int of 4 bits, 4 records replayed | is every id found again, is `last_ms` what a search finds, is `StackCounts` implemented? | 26 155 |

Runs that are expected to find a violation show a disagreement between the code
and its documentation or tests (`findings` in `PROJECT.json`):

| Run | What the code does |
|---|---|
| `art_grown_prefix` | `grow()` drops the prefix of the node: keys below it are not found any more |
| `art_nested_key` | a callstack that extends another drops the shorter one's leaf and count |
| `hash_frame` | buckets keep the address of a dead local variable: all callstacks look alike |
| `driver_far_maps` | ids of maps that differ by a multiple of 2^32 compare as equal: the second map gets the symbol of the first |

Other deviations that the models contain, without a run of their own:

- an assertion of `add_child()` fails where a new node is given two children for
  the zero past the end of a callstack: for a key that ends inside a prefix whose
  next byte is 0, and, below a node that lost its prefix, for a leaf whose key
  ended above when the inserted key goes on with 0. `AbortsPastKeyEnd` in
  `art_shape` says that there is no other way in which an assertion fails;
- below a node that lost its prefix, an insertion also hits the leaf of another
  callstack of the same length, since `do_leaf()` compares from `depth` on only.
  `NeverOvercounts` therefore speaks of all callstacks of one length;
- a common part longer than `prefix[]` loses bytes when the chain is built
  (`LastPrefix` in `ArtTree`; `art_counts` has no such keys);
- a new leaf has count 0, so N insertions count N - 1: the refinement in
  `art_counts` adds 1;
- the spill of the hash table sets counts back to 1: `HashCounts` is the
  abstract specification that forgets once. `ImplementsHashCounts` therefore shows
  that nothing else is lost, not that nothing is;
- the spill also counts the internal callstacks in `unique` a second time:
  `__hash_insert()` adds 1 for each (hashtable.c:70), as `hash_insert()` did when it
  came (hashtable.c:118). After 4 different callstacks with different hashes, each
  with a stream of its own, `unique` is 7, which callstack.c:61 prints as the
  "Unique entries in hashtable". `UniqueIsUnique` therefore fails in two ways: the
  run `hash_frame` shows the one that needs no spill, the theorem
  `UniqueCountsTwice` says what `unique` is in the other;
- a callstack with the hash of another one is counted in the other's bucket if it
  begins the other's key, since the assertion compares only as many bytes as the
  new callstack has. `SharedAreNested` says that no other collision passes.

Lookups of callstacks that were never inserted are beyond the properties: after the
spill `hash_lookup()` follows a bucket that may not be there (hashtable.c:150), and
no caller in the repository makes such a lookup. An entry that a failed
`callchain_cursor_append()` leaves out is admitted by `FillReadsInput`, not excluded:
the code does not look at the result.

The refinement in `art_counts` therefore reads a leaf as one sighting more than
its count, and its keys are prefix-free, with common parts that fit in a prefix.

The abstract specifications carry the history of insertions. It changes in the
same step as the count, so an insertion that is not counted is no stutter.

**Bounds.** `MaxInserts`, `MaxAppends` and `MaxFailures` bound the length of a
behaviour; the runs set `CHECK_DEADLOCK FALSE` because the program really stops
when there is nothing left to insert (`art_node` has no bound and checks
deadlock). Capacities 2/3/4 with 5 or 6 bytes take a node through three growths
with two spare bytes. Four insertions suffice for a split below a split and for
a growth of a node that a split made; with the mutants each property is shown
to fail within these bounds. Four appends split a node that has children, twice.
Seven insertions repeat a key before and after the spill at four keys, also when
callstacks share a hash. Two
appends per tree give a tree with a split or a nested path to merge into another
such tree; entries left out by failures make every subsequence of a callstack a
possible chain. Eight nodes are enough for every case of the erasure on both
sides, also after a colour flip has moved it up; the run has no other bound and
checks deadlock. In `driver`, four records add up to four trees and five maps, in
several orders; `Finished` makes deadlock mean a record that gets stuck. The
ids of the maps differ by more than an int of 16 values holds, but what is left
of them in 4 bits is different and lies within half of its range.

**Fairness.** `ArtTree`, `Callchain`, `LinuxBackend` and `RBTree` assume weak
fairness of the steps inside one call: the program is sequential and does not
stop in the middle of one. Nothing is assumed about when the next call comes.
`InsertEnds`, `AppendEnds` and the two `CallsEnd` rest on it. `Driver`,
`HashTable` and `ArtNodeSpec` state safety only.

## Proofs

The first part of `ArtProofs` proves, for all capacities that satisfy `CapsAssumption` and any
set of children without `Null` (`NullAssumption`):

- `NodeTypeCorrect`: every index stays inside `key[]` and `arr[]`;
- `LayoutCorrect`: the used slots are exactly those with a child, and belong to
  distinct bytes;
- `AssertsHold`: no assertion of `add_child()` or `grow()` fails;
- `NodeImplementsMap`: `ArtNodeSpec` implements `ChildMap`, so that a growth is
  invisible and an insertion changes one byte's child.

The inductive invariant `NodeInv` is the conjunction of the three safety
properties. None is inductive alone: `add_child()` keeps its index in bounds only because
`is_full()` counts the used slots, which needs the layout; the layout survives
the step from INNER_16 to INNER_48 only because the sixteen bytes are distinct;
and the assertions need both. The proof has one lemma per layout for lookup and
addition (`ChildSparse`, `Child48`, `Child256`, `AddSparse`, `Add48`, `Add256`),
one per growth (`Grow4`, `Grow16`, `Grow48`), and puts them together in
`MakeRoomOK`, `AddChildOK` and `RelinkOK`, which the proofs about the tree use too.

### ArtTree

The second part of `ArtProofs` proves, from `CapsAssumption` and `TreeAssumption` (a
finite set of keys of any length, any size of `prefix[]`, an INNER_4 with room for two
children):

- `TypeCorrect`: no prefix outgrows `prefix[]`, and the unsigned subtractions of
  `insert()` and `check_prefix()` never wrap;
- `TreeStaysTree`: whatever is split, chained and grown, no link dangles, no two
  links share a node and `_node` stays a slot of a live node (`TreeShape`);
- `AbortsOnlyPastKeyEnd`: no growth and no child added to a node makes an assertion
  fail;
- `NothingCountedTwice`: the leaves of one length never stand for more sightings than
  there were insertions of that length.

They also cover what the code does wrong: a prefix lost by `grow()`, a leaf that is
dropped, keys read past their end. So wrong counts,
leaves that nothing links to and the assertion are the worst that these defects do;
they never damage the tree in memory.

The inductive invariant `IInv` has two parts. `TreeInv` says of the heap as a value
that its nodes are fine and that it is `Hung`: each node is held at most once, by the
root pointer or by one child of one inner node, and never by itself. `TreeShape` is
weaker and not inductive: it speaks of slots, and what `replace()` does to a slot is
known only when that slot belongs to a byte. Hence `WalkInv`: the slot in `_node` is
the one that `find_child()` returns for a byte that has a child (`LinkFine`). That
nothing holds itself is needed by `grow()`, which frees the node before the link to
it is redirected.

Each branch of `insert()` hangs new nodes below one slot and may keep, move or free
the node that was there. `Graft` says once what such a change does to `Hung`; the
chain of a long prefix is the case with many new nodes (`ChainFine`). `Sprout` and
`Rewrite` are the changes that leave the links alone. For the counts, each step either
leaves the leaves alone, makes one, or hits one of the length of the key (`Gain`);
`SeenMore` and `GivenMore` turn that into sums.

Two properties that the run had not refuted turned out to be false when they were to
be proved. It had been stated that an assertion fails only for a key that ends inside
a prefix, and that no single callstack is counted more often than it is inserted. Both
fail below a node that lost its prefix, with keys the run did not have; it has them
now, and the properties say what is true.

### Callchain

`CallchainProofs` proves, for every finite set of callchains, any periods and any
number of failed allocations (`ChainsAssumption`; the two bounds are arbitrary
naturals, and nothing in the proofs depends on their size):

- `TypeCorrect`, `SiblingsStayDistinct`, `StackStaysPath`, `TreeStaysCompressed`,
  `CountersStaySums`, `SamplesStayCounted`: the six safety properties of the run
  `callchain`;
- `TreeImplementsCounts`: the tree implements `StackCounts`. A split, also one
  that fails between its two halves, maps to a stutter.

The inductive invariant `IInv` says of the nodes as a value `Forest(nodes)`: they
are numbered without a gap, a map from nodes to paths exists (so that there is
no loop of parents), siblings differ in their first entry and entries are not
empty. It adds the stack of running calls as a way down that forest, the
position in the cursor as the path of its last node, and the sums. Each step then
either leaves the table of counts and weights alone (`Quiet`) or adds the callchain
in the cursor to it (`Counts`), which is the refinement: a callchain is counted at
the one node that stands for it (`Counted`, `CountInCounted`). None of the
properties is inductive alone. Siblings stay distinct only because a new leaf
differs from all that were searched; the sums need `Cardinality` of the children
and the place where the last sample waits; that a callchain is counted at *one*
node rests on paths being different (`PathInjective`), which rests on distinct
siblings. Compression and the sums hold while `failures = 0`; the others always.

A parent may have a larger number than its child (a split puts the new node in
between), so no order of the numbers orders the tree. The existence of `path` does:
its length grows downward, and that is what the proofs about it use.

### LinuxBackend

`LinuxBackendProofs` proves about `BackendSpec`, from `InputsAssumption` and
`CallchainsAssumption`:

- `BackendTypeCorrect`: `last` follows `nr` and all that is read is allocated, also
  after a merge that failed;
- `InsertReadsItsInput`: `insert()` appends nothing of an earlier callstack;
- `MergeReadsItsPath`: each branch puts the cursor back for the one after it;
- `MergeKeepsWeights`: a merge in which no allocation failed leaves nothing in the
  other tree, gives every callchain the weights it had in both trees, and one
  sighting to those with a weight in the other tree (`MergeAddsWeights`);
- `TreesStayTrees`: what `CallchainProofs` shows of `Callchain`'s own specification
  also holds of the trees that `insert()` and `callchain_merge()` work on.

The inductive invariant `BInv` is `IInv` of the tree at hand, the same for the
tree that rests (`OtherInv`), the cursor (`CellsInv`), the phases (`PhaseInv`), the
loop of `insert()` (`FillInv`) and the running merge (`MergeInv`). The last is
about the recursion: the running calls go down the tree that is drained, their
saved positions go up in the cursor, and what the cursor holds up to a saved
position is what the call that saved it had there. With a failed allocation that
is not the path any more but what is left of it; `Covers` says that it may stand
for the path in front of whatever follows, so that what is appended is a callchain
still. `Drained` remembers the paths that the branches had before their entries
moved to the cursor.

`WInv`, the second invariant, is about weights and builds on the first. Outside of
a merge, each tree tells the periods that were appended to it (`Tells`). In a merge
without failures every callchain is in one of three places: its weight waits in a
branch that no call has tried (`Waiting`), or `append_chain_children()` is on its
way down with it (`Passing`), or it was added (`Added`). `MergeAppend` takes it from
the first to the second, the step that counts it from the second to the third. That
a branch can be freed without a loss needs that calls go down only from branches
that were tried or weigh nothing, and that none is left when the first call returns
follows from the lengths of the paths (`BranchesEnd`): a branch that is left has a
parent that is left, up to the root, which has no children any more.

### HashTable

`HashTableProofs` proves `TypeCorrect` for all callstacks, streams and hashes. The
other theorems have one hypothesis, `OwnStreams`: each callstack is passed in a
stream of its own. The tests and the run `hash_table` satisfy it. The backend does
not, since its streams share one address (run `hash_frame`), so that it cannot be
dropped. Hashes are arbitrary.

- `OnlyCollisionsAbort`: the assertion of `__hash_insert()` fails only if two
  inserted callstacks have the same hash;
- `SharedBucketsNest`: every inserted callstack has the bucket that `hash_lookup()`
  follows, and begins its key;
- `UniqueCountsTwice`: `unique` is the number of different callstacks until the
  spill, and NumInternal plus the number of their hashes after it;
- `TableImplementsCounts`: every call is a step of `HashCounts`.

The inductive invariant `IInv` says which buckets there are, unless the assertion
failed. Before the spill, there is one internal bucket for each inserted callstack
and no other bucket; after it, each inserted callstack has the bucket of its hash,
whose key it begins, and each bucket has a key of its own hash; each bucket points to
a stream that still holds the callstack. An assertion that failed has met a key that
the callstack does not begin, hence another callstack of the same hash. The spill is a
`FoldLeft` over the internal buckets: `InsertSteps` says what each prefix of that
fold has done, and `InsertsOnce` that each bucket then counts the callstacks of its
hash once, which is what `HashCounts` asks of the spill.

### RBTree

`RBTreeProofs` proves, for any set of structures, finite or not, and any sequence of
insertions and erasures:

- `TypeCorrect`: pointers and pending stores are of their types;
- `NeverLoops`: no store makes a loop of child pointers, not even one that the next
  store would undo. This is what the comments of `rbtree.c` promise to a reader that
  does not lock;
- `StaysBalanced` and `LoopsKeepInvariants`: the properties 2, 4 and 5 of red-black
  trees between calls, and the loop invariants of `__rb_insert()` and
  `____rb_erase_color()` at the head of each iteration;
- `StaysOrdered`: the tree holds exactly its members, each once and in the order of
  the search. It has the hypothesis `Keyed`: `Cmp` compares integer keys, in the
  direction of `get_tree()`. Without it the tree has no order to keep;
- `WalksAgree`: between calls `rb_first()`/`rb_next()`, `rb_last()`/`rb_prev()` and
  the post-order walk visit each node in its place and end, the cached leftmost node is
  the first, and parent pointers are the inverse of child pointers.

None of them but the types is inductive, and between two stores of a rotation hardly
anything holds: a subtree is out of reach, parents and children disagree, the order is
broken. The inductive invariant `IInv` therefore does not speak about memory as it is,
but about where it leads: the stores in `op.stores`, executed one after the other, go
through trees without loops (`Ranked`: a number for each node that falls along child
pointers) to a tree as it should be at this point of the call (`Head_`). `Store` keeps
that by its form. All the work is in the steps that fill the queue: for each there is
a lemma in `RBTreeLemmas` (`InsertFlipGoes`, `EraseRotateTwiceGoes`, ...) that gives
the tree after its stores and a rank for every tree on the way.

`Head_` says that there are witnesses: `sub[n]`, the nodes below `n`; `pos[n]`, a number
for each node that grows from left to right; and `bh[n]`, the number of black nodes on
the paths down from `n`. With these, statements about all paths and all pairs of nodes
become equations between a node and its children (`Shape`, `Sorted`, `Bal`), and a
rotation or a flip changes few of them. Order needs no balance, but both need `Shape`;
`Erase` needs `LeftmostOf` to move the cached node, and the loop of the erasure needs
`Bal` to know that the sibling exists. `pos` is rational at heart: a new node goes between
two others, so the other numbers are doubled.

What the properties state with recursive functions (`InOrder`, `BlackCounts`, the walks)
is tied to the witnesses last, in `RBTreeProofs`: the recursions have
solutions since ranks fall (`RankInduction`), the sequence of all nodes is the one
sorted by `pos`, and the sets of counts have the one member `bh`.

### Driver

`DriverProofs` proves, for all records and any even number of values of an int, under the
hypothesis `IdsFit`:

- `DriverTypeCorrect`;
- `EntriesGetTheirMaps`: each entry gets the symbol of its own map;
- `LastAnswerIsFound`: `last_ms` is never stale;
- `TotalsCountIds`: no id gets a second structure, and the loops over `rb_first()` and
  `rb_next()` count each structure once;
- `DriverCountsStacks`: the driver implements `StackCounts`.

`IdsFit` says of the ids of maps that the ints of their differences add up and tell
different ids apart: what `get_map()` needs of `int cmp = mt->id - id`. `NearIdsFit`
proves it for ids that are less than half the range of an int apart, and TLC evaluates
it for the records of `driver`, whose ids are further apart. It cannot be dropped: the
run `driver_far_maps` shows a wrong symbol. `get_tree()` compares ids as they are, so
that its part needs no hypothesis (`TreesKeyed`).

One variable `op` serves both trees, so that neither of them behaves like
`RBTree!Spec`, and the theorems about that do not apply. Its invariant does. `TreesInv`
says that each tree is as `IInv` of `RBTree` wants it, together with its own call:
`op` if the driver works on it, no call if it does not. `RBTreeProofs` is instantiated
once for each tree (`TP`, `MP`), and its last part has what a client of a tree needs:
that each step keeps `IInv`, that a search finds what compares as equal and nothing else
(`SearchRight`), and that the loops count the members (`CountLoop`). The rest of the
inductive invariant `DriverInv` is about the driver: which entries have their symbol
(`Resolving`), and that the trees hold the first structure of each id that was met, and
nothing else (`HoldsInv`). A second structure for an id is impossible because a search
that fails proves that the first is not there; so the same id has the same structure
for ever, which all the theorems rest on.

### How data is handled

The library's induction theorems take a predicate, which the provers cannot
instantiate. `LeastNatural` follows from the well-foundedness of `<` with a set in
its place, and `NatSetInduction` from it: a set that contains 0 and `n + 1` with
every `n` contains all. With these, a `SumFunction` (`SumIsSum`, `SumRemove`,
`SumChange`), a `FoldLeft` (`FoldExists`) and the recursive functions `PathOf` and
`KeptOf` (`PathFollows`, `KeptExists`) are first shown to exist and to be unique
and are then only used through their equations.

Each invariant was checked by TLC on the instance of its run before it was proved; of
the one of `RBTree`, whose witnesses TLC cannot guess, the consequences that the run
`rbtree` lists.

### Only model-checked

- Liveness under fairness: `AppendEnds`, `InsertEnds`, both `CallsEnd`. Out of the
  provers' reach.
- `SortsShowWeight`: it is about what `SelectSeq` returns, which the provers do not
  expand and the library has no theorem about.
- `ImplementsStackCounts`, `InsertedIsFound` and `CountsNeverDrop` of `ArtTree`. What
  they say holds only for keys that avoid the known defects, and of these the runs
  have a set that no short hypothesis describes.

## Not modelled

- `callchain_cursor__copy()`, `callchain_cnode_matched()`,
  `callchain_avg_cycles()`, `rb_replace_node()` and the augmented callbacks:
  nothing calls them, or they are dummies. Branch flags, symbols and source lines
  are never set in this program, so entries are compared by map and address.
- The entry lists inside a callchain node are sequences: their pointer surgery in
  `split_add_child()` is not.
- A callstack that fills all 256 entries in the ART backend (`ops.c:95` leaves the
  end of the stream unset), and the comparison at `art.c:438` that reads past both
  keys: the recorded callstacks are short and followed by zeroes.
- A failed allocation of the cursor itself, or in the driver, where it ends the
  program.
- `jhash()`: a constant function from callstacks to hashes: `hash_table` gives
  some callstacks equal ones.
- Allocation counters and printed statistics; the HOT stub; vendored headers; data.
- Overflow of counters: 32 and 64 bit counters, at most 20 times the number of
  records.

## Plan

Everything that the program runs is modelled, and every invariant that holds is
proved but the one about sorting, and so is every refinement that holds without the
known defects. What could be added is a hypothesis on keys under which `ArtTree`
implements `StackCounts`, to prove that too.
