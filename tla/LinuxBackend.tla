---------------------------- MODULE LinuxBackend ----------------------------
(***************************************************************************)
(* The linux backend around the callchain tree: insert() of                *)
(* lib/linux/callstack.c, which fills the callchain cursor of the thread   *)
(* from a callstack and appends it, and callchain_merge(), which drains    *)
(* one callchain tree into another through the same cursor.                *)
(*                                                                         *)
(* The cursor is a list that only grows: its nodes are reused from one     *)
(* callstack to the next, and nr says how many of them are read.  Both     *)
(* users ignore that callchain_cursor_append() may fail.                   *)
(*                                                                         *)
(* The variables of Callchain are those of the tree at hand; the variable  *)
(* other holds a second tree.  Merging recurs down the tree that is        *)
(* drained; the variable frames holds the calls that are running.          *)
(***************************************************************************)
EXTENDS Callchain

CONSTANTS
  Inputs,           \* the callstacks: arrays of entries, 0 where ip is 0
  MaxStackEntries   \* MAX_STACK_ENTRIES (256)

ASSUME InputsAssumption ==
  /\ MaxStackEntries \in Nat \ {0}
  /\ \A stack_ \in Inputs : stack_ \in [1 .. MaxStackEntries -> Nat]

(* The callchains are all that can reach the tree: what a callstack holds  *)
(* before its end, and what is left of a callchain when the node of an     *)
(* entry is not allocated.                                                 *)
ASSUME CallchainsAssumption ==
  /\ \A stack_ \in Inputs : \A k \in 1 .. MaxStackEntries :
       (\A j \in 1 .. k : stack_[j] # 0) => SubSeq(stack_, 1, k) \in Chains
  /\ \A c \in Chains : \A j \in 1 .. Len(c) :
       RemoveAt(c, j) \in Chains \cup {<<>>}

VARIABLES
  cursor,    \* cells: the entries of the allocated nodes; nr; last: the
             \* place of the node that cursor->last points to
  other,     \* the other tree, with its histories
  phase,     \* "idle", "fill" or "append" in insert(), "merge", "merged"
  input,     \* the callstack that is inserted
  i,         \* the index in the loop that fills the cursor, from 1
  frames,    \* the merge_chain_branch() calls that are running
  missed,    \* history: the indices whose cursor node was not allocated
  weights,   \* history: the periods appended to the tree for each chain
  base       \* history: appends when the merge began

backend == <<cursor, other, phase, input, i, frames, missed, weights, base>>
allvars == <<vars, backend>>

NoCursor == [cells |-> <<>>, nr |-> 0, last |-> 1]

(* linux_tree_new(), twice.                                                *)
BackendInit ==
  /\ Init
  /\ cursor = NoCursor
  /\ other = [nodes |-> nodes, max_depth |-> 0, appends |-> appends,
              weights |-> appends]
  /\ phase = "idle"
  /\ input = <<>> /\ i = 0
  /\ frames = <<>>
  /\ missed = {}
  /\ weights = appends
  /\ base = appends

-----------------------------------------------------------------------------
(* The cursor.                                                             *)

(* What callchain_cursor_current() and callchain_cursor_advance() read     *)
(* after callchain_cursor_commit().                                        *)
Read == SubSeq(cursor.cells, 1, cursor.nr)

(* Mutant: only the number of entries is reset.                            *)
CursorResetNr == [cursor EXCEPT !.nr = 0]

(* The nodes stay as they are.                                             *)
CursorReset == [cursor EXCEPT !.nr = 0, !.last = 1]

(* Mutant: a node that is there already is taken as it is.                 *)
CursorAppendStale(entry) ==
  /\ cursor' = [cells |-> IF cursor.last <= Len(cursor.cells) THEN cursor.cells
                          ELSE Append(cursor.cells, entry),
                nr |-> cursor.nr + 1, last |-> cursor.last + 1]
  /\ UNCHANGED failures

(* callchain_cursor_append() succeeds: the next node is reused or          *)
(* allocated.                                                              *)
CursorAppend(entry) ==
  /\ cursor' = [cells |-> IF cursor.last <= Len(cursor.cells)
                          THEN [cursor.cells EXCEPT ![cursor.last] = entry]
                          ELSE Append(cursor.cells, entry),
                nr |-> cursor.nr + 1, last |-> cursor.last + 1]
  /\ UNCHANGED failures

(* callchain_cursor_append() needs a node and gets none.                   *)
CursorAppendFails ==
  /\ cursor.last > Len(cursor.cells)
  /\ failures < MaxFailures
  /\ failures' = failures + 1
  /\ UNCHANGED cursor

-----------------------------------------------------------------------------
(* insert().                                                               *)

Insert(stack_) ==
  /\ phase = "idle"
  /\ SumFunction(appends) < MaxAppends
  /\ cursor' = CursorReset
  /\ phase' = "fill"
  /\ input' = stack_
  /\ i' = 1
  /\ missed' = {}
  /\ UNCHANGED <<vars, other, frames, weights, base>>

(* The condition and the break of the loop.                                *)
More == i <= MaxStackEntries /\ input[i] # 0

(* One round of the loop: whatever callchain_cursor_append() returns, the  *)
(* next entry follows.                                                     *)
FillEntry ==
  /\ phase = "fill"
  /\ More
  /\ \/ CursorAppend(input[i]) /\ UNCHANGED missed
     \/ CursorAppendFails /\ missed' = missed \cup {i}
  /\ i' = i + 1
  /\ UNCHANGED <<nodes, max_depth, pc, chain, pos, period, stack, appends,
                 other, phase, input, frames, weights, base>>

Filled == phase = "fill" /\ ~ More

(* The variables of the loop are not used any more.                        *)
LoopOver == input' = <<>> /\ i' = 0 /\ missed' = {}

(* An empty cursor is not appended.                                        *)
FillNothing ==
  /\ Filled
  /\ cursor.nr = 0
  /\ phase' = "idle"
  /\ LoopOver
  /\ UNCHANGED <<vars, cursor, other, frames, weights, base>>

(* callchain_append() is called; insert() passes the period 0, other       *)
(* callers a weight.                                                       *)
FillEnd(p) ==
  /\ Filled
  /\ cursor.nr > 0
  /\ Start(Read, p)
  /\ phase' = "append"
  /\ LoopOver
  /\ UNCHANGED <<cursor, other, frames, weights, base>>

(* Mutant: insert() waits for an append that failed.                       *)
AppendStepStuck ==
  /\ phase = "append"
  /\ Step
  /\ phase' = IF pc' = "idle" /\ failures' = failures THEN "idle" ELSE "append"
  /\ weights' = IF appends' = appends THEN weights
                ELSE [weights EXCEPT ![chain] = @ + period]
  /\ UNCHANGED <<cursor, other, input, i, frames, missed, base>>

(* callchain_append() runs to its end, or fails; insert() ignores which.   *)
AppendStep ==
  /\ phase = "append"
  /\ Step
  /\ phase' = IF pc' = "idle" THEN "idle" ELSE "append"
  /\ weights' = IF appends' = appends THEN weights
                ELSE [weights EXCEPT ![chain] = @ + period]
  /\ UNCHANGED <<cursor, other, input, i, frames, missed, base>>

(* The driver goes on with a record of the other tree.                     *)
Switch ==
  /\ phase = "idle"
  /\ nodes' = other.nodes
  /\ max_depth' = other.max_depth
  /\ appends' = other.appends
  /\ weights' = other.weights
  /\ other' = [nodes |-> nodes, max_depth |-> max_depth, appends |-> appends,
               weights |-> weights]
  /\ UNCHANGED <<pc, chain, pos, period, stack, failures, cursor, phase, input,
                 i, frames, missed, base>>

-----------------------------------------------------------------------------
(* callchain_merge() of the other tree into this one.                      *)

Top == Last(frames)
Src == other.nodes[Top.node]

(* The local variables of merge_chain_branch(), and the path of the branch *)
(* as a history.                                                           *)
Frame(n, c, path) ==
  [node |-> n, old_pos |-> c.nr, old_last |-> c.last, tried |-> FALSE,
   path |-> path]

(* callchain_merge(), with the cursor of the thread, which its caller      *)
(* resets, or a new one.                                                   *)
Merge ==
  /\ phase = "idle"
  /\ phase' = "merge"
  /\ cursor' \in {CursorReset, NoCursor}
  /\ frames' = <<Frame(Root, cursor', <<>>)>>
  /\ base' = appends
  /\ UNCHANGED <<vars, other, input, i, missed, weights>>

Merging == phase = "merge" /\ pc = "idle"

(* An entry of the branch moves to the cursor, or is lost.                 *)
MergeEntry ==
  /\ Merging
  /\ Src.val # <<>>
  /\ CursorAppend(Src.val[1]) \/ CursorAppendFails
  /\ other' = [other EXCEPT !.nodes[Top.node].val = Tail(@)]
  /\ UNCHANGED <<nodes, max_depth, pc, chain, pos, period, stack, appends,
                 phase, input, i, frames, missed, weights, base>>

(* A branch failed: merge_chain_branch() returns its error to the call     *)
(* above, which stops, restores the cursor and returns it too.  What the   *)
(* branches on the way still held is not freed and not merged.             *)
(* The outermost call is never the one that fails: the root has no weight. *)
Abandon ==
  /\ phase' = "merged"
  /\ cursor' = [cursor EXCEPT !.nr = frames[1].old_pos, !.last = frames[1].old_last]
  /\ frames' = <<>>
  /\ other' = [other EXCEPT !.nodes =
       LET lost == {frames[f].node : f \in 2 .. Len(frames)}
       IN  [n \in DOMAIN @ \ lost |-> @[n]]]
  /\ UNCHANGED <<input, i, missed, weights, base>>

(* Mutant: every branch is appended, whatever its weight.                  *)
MergeAppendAll ==
  /\ Merging
  /\ Src.val = <<>> /\ Src.hit + Src.count # 0 /\ ~ Top.tried
  /\ Read # <<>>
  /\ pc' = "down"
  /\ chain' = Read
  /\ pos' = 0
  /\ period' = Src.hit
  /\ stack' = <<Root>>
  /\ frames' = [frames EXCEPT ![Len(frames)].tried = TRUE]
  /\ UNCHANGED <<nodes, max_depth, appends, failures, cursor, other, phase,
                 input, i, missed, weights, base>>

(* A branch that has a weight is appended, with one sighting.              *)
MergeAppend ==
  /\ Merging
  /\ Src.val = <<>> /\ Src.hit # 0 /\ ~ Top.tried
  /\ Read # <<>>
  /\ pc' = "down"
  /\ chain' = Read
  /\ pos' = 0
  /\ period' = Src.hit
  /\ stack' = <<Root>>
  /\ frames' = [frames EXCEPT ![Len(frames)].tried = TRUE]
  /\ UNCHANGED <<nodes, max_depth, appends, failures, cursor, other, phase,
                 input, i, missed, weights, base>>

(* append_chain_children() fails on an empty cursor: all entries were lost *)
(* on the way.                                                             *)
MergeAppendNothing ==
  /\ Merging
  /\ Src.val = <<>> /\ Src.hit # 0 /\ ~ Top.tried
  /\ Read = <<>>
  /\ Abandon
  /\ UNCHANGED vars

(* append_chain_children() runs, and fails when an allocation does.        *)
MergeStep ==
  /\ phase = "merge"
  /\ AddChild \/ AppendChain \/ Unwind
  /\ IF pc' = "idle" THEN Abandon ELSE UNCHANGED backend

(* append_chain_children() has returned.  Unlike callchain_append(),       *)
(* merging leaves max_depth alone.                                         *)
MergeAppended ==
  /\ phase = "merge"
  /\ pc = "up" /\ stack = <<>>
  /\ pc' = "idle"
  /\ chain' = <<>> /\ pos' = 0 /\ period' = 0
  /\ UNCHANGED <<nodes, max_depth, stack, appends, failures, backend>>

Appended == Merging /\ Src.val = <<>> /\ (Src.hit = 0 \/ Top.tried)

(* What is left in the children of the branch; the child that is being     *)
(* merged is erased before merge_chain_branch() is called for it.          *)
SrcChildren == {c \in DOMAIN other.nodes \ {Root} : other.nodes[c].parent = Top.node}

(* rb_next() before rb_erase(): the children in order, which is the one    *)
(* with the greatest entry first.                                          *)
MergeChild ==
  /\ Appended
  /\ \E c \in SrcChildren :
       /\ \A d \in SrcChildren : other.nodes[c].val[1] >= other.nodes[d].val[1]
       /\ frames' = Append(frames, Frame(c, cursor, Top.path \o other.nodes[c].val))
  /\ UNCHANGED <<vars, cursor, other, phase, input, i, missed, weights, base>>

(* Mutant: the entries of the branch stay in the cursor.                   *)
MergeReturnUnwound ==
  /\ Appended
  /\ SrcChildren = {}
  /\ frames' = Front(frames)
  /\ other' = [other EXCEPT !.nodes =
       [n \in DOMAIN @ \ ({Top.node} \ {Root}) |-> @[n]]]
  /\ phase' = IF Len(frames) = 1 THEN "merged" ELSE "merge"
  /\ UNCHANGED <<vars, cursor, input, i, missed, weights, base>>

(* Mutant: a branch is freed before its children are merged.               *)
MergeReturnEarly ==
  /\ Appended
  /\ SrcChildren = {} \/ Len(frames) = 2
  /\ cursor' = [cursor EXCEPT !.nr = Top.old_pos, !.last = Top.old_last]
  /\ frames' = Front(frames)
  /\ other' = [other EXCEPT !.nodes =
       [n \in DOMAIN @ \ ({Top.node} \ {Root}) |-> @[n]]]
  /\ phase' = IF Len(frames) = 1 THEN "merged" ELSE "merge"
  /\ UNCHANGED <<vars, input, i, missed, weights, base>>

(* The branch is done: the cursor goes back to the entries of the call     *)
(* above, which frees the node.                                            *)
MergeReturn ==
  /\ Appended
  /\ SrcChildren = {}
  /\ cursor' = [cursor EXCEPT !.nr = Top.old_pos, !.last = Top.old_last]
  /\ frames' = Front(frames)
  /\ other' = [other EXCEPT !.nodes =
       [n \in DOMAIN @ \ ({Top.node} \ {Root}) |-> @[n]]]
  /\ phase' = IF Len(frames) = 1 THEN "merged" ELSE "merge"
  /\ UNCHANGED <<vars, input, i, missed, weights, base>>

-----------------------------------------------------------------------------

Running ==
  \/ FillEntry \/ FillNothing \/ (\E p \in Periods : FillEnd(p)) \/ AppendStep
  \/ MergeEntry \/ MergeAppend \/ MergeAppendNothing \/ MergeStep
  \/ MergeAppended \/ MergeChild \/ MergeReturn

BackendNext ==
  (\E stack_ \in Inputs : Insert(stack_)) \/ Switch \/ Merge \/ Running

(* The program is sequential: it never stops inside insert() or            *)
(* callchain_merge().                                                      *)
BackendSpec == BackendInit /\ [][BackendNext]_allvars /\ WF_allvars(Running)

-----------------------------------------------------------------------------

(* Type correctness: last points behind the nr entries that are read, all  *)
(* of them allocated, also after a merge that failed; the callchain that   *)
(* is appended is the one the cursor holds.                                *)
BackendTypeOK ==
  /\ cursor.cells \in Seq(Entries)
  /\ cursor.nr \in 0 .. Len(cursor.cells)
  /\ cursor.last = cursor.nr + 1
  /\ phase \in {"idle", "fill", "append", "merge", "merged"}
  /\ (phase = "idle" => pc = "idle") /\ (phase = "append" => pc # "idle")
  /\ pc # "idle" => chain = Read
  /\ frames # <<>> <=> phase = "merge"
  /\ i \in 0 .. MaxStackEntries + 1
  /\ missed \in SUBSET (1 .. MaxStackEntries)

(* What is left of the first entries of a callstack when some are lost.    *)
KeptOf(entries, lost) ==
  LET kept[j \in 0 .. MaxStackEntries] ==
        IF j = 0 THEN <<>>
        ELSE IF j \in lost THEN kept[j - 1]
        ELSE Append(kept[j - 1], entries[j])
  IN  kept

(* insert() reads nothing of an earlier, longer callstack that the nodes   *)
(* of the cursor still hold: what it appends are the entries of its own    *)
(* callstack in order, without the ones that could not be allocated.       *)
FillReadsInput ==
  phase = "fill" => Read = KeptOf(input, missed)[i - 1]

(* While a branch is merged, the cursor holds the path to it, however many *)
(* branches were merged before it: each of them puts the cursor back.      *)
MergeReadsPath ==
  phase = "merge" /\ failures = 0 => Read \o Src.val = Top.path

HitAt(s) ==
  SumFunction([n \in {n \in DOMAIN nodes : PathOf[n] = s} |-> nodes[n].hit])

(* What a merge that succeeds leaves: no branch of the other tree, and for *)
(* every callchain the weights that it had in the two trees.  Sightings    *)
(* are not added: a callchain of the other tree counts once, however often *)
(* it was seen there, and not at all when its weights are 0, as all those  *)
(* that insert() appends are.                                              *)
MergeAddsWeights ==
  phase = "merged" /\ failures = 0 =>
    /\ DOMAIN other.nodes = {Root}
    /\ \A s \in Chains :
         /\ HitAt(s) = weights[s] + other.weights[s]
         /\ CountAt(s) = base[s] + (IF other.weights[s] = 0 THEN 0 ELSE 1)

(* Every insert() and every merge comes to an end.                         *)
CallsEnd == (phase \in {"fill", "append", "merge"}) ~> (phase \in {"idle", "merged"})
=============================================================================
