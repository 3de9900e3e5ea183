----------------------------- MODULE HashTable -----------------------------
(***************************************************************************)
(* The hash table of one callstack_tree: hash_insert() and hash_lookup()   *)
(* of lib/hashtable/hashtable.c.                                           *)
(*                                                                         *)
(* The first callstacks live in NumInternal buckets inside the table; when *)
(* they are exhausted every key moves to buckets found by its hash.  A     *)
(* bucket does not hold a callstack but the address of the struct stream   *)
(* that was passed to hash_insert(): what it is compared with is whatever  *)
(* that stream holds by then (mem).  The tests keep a stream per callstack *)
(* alive; the backend passes the variable s of its insert(), which main()  *)
(* calls from one place, so that s has the same address in every call.     *)
(***************************************************************************)
EXTENDS Naturals, SequencesExt, Functions

CONSTANTS
  Stacks,       \* the callstacks: sequences of entries
  StreamAt,     \* the address of the stream that is passed for a callstack
  Hash,         \* the low 16 bits of jhash() of a callstack
  NumInternal,  \* NUM_INTERNAL (3)
  MaxInserts    \* bound on the number of insertions, for TLC only

ASSUME TableAssumption ==
  /\ \A s \in Stacks : s \in Seq(Range(s))
  /\ DOMAIN StreamAt = Stacks
  /\ Hash \in [Stacks -> Nat]
  /\ NumInternal \in Nat \ {0}
  /\ MaxInserts \in Nat

VARIABLES
  mem,          \* the streams: a function from addresses to callstacks
  bucket,       \* the used internal buckets, _bucket[0 .. num_internal - 1]
  map,          \* the allocated buckets: a function from hashes to buckets
  num_internal,
  unique,
  hits,
  aborted,      \* whether an assert() failed
  inserts       \* history: how often each callstack was inserted

vars == <<mem, bucket, map, num_internal, unique, hits, aborted, inserts>>

(* alloc_table().                                                          *)
Init ==
  /\ mem = [a \in {} |-> <<>>]
  /\ bucket = <<>>
  /\ map = [h \in {} |-> [key |-> 0, count |-> 0]]
  /\ num_internal = 0
  /\ unique = 0
  /\ hits = 0
  /\ aborted = FALSE
  /\ inserts = [s \in Stacks |-> 0]

HashOf(s) == Hash[s]

(* The streams while s is inserted.                                        *)
Memory(s) == [a \in DOMAIN mem \cup {StreamAt[s]} |->
                IF a = StreamAt[s] THEN s ELSE mem[a]]

(* The internal buckets whose stream holds s, in the memory m.             *)
Matching(s, m) == {i \in 1 .. Len(bucket) : m[bucket[i].key] = s}

(* Mutant: the assertion compares the common length of the two only.       *)
HashInsertCommon(t, a, m) ==
  LET h == HashOf(m[a])
  IN  IF h \notin DOMAIN t.map
      THEN [t EXCEPT !.map = [g \in DOMAIN @ \cup {h} |->
                                IF g = h THEN [key |-> a, count |-> 1] ELSE @[g]],
                     !.unique = @ + 1]
      ELSE IF \/ IsPrefix(m[a], m[t.map[h].key])
              \/ IsPrefix(m[t.map[h].key], m[a])
      THEN [t EXCEPT !.map[h].count = @ + 1, !.hits = @ + 1]
      ELSE [t EXCEPT !.ok = FALSE]

(* Mutant: the assertion lacks the negation of memcmp().                   *)
HashInsertUnlike(t, a, m) ==
  LET h == HashOf(m[a])
  IN  IF h \notin DOMAIN t.map
      THEN [t EXCEPT !.map = [g \in DOMAIN @ \cup {h} |->
                                IF g = h THEN [key |-> a, count |-> 1] ELSE @[g]],
                     !.unique = @ + 1]
      ELSE IF ~ IsPrefix(m[a], m[t.map[h].key])
      THEN [t EXCEPT !.map[h].count = @ + 1, !.hits = @ + 1]
      ELSE [t EXCEPT !.ok = FALSE]

(* __hash_insert() of the stream at address a into the part t of the       *)
(* table.  The assertion compares as many bytes as the stream has: it      *)
(* holds when the key of the bucket starts with the callstack, and fails   *)
(* when the key is shorter (the zeroed entry that ends it is compared).    *)
HashInsert(t, a, m) ==
  LET h == HashOf(m[a])
  IN  IF h \notin DOMAIN t.map
      THEN [t EXCEPT !.map = [g \in DOMAIN @ \cup {h} |->
                                IF g = h THEN [key |-> a, count |-> 1] ELSE @[g]],
                     !.unique = @ + 1]
      ELSE IF IsPrefix(m[a], m[t.map[h].key])
      THEN [t EXCEPT !.map[h].count = @ + 1, !.hits = @ + 1]
      ELSE [t EXCEPT !.ok = FALSE]

(* __hash_insert() of several streams, one after the other.                *)
HashInsertAll(streams, m) ==
  /\ LET insert(t, a) == IF t.ok THEN HashInsert(t, a, m) ELSE t
         after == FoldLeft(insert,
                    [map |-> map, unique |-> unique, hits |-> hits, ok |-> TRUE],
                    streams)
     IN  /\ map' = after.map
         /\ unique' = after.unique
         /\ hits' = after.hits
         /\ aborted' = ~ after.ok

-----------------------------------------------------------------------------
(* hash_insert() of s, called by insert() of the backend or by a test.     *)

Called(s) ==
  /\ ~ aborted
  /\ SumFunction(inserts) < MaxInserts
  /\ mem' = Memory(s)
  /\ inserts' = [inserts EXCEPT ![s] = @ + 1]

(* s is found in an internal bucket, the first one that matches.           *)
InternalHit(s) ==
  /\ Called(s)
  /\ num_internal <= NumInternal
  /\ Matching(s, Memory(s)) # {}
  /\ LET i == CHOOSE i \in Matching(s, Memory(s)) :
                \A j \in Matching(s, Memory(s)) : i <= j
     IN  bucket' = [bucket EXCEPT ![i].count = @ + 1]
  /\ hits' = hits + 1
  /\ UNCHANGED <<map, num_internal, unique, aborted>>

(* Mutant: one bucket too many is taken.                                   *)
InternalNewLate(s) ==
  /\ Called(s)
  /\ num_internal <= NumInternal
  /\ Matching(s, Memory(s)) = {}
  /\ bucket' = Append(bucket, [key |-> StreamAt[s], count |-> 1])
  /\ num_internal' = num_internal + 1
  /\ unique' = unique + 1
  /\ UNCHANGED <<map, hits, aborted>>

(* s takes the next internal bucket.                                       *)
InternalNew(s) ==
  /\ Called(s)
  /\ num_internal < NumInternal
  /\ Matching(s, Memory(s)) = {}
  /\ bucket' = Append(bucket, [key |-> StreamAt[s], count |-> 1])
  /\ num_internal' = num_internal + 1
  /\ unique' = unique + 1
  /\ UNCHANGED <<map, hits, aborted>>

(* Mutant: the internal keys are left behind.                              *)
SpillNewOnly(s) ==
  /\ Called(s)
  /\ num_internal = NumInternal
  /\ Matching(s, Memory(s)) = {}
  /\ num_internal' = NumInternal + 1
  /\ HashInsertAll(<<StreamAt[s]>>, Memory(s))
  /\ UNCHANGED bucket

(* No internal bucket is left: every internal key is inserted once into    *)
(* the indirect buckets, then s.                                           *)
Spill(s) ==
  /\ Called(s)
  /\ num_internal = NumInternal
  /\ Matching(s, Memory(s)) = {}
  /\ num_internal' = NumInternal + 1
  /\ HashInsertAll(Append([i \in 1 .. NumInternal |-> bucket[i].key], StreamAt[s]),
                   Memory(s))
  /\ UNCHANGED bucket

(* The slow path.                                                          *)
IndirectInsert(s) ==
  /\ Called(s)
  /\ num_internal > NumInternal
  /\ HashInsertAll(<<StreamAt[s]>>, Memory(s))
  /\ UNCHANGED <<bucket, num_internal>>

Next ==
  \E s \in Stacks :
    InternalHit(s) \/ InternalNew(s) \/ Spill(s) \/ IndirectInsert(s)

Spec == Init /\ [][Next]_vars

-----------------------------------------------------------------------------

Spilled == num_internal > NumInternal

(* hash_lookup() follows the bucket of the hash of s without a look        *)
(* whether there is one.                                                   *)
BucketIsThere(s) == Spilled => HashOf(s) \in DOMAIN map

(* What hash_lookup() returns, 0 standing for -1 and for a bucket that is  *)
(* not there.                                                              *)
CountOf(s) ==
  IF ~ BucketIsThere(s) THEN 0
  ELSE IF Spilled THEN map[HashOf(s)].count
  ELSE IF Matching(s, mem) = {} THEN 0
  ELSE bucket[CHOOSE i \in Matching(s, mem) :
                \A j \in Matching(s, mem) : i <= j].count

Inserted == {s \in Stacks : inserts[s] > 0}

(* Type correctness: _bucket[] is never written past its end, and every    *)
(* bucket points to a stream.                                              *)
TypeOK ==
  /\ mem \in [DOMAIN mem -> Stacks]
  /\ bucket \in Seq([key : DOMAIN mem, count : Nat \ {0}])
  /\ Len(bucket) <= NumInternal
  /\ num_internal = IF Spilled THEN NumInternal + 1 ELSE Len(bucket)
  /\ map \in [DOMAIN map -> [key : DOMAIN mem, count : Nat \ {0}]]
  /\ unique \in Nat /\ hits \in Nat
  /\ aborted \in BOOLEAN
  /\ inserts \in [Stacks -> Nat]

(* A failed assertion of __hash_insert() means that two different          *)
(* callstacks have the same hash, also when the spill inserts keys again.  *)
AbortsByCollision ==
  aborted => \E s, t \in Inserted : s # t /\ HashOf(s) = HashOf(t)

(* A collision that the assertion lets pass is one of callstacks of which  *)
(* the later one begins the first: after the spill the key of the bucket   *)
(* that hash_lookup() follows starts with the callstack that is looked up. *)
SharedAreNested ==
  Spilled /\ ~ aborted =>
    \A s \in Inserted : BucketIsThere(s) /\ IsPrefix(s, mem[map[HashOf(s)].key])

(* The number of unique entries that hash_stats() prints is the number of  *)
(* different callstacks that were inserted.                                *)
UniqueIsUnique == unique = Cardinality(Inserted)

(* With streams of their own, the table implements counts that are         *)
(* forgotten once and that callstacks with the same hash share.            *)
Abs == INSTANCE HashCounts WITH
  count   <- [s \in Stacks |-> IF aborted THEN 0 ELSE CountOf(s)],
  spilled <- Spilled,
  failed  <- aborted
ImplementsHashCounts == Abs!Spec
=============================================================================
