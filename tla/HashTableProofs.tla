-------------------------- MODULE HashTableProofs --------------------------
(***************************************************************************)
(* Proofs about the hash table.  It is well typed whatever is inserted.    *)
(* When every callstack has a stream of its own, whatever the hashes, the  *)
(* assertion of __hash_insert() fails only for a collision, callstacks     *)
(* share a bucket only if they begin its key, hash_lookup() finds a bucket *)
(* for what was inserted, and the table implements HashCounts.             *)
(***************************************************************************)
EXTENDS HashTable, SumLemmas, SequenceTheorems

(* What the tests see to, and the backend does not.                        *)
OwnStreams == \A s, t \in Stacks : StreamAt[s] = StreamAt[t] => s = t

-----------------------------------------------------------------------------
(* The inductive invariant, while the assertion has not failed.            *)

(* Every stream that was passed still holds its callstack.                 *)
StreamsInv ==
  /\ \A a \in DOMAIN mem : \E s \in Inserted : a = StreamAt[s] /\ mem[a] = s
  /\ \A s \in Inserted : StreamAt[s] \in DOMAIN mem

Collision(U) == \E s, t \in U : s # t /\ Hash[s] = Hash[t]

(* Before the spill the internal buckets are those of the inserted stacks. *)
InternalInv ==
  ~ aborted /\ ~ Spilled =>
    /\ DOMAIN map = {}
    /\ unique = Len(bucket) /\ unique = Cardinality(Inserted)
    /\ \A i, j \in 1 .. Len(bucket) : bucket[i].key = bucket[j].key => i = j
    /\ \A s \in Inserted : \E i \in 1 .. Len(bucket) : bucket[i].key = StreamAt[s]

(* Of the callstacks U, each is in the bucket of its hash, whose key is    *)
(* one of them, and starts with it.                                        *)
Keyed(x, U) ==
  \A u \in U : /\ Hash[u] \in DOMAIN x
               /\ \E v \in U : x[Hash[u]].key = StreamAt[v] /\ IsPrefix(u, v)

(* Every bucket has a key of its own hash.                                 *)
KeysOf(x, U) ==
  \A h \in DOMAIN x : \E u \in U : x[h].key = StreamAt[u] /\ Hash[u] = h

(* The buckets of the part t of the table are those of U.                  *)
Indirect(t, U) ==
  /\ Keyed(t.map, U) /\ KeysOf(t.map, U)
  /\ IsFiniteSet(DOMAIN t.map)
  /\ t.unique = NumInternal + Cardinality(DOMAIN t.map)

(* The part of the table that __hash_insert() works on.                    *)
Table == [map |-> map, unique |-> unique, hits |-> hits, ok |-> TRUE]

(* After the spill the allocated buckets are those of the inserted stacks. *)
IndirectInv == ~ aborted /\ Spilled => Indirect(Table, Inserted)

IInv ==
  /\ TypeOK /\ StreamsInv /\ InternalInv /\ IndirectInv
  /\ IsFiniteSet(Inserted)
  /\ aborted => Spilled /\ Collision(Inserted)

-----------------------------------------------------------------------------
(* __hash_insert() of one stream.                                          *)

Insert(t, a, m) == IF t.ok THEN HashInsert(t, a, m) ELSE t

WithBucket(x, h, a) ==
  [g \in DOMAIN x \cup {h} |-> IF g = h THEN [key |-> a, count |-> 1] ELSE x[g]]

Counted(x, h) == [x EXCEPT ![h].count = @ + 1]

Buckets(D) == [key : D, count : Nat \ {0}]

(* A part of the table whose buckets point to streams in D.                *)
Well(t, D) ==
  /\ t = [map |-> t.map, unique |-> t.unique, hits |-> t.hits, ok |-> t.ok]
  /\ t.map \in [DOMAIN t.map -> Buckets(D)]
  /\ t.unique \in Nat /\ t.hits \in Nat /\ t.ok \in BOOLEAN

(* A hash that is not in use gets a bucket.                                *)
LEMMA InsertNew ==
  ASSUME NEW D, NEW t, Well(t, D), NEW a \in D, NEW m, t.ok,
         HashOf(m[a]) \notin DOMAIN t.map
  PROVE  /\ Insert(t, a, m) =
              [map |-> WithBucket(t.map, HashOf(m[a]), a),
               unique |-> t.unique + 1, hits |-> t.hits, ok |-> TRUE]
         /\ Well(Insert(t, a, m), D)
<1> DEFINE h == HashOf(m[a])
           x == t.map
           u == t.unique
           y == t.hits
           r == Insert(t, a, m)
<1>1. t = [map |-> x, unique |-> u, hits |-> y, ok |-> TRUE]
      BY DEF Well
<1>2. r = [t EXCEPT !.map = WithBucket(@, h, a), !.unique = @ + 1]
      BY DEF Insert, HashInsert, WithBucket
<1>3. x \in [DOMAIN x -> Buckets(D)] /\ u \in Nat /\ y \in Nat
      BY DEF Well
<1> HIDE DEF h, x, u, y, r
<1>4. r = [map |-> WithBucket(x, h, a), unique |-> u + 1, hits |-> y, ok |-> TRUE]
      BY <1>1, <1>2
<1>5. [key |-> a, count |-> 1] \in Buckets(D)
      BY DEF Buckets
<1>6. WithBucket(x, h, a) \in [DOMAIN WithBucket(x, h, a) -> Buckets(D)]
      BY <1>3, <1>5 DEF WithBucket
<1>7. Well(r, D)
      BY <1>3, <1>4, <1>6 DEF Well
<1> QED BY <1>4, <1>7 DEF h, x, u, y, r

(* A callstack that is found is counted.                                   *)
LEMMA InsertAgain ==
  ASSUME NEW D, NEW t, Well(t, D), NEW a \in D, NEW m, t.ok,
         HashOf(m[a]) \in DOMAIN t.map,
         IsPrefix(m[a], m[t.map[HashOf(m[a])].key])
  PROVE  /\ Insert(t, a, m) =
              [map |-> Counted(t.map, HashOf(m[a])),
               unique |-> t.unique, hits |-> t.hits + 1, ok |-> TRUE]
         /\ Well(Insert(t, a, m), D)
<1> DEFINE h == HashOf(m[a])
           x == t.map
           u == t.unique
           y == t.hits
           r == Insert(t, a, m)
<1>1. t = [map |-> x, unique |-> u, hits |-> y, ok |-> TRUE]
      BY DEF Well
<1>2. r = [t EXCEPT !.map[h].count = @ + 1, !.hits = @ + 1]
      BY DEF Insert, HashInsert
<1>3. x \in [DOMAIN x -> Buckets(D)] /\ u \in Nat /\ y \in Nat /\ h \in DOMAIN x
      BY DEF Well
<1> HIDE DEF h, x, u, y, r
<1>4. r = [map |-> Counted(x, h), unique |-> u, hits |-> y + 1, ok |-> TRUE]
      BY <1>1, <1>2 DEF Counted
<1>5. Counted(x, h) \in [DOMAIN Counted(x, h) -> Buckets(D)]
  <2>1. x[h] \in Buckets(D)
        BY <1>3
  <2>2. [x[h] EXCEPT !.count = @ + 1] \in Buckets(D)
        BY <2>1 DEF Buckets
  <2> QED BY <1>3, <2>2 DEF Counted
<1>6. Well(r, D)
      BY <1>3, <1>4, <1>5 DEF Well
<1> QED BY <1>4, <1>6 DEF h, x, u, y, r

(* Every insertion leaves a well-formed table.                             *)
LEMMA InsertWell ==
  ASSUME NEW D, NEW t, Well(t, D), NEW a \in D, NEW m
  PROVE  Well(Insert(t, a, m), D)
<1>1. CASE ~ t.ok
      BY <1>1 DEF Insert
<1>2. CASE t.ok /\ HashOf(m[a]) \notin DOMAIN t.map
      BY <1>2, InsertNew
<1>3. CASE t.ok /\ HashOf(m[a]) \in DOMAIN t.map
  <2>1. CASE IsPrefix(m[a], m[t.map[HashOf(m[a])].key])
        BY <1>3, <2>1, InsertAgain
  <2>2. CASE ~ IsPrefix(m[a], m[t.map[HashOf(m[a])].key])
    <3>1. Insert(t, a, m) = [t EXCEPT !.ok = FALSE]
          BY <1>3, <2>2 DEF Insert, HashInsert
    <3> QED BY <3>1 DEF Well
  <2> QED BY <2>1, <2>2
<1> QED BY <1>1, <1>2, <1>3

-----------------------------------------------------------------------------
(* __hash_insert() of several streams: a step for each.                    *)

IsFold(f, base, streams, m) ==
  f = [s \in SUBSET DOMAIN streams |->
         IF s = {} THEN base
         ELSE LET i == CHOOSE x \in s : \A y \in s : x >= y
              IN  Insert(f[s \ {i}], streams[i], m)]

(* g[k] is the table after the first k streams.                            *)
Steps(g, streams, m, n) ==
  \A k \in 1 .. n : g[k] = Insert(g[k - 1], streams[k], m)

Largest(s) == CHOOSE x \in s : \A y \in s : x >= y

(* A set of numbers up to n has a largest one.                             *)
LEMMA LargestIn ==
  ASSUME NEW n \in Nat, NEW s \in SUBSET (1 .. n), s # {}
  PROVE  /\ Largest(s) \in s
         /\ IsFiniteSet(s) /\ Cardinality(s) \in Nat /\ Cardinality(s) # 0
         /\ Cardinality(s \ {Largest(s)}) = Cardinality(s) - 1
<1> DEFINE Low == {n - x : x \in s}
<1>1. Low \in SUBSET Nat /\ Low # {}
  <2>1. \A x \in s : x \in 1 .. n /\ n - x \in Nat
        OBVIOUS
  <2>2. Low # {}
        OBVIOUS
  <2> QED BY <2>1, <2>2
<1>2. PICK l \in Low : \A k \in Low : l <= k
      BY <1>1, LeastNatural
<1>3. \E x \in s : \A y \in s : x >= y
  <2>1. PICK x \in s : l = n - x
        BY <1>2
  <2>2. \A y \in s : n - x <= n - y
        BY <1>2, <2>1
  <2>3. \A y \in s : x \in Nat /\ y \in Nat
        BY <2>1
  <2> HIDE DEF Low
  <2>4. \A y \in s : x >= y
        BY <2>2, <2>3
  <2> QED BY <2>1, <2>4
<1>4. Largest(s) \in s
      BY <1>3 DEF Largest
<1>5. IsFiniteSet(s)
  <2>1. IsFiniteSet(1 .. n)
        BY FS_Interval
  <2> QED BY <2>1, FS_Subset
<1>6. Cardinality(s) \in Nat /\ Cardinality(s) # 0
      BY <1>5, FS_CardinalityType, FS_EmptySet
<1> QED BY <1>4, <1>5, <1>6, FS_RemoveElement

(* The fold has a solution.                                                *)
LEMMA FoldExists ==
  ASSUME NEW base, NEW streams, NEW n \in Nat, DOMAIN streams = 1 .. n, NEW m
  PROVE  \E f : IsFold(f, base, streams, m)
<1> DEFINE S == 1 .. n
           Small(k) == {s \in SUBSET S : Cardinality(s) <= k}
           Value(f, s) == IF s = {} THEN base
                          ELSE Insert(f[s \ {Largest(s)}], streams[Largest(s)], m)
           Folds(f, k) == f = [s \in Small(k) |-> Value(f, s)]
           Good == {k \in Nat : \E f : Folds(f, k)}
<1>0. IsFiniteSet(S) /\ \A s \in SUBSET S : IsFiniteSet(s) /\ Cardinality(s) \in Nat
  <2>1. IsFiniteSet(S)
        BY FS_Interval
  <2> HIDE DEF S
  <2> QED BY <2>1, FS_Subset, FS_CardinalityType
<1>1. 0 \in Good
  <2>1. \A s \in Small(0) : s = {}
        BY <1>0, FS_EmptySet
  <2>2. Folds([s \in Small(0) |-> base], 0)
        BY <2>1
  <2> QED BY <2>2
<1>2. ASSUME NEW k \in Nat, k \in Good
      PROVE  k + 1 \in Good
  <2>1. PICK f : Folds(f, k)
        BY <1>2
  <2> DEFINE g == [s \in Small(k + 1) |-> Value(f, s)]
  <2>2. \A s \in Small(k) : s \in Small(k + 1) /\ f[s] = g[s]
    <3>1. \A s \in Small(k) : s \in Small(k + 1)
          BY <1>0
    <3>2. \A s \in Small(k) : f[s] = Value(f, s)
          BY <2>1
    <3> QED BY <3>1, <3>2
  <2>3. ASSUME NEW s \in Small(k + 1), s # {}
        PROVE  s \ {Largest(s)} \in Small(k)
    <3>1. Cardinality(s) \in Nat /\ Cardinality(s \ {Largest(s)}) = Cardinality(s) - 1
          BY <2>3, LargestIn
    <3> DEFINE c == Cardinality(s)
               d == Cardinality(s \ {Largest(s)})
    <3>2. c <= k + 1 /\ s \ {Largest(s)} \in SUBSET S
          OBVIOUS
    <3>3. d <= k
      <4> HIDE DEF c, d
      <4>1. c \in Nat /\ d = c - 1
            BY <3>1 DEF c, d
      <4> QED BY <3>2, <4>1
    <3> QED BY <3>2, <3>3
  <2>4. \A s \in Small(k + 1) : g[s] = Value(g, s)
        BY <2>2, <2>3
  <2> HIDE DEF g
  <2>5. g = [s \in Small(k + 1) |-> g[s]]
        BY DEF g
  <2>6. Folds(g, k + 1)
        BY <2>4, <2>5
  <2> HIDE DEF Folds
  <2>7. \E f_ : Folds(f_, k + 1)
        BY <2>6
  <2> QED BY <2>7
<1>3. Cardinality(S) \in Nat /\ Cardinality(S) \in Good
      BY <1>0, <1>1, <1>2, NatSetInduction
<1>4. \A s \in SUBSET S : Cardinality(s) <= Cardinality(S)
      BY <1>0, FS_Subset
<1>5. Small(Cardinality(S)) = SUBSET S
      BY <1>4
<1>6. PICK f : Folds(f, Cardinality(S))
      BY <1>3
<1>7. f = [s \in SUBSET S |-> Value(f, s)]
      BY <1>5, <1>6
<1>8. IsFold(f, base, streams, m)
      BY <1>7 DEF IsFold, Largest
<1> QED BY <1>8

(* What HashInsertAll() computes.                                          *)
LEMMA InsertSteps ==
  ASSUME NEW streams, NEW n \in Nat, streams = [i \in 1 .. n |-> streams[i]],
         NEW m, HashInsertAll(streams, m)
  PROVE  \E g : /\ g[0] = Table
                /\ Steps(g, streams, m, n)
                /\ map' = g[n].map /\ unique' = g[n].unique /\ hits' = g[n].hits
                /\ aborted' = ~ g[n].ok
<1> DEFINE f == CHOOSE f : IsFold(f, Table, streams, m)
           g == [k \in 0 .. n |-> f[1 .. k]]
<1>0. DOMAIN streams = 1 .. n
      OBVIOUS
<1>1. IsFold(f, Table, streams, m)
      BY <1>0, FoldExists
<1>2. LET insert(t, a) == IF t.ok THEN HashInsert(t, a, m) ELSE t
      IN  FoldLeft(insert, Table, streams) = f[DOMAIN streams]
      BY DEF FoldLeft, MapThenFoldSet, IsFold, Insert, Max
<1>3. /\ map' = f[1 .. n].map /\ unique' = f[1 .. n].unique
      /\ hits' = f[1 .. n].hits /\ aborted' = ~ f[1 .. n].ok
      BY <1>0, <1>2 DEF HashInsertAll, Table
<1> HIDE DEF f
<1>4. \A s \in SUBSET (1 .. n) :
        f[s] = IF s = {} THEN Table
               ELSE Insert(f[s \ {Largest(s)}], streams[Largest(s)], m)
      BY <1>0, <1>1 DEF IsFold, Largest
<1>5. g[0] = Table
  <2>1. f[{}] = Table
        BY <1>4
  <2> QED BY <2>1, 1 .. 0 = {}
<1>6. ASSUME NEW k \in 1 .. n
      PROVE  g[k] = Insert(g[k - 1], streams[k], m)
  <2>1. 1 .. k \in SUBSET (1 .. n) /\ k \in 1 .. k
        OBVIOUS
  <2>2. Largest(1 .. k) \in 1 .. k /\ \A y \in 1 .. k : Largest(1 .. k) >= y
    <3>1. \A y \in 1 .. k : k >= y
          OBVIOUS
    <3> QED BY <2>1, <3>1 DEF Largest
  <2>3. Largest(1 .. k) = k
        BY <2>1, <2>2
  <2>4. (1 .. k) \ {k} = 1 .. k - 1
        OBVIOUS
  <2>5. f[1 .. k] = Insert(f[1 .. k - 1], streams[k], m)
        BY <1>4, <2>1, <2>3, <2>4
  <2>6. g[k] = f[1 .. k] /\ g[k - 1] = f[1 .. k - 1]
        OBVIOUS
  <2> QED BY <2>5, <2>6
<1>7. g[n] = f[1 .. n]
      OBVIOUS
<1>8. Steps(g, streams, m, n)
      BY <1>6 DEF Steps
<1> HIDE DEF g
<1> QED BY <1>3, <1>5, <1>7, <1>8

-----------------------------------------------------------------------------
(* Type correctness.                                                       *)

(* What hash_insert() does to the streams and the history.                 *)
LEMMA CalledTyped ==
  ASSUME TypeOK, NEW s \in Stacks, Called(s)
  PROVE  /\ mem' = Memory(s)
         /\ DOMAIN mem' = DOMAIN mem \cup {StreamAt[s]}
         /\ mem' \in [DOMAIN mem' -> Stacks]
         /\ inserts' \in [Stacks -> Nat]
         /\ \A t \in Stacks \ {s} : inserts'[t] = inserts[t]
         /\ inserts'[s] = inserts[s] + 1
<1>1. mem' = Memory(s) /\ inserts' = [inserts EXCEPT ![s] = @ + 1]
      BY DEF Called
<1>2. /\ DOMAIN mem' = DOMAIN mem \cup {StreamAt[s]}
      /\ mem' \in [DOMAIN mem' -> Stacks]
      BY <1>1 DEF Memory, TypeOK
<1>3. inserts \in [Stacks -> Nat]
      BY DEF TypeOK
<1>4. /\ inserts' \in [Stacks -> Nat]
      /\ \A t \in Stacks \ {s} : inserts'[t] = inserts[t]
      /\ inserts'[s] = inserts[s] + 1
      BY <1>1, <1>3
<1> QED BY <1>1, <1>2, <1>4

(* The table is well formed, also where the streams of the next one are.   *)
LEMMA TableWell ==
  ASSUME TypeOK, NEW D, DOMAIN mem \subseteq D
  PROVE  Well(Table, D)
<1>1. /\ map \in [DOMAIN map -> Buckets(DOMAIN mem)]
      /\ unique \in Nat /\ hits \in Nat
      BY DEF TypeOK, Buckets
<1>2. Buckets(DOMAIN mem) \subseteq Buckets(D)
      BY DEF Buckets
<1> QED BY <1>1, <1>2 DEF Table, Well

(* The indirect buckets are well formed after any number of insertions.    *)
LEMMA InsertsTyped ==
  ASSUME TypeOK, NEW s \in Stacks, Called(s),
         NEW n \in Nat, NEW streams, streams = [i \in 1 .. n |-> streams[i]],
         \A i \in 1 .. n : streams[i] \in DOMAIN mem',
         HashInsertAll(streams, Memory(s))
  PROVE  /\ map' \in [DOMAIN map' -> Buckets(DOMAIN mem')]
         /\ unique' \in Nat /\ hits' \in Nat /\ aborted' \in BOOLEAN
<1> DEFINE D == DOMAIN mem'
           m == Memory(s)
<1>1. PICK g :
        /\ g[0] = Table
        /\ Steps(g, streams, m, n)
        /\ map' = g[n].map /\ unique' = g[n].unique /\ hits' = g[n].hits
        /\ aborted' = ~ g[n].ok
      BY InsertSteps
<1>2. DOMAIN mem \subseteq D
      BY CalledTyped
<1> HIDE DEF D, m
<1> DEFINE Good == {k \in Nat : k <= n => Well(g[k], D)}
<1>3. 0 \in Good
      BY <1>1, <1>2, TableWell
<1>4. ASSUME NEW k \in Nat, k \in Good
      PROVE  k + 1 \in Good
  <2> SUFFICES ASSUME k + 1 <= n PROVE Well(g[k + 1], D)
      OBVIOUS
  <2>1. Well(g[k], D) /\ k + 1 \in 1 .. n /\ (k + 1) - 1 = k
        BY <1>4
  <2>2. g[k + 1] = Insert(g[k], streams[k + 1], m)
        BY <1>1, <2>1 DEF Steps
  <2>3. streams[k + 1] \in D
        BY <2>1 DEF D
  <2> QED BY <2>1, <2>2, <2>3, InsertWell
<1>5. n \in Good
      BY <1>3, <1>4, NatSetInduction
<1>6. Well(g[n], D)
      BY <1>5
<1> QED BY <1>1, <1>6 DEF Well, D

(* A function from 1 .. n is a sequence, and appending adds one place.     *)
LEMMA AppendedKeys ==
  ASSUME NEW n \in Nat, NEW keys, keys = [i \in 1 .. n |-> keys[i]],
         NEW a, NEW streams, streams = Append(keys, a)
  PROVE  /\ streams = [i \in 1 .. n + 1 |-> streams[i]]
         /\ \A i \in 1 .. n : streams[i] = keys[i]
         /\ streams[n + 1] = a
<1> DEFINE fs == keys
           S == {keys[i] : i \in 1 .. n} \cup {a}
<1>1. fs \in Seq(S) /\ Len(fs) = n
  <2>1. fs \in [1 .. n -> S]
        OBVIOUS
  <2>2. fs \in Seq(S)
        BY <2>1, SeqDef
  <2> HIDE DEF S
  <2>3. Len(fs) = n
        BY <2>2, LenProperties
  <2> QED BY <2>2, <2>3
<1>2. a \in S
      OBVIOUS
<1> HIDE DEF fs, S
<1>4. /\ Append(fs, a) \in Seq(S)
      /\ Len(Append(fs, a)) = n + 1
      /\ \A i \in 1 .. n : Append(fs, a)[i] = fs[i]
      /\ Append(fs, a)[n + 1] = a
      BY <1>1, <1>2, AppendProperties
<1>5. DOMAIN Append(fs, a) = 1 .. n + 1
      BY <1>4, LenProperties
<1>6. streams = Append(fs, a)
      BY DEF fs
<1> QED BY <1>4, <1>5, <1>6 DEF fs

(* An interval determines its end.                                         *)
LEMMA SameEnd ==
  ASSUME NEW l \in Nat, NEW n \in Nat, 1 .. l = 1 .. n
  PROVE  l = n
<1>1. Cardinality(1 .. l) = IF 1 > l THEN 0 ELSE l - 1 + 1
      BY FS_Interval
<1>2. Cardinality(1 .. n) = IF 1 > n THEN 0 ELSE n - 1 + 1
      BY FS_Interval
<1> QED BY <1>1, <1>2

(* Counting in one bucket keeps the others, and their number.              *)
LEMMA CountedBuckets ==
  ASSUME NEW D, NEW b \in Seq(Buckets(D)), NEW i,
         NEW b2, b2 = Counted(b, i)
  PROVE  /\ b2 \in Seq(Buckets(D)) /\ Len(b2) = Len(b)
         /\ \A j \in 1 .. Len(b) : /\ b2[j].key = b[j].key
                                   /\ j # i => b2[j] = b[j]
                                   /\ j = i => b2[j].count = b[j].count + 1
<1> DEFINE n == Len(b)
<1>1. n \in Nat /\ DOMAIN b = 1 .. n /\ \A j \in 1 .. n : b[j] \in Buckets(D)
      BY ElementOfSeq, LenProperties
<1>2. \A x \in Buckets(D) :
        /\ [x EXCEPT !.count = @ + 1] \in Buckets(D)
        /\ [x EXCEPT !.count = @ + 1].key = x.key
        /\ [x EXCEPT !.count = @ + 1].count = x.count + 1
      BY DEF Buckets
<1>3. b2 = [j \in 1 .. n |->
              IF j = i THEN [b[j] EXCEPT !.count = @ + 1] ELSE b[j]]
      BY <1>1 DEF Counted
<1>4. \A j \in 1 .. n : /\ b2[j] \in Buckets(D)
                        /\ b2[j].key = b[j].key
                        /\ j # i => b2[j] = b[j]
                        /\ j = i => b2[j].count = b[j].count + 1
      BY <1>1, <1>2, <1>3
<1>5. b2 \in Seq(Buckets(D)) /\ Len(b2) = n
  <2>1. b2 \in [1 .. n -> Buckets(D)]
        BY <1>3, <1>4
  <2>2. b2 \in Seq(Buckets(D))
        BY <1>1, <2>1, SeqDef
  <2>3. Len(b2) \in Nat /\ DOMAIN b2 = 1 .. Len(b2)
        BY <2>2, LenProperties
  <2>4. 1 .. Len(b2) = 1 .. n
        BY <1>3, <2>3
  <2>5. n \in Nat
        BY <1>1
  <2> HIDE DEF n
  <2>6. Len(b2) = n
        BY <2>3, <2>4, <2>5, SameEnd
  <2> QED BY <2>2, <2>6
<1> QED BY <1>4, <1>5

(* hash_insert() of s keeps the table well formed.                         *)
LEMMA InsertStepTyped ==
  ASSUME TypeOK, NEW s \in Stacks,
         InternalHit(s) \/ InternalNew(s) \/ Spill(s) \/ IndirectInsert(s)
  PROVE  TypeOK'
<1> DEFINE D == DOMAIN mem'
<1>1. Called(s)
      BY DEF InternalHit, InternalNew, Spill, IndirectInsert
<1>2. /\ D = DOMAIN mem \cup {StreamAt[s]}
      /\ mem' \in [D -> Stacks] /\ inserts' \in [Stacks -> Nat]
      BY <1>1, CalledTyped
<1>3. /\ bucket \in Seq(Buckets(DOMAIN mem)) /\ Len(bucket) \in Nat
      /\ Len(bucket) <= NumInternal /\ NumInternal \in Nat \ {0}
      /\ num_internal = IF Spilled THEN NumInternal + 1 ELSE Len(bucket)
      /\ map \in [DOMAIN map -> Buckets(DOMAIN mem)]
      /\ unique \in Nat /\ hits \in Nat /\ aborted \in BOOLEAN
      BY TableAssumption, LenProperties DEF TypeOK, Buckets
<1>4. Buckets(DOMAIN mem) \subseteq Buckets(D)
      BY <1>2 DEF Buckets
<1>5. /\ bucket \in Seq(Buckets(D))
      /\ map \in [DOMAIN map -> Buckets(D)]
  <2>1. \A S, T : S \subseteq T => Seq(S) \subseteq Seq(T)
        OBVIOUS
  <2> HIDE DEF D
  <2> QED BY <1>3, <1>4, <2>1
<1> HIDE DEF D
<1>t. ASSUME bucket' \in Seq(Buckets(D)), Len(bucket') <= NumInternal,
             num_internal' = IF num_internal' > NumInternal THEN NumInternal + 1
                             ELSE Len(bucket'),
             map' \in [DOMAIN map' -> Buckets(D)],
             unique' \in Nat, hits' \in Nat, aborted' \in BOOLEAN
      PROVE  TypeOK'
      BY <1>t, <1>2 DEF TypeOK, Buckets, Spilled, D
<1>6. CASE InternalHit(s)
  <2> DEFINE i == CHOOSE i \in Matching(s, Memory(s)) :
                    \A j \in Matching(s, Memory(s)) : i <= j
  <2>1. /\ bucket' = [bucket EXCEPT ![i].count = @ + 1]
        /\ hits' = hits + 1 /\ map' = map /\ num_internal' = num_internal
        /\ unique' = unique /\ aborted' = aborted
        BY <1>6 DEF InternalHit
  <2> HIDE DEF i
  <2>2. /\ bucket' \in Seq(Buckets(D)) /\ Len(bucket') = Len(bucket)
    <3>1. bucket \in Seq(Buckets(D)) /\ bucket' = Counted(bucket, i)
          BY <1>5, <2>1 DEF Counted
    <3> QED BY <3>1, CountedBuckets
  <2>3. num_internal' = IF num_internal' > NumInternal THEN NumInternal + 1
                        ELSE Len(bucket')
        BY <1>3, <2>1, <2>2 DEF Spilled
  <2>4. /\ Len(bucket') <= NumInternal /\ hits' \in Nat /\ unique' \in Nat
        /\ aborted' \in BOOLEAN
        BY <1>3, <2>1, <2>2
  <2>5. map' \in [DOMAIN map' -> Buckets(D)]
        BY <1>5, <2>1
  <2> QED BY <1>t, <2>2, <2>3, <2>4, <2>5
<1>7. CASE InternalNew(s)
  <2>1. /\ bucket' = Append(bucket, [key |-> StreamAt[s], count |-> 1])
        /\ num_internal < NumInternal
        /\ num_internal' = num_internal + 1 /\ unique' = unique + 1
        /\ hits' = hits /\ map' = map /\ aborted' = aborted
        BY <1>7 DEF InternalNew
  <2>2. [key |-> StreamAt[s], count |-> 1] \in Buckets(D)
        BY <1>2 DEF Buckets
  <2>3. bucket' \in Seq(Buckets(D)) /\ Len(bucket') = Len(bucket) + 1
        BY <1>5, <2>1, <2>2, AppendProperties
  <2>4. num_internal = Len(bucket) /\ ~ (num_internal' > NumInternal)
        BY <1>3, <2>1 DEF Spilled
  <2>5. /\ num_internal' = IF num_internal' > NumInternal THEN NumInternal + 1
                           ELSE Len(bucket')
        /\ Len(bucket') <= NumInternal
        BY <1>3, <2>1, <2>3, <2>4 DEF Spilled
  <2>6. unique' \in Nat /\ hits' \in Nat /\ aborted' \in BOOLEAN
        BY <1>3, <2>1
  <2>7. map' \in [DOMAIN map' -> Buckets(D)]
        BY <1>5, <2>1
  <2> QED BY <1>t, <2>3, <2>5, <2>6, <2>7
<1>8. CASE Spill(s)
  <2> DEFINE keys == [i \in 1 .. NumInternal |-> bucket[i].key]
             streams == Append(keys, StreamAt[s])
  <2>1. /\ num_internal = NumInternal /\ num_internal' = NumInternal + 1
        /\ HashInsertAll(streams, Memory(s)) /\ bucket' = bucket
        BY <1>8 DEF Spill
  <2>2. Len(bucket) = NumInternal
        BY <1>3, <2>1 DEF Spilled
  <2>3. \A i \in 1 .. NumInternal : keys[i] \in DOMAIN mem
    <3>1. \A i \in 1 .. NumInternal : bucket[i] \in Buckets(DOMAIN mem)
          BY <1>3, <2>2, ElementOfSeq
    <3> QED BY <3>1 DEF Buckets
  <2> HIDE DEF keys
  <2>4. keys = [i \in 1 .. NumInternal |-> keys[i]]
        BY DEF keys
  <2>5. /\ streams = [i \in 1 .. NumInternal + 1 |-> streams[i]]
        /\ \A i \in 1 .. NumInternal : streams[i] = keys[i]
        /\ streams[NumInternal + 1] = StreamAt[s]
        BY <1>3, <2>4, AppendedKeys
  <2> HIDE DEF streams
  <2>6. \A i \in 1 .. NumInternal + 1 : streams[i] \in DOMAIN mem'
    <3>1. \A i \in 1 .. NumInternal + 1 : i \in 1 .. NumInternal \/ i = NumInternal + 1
          BY <1>3
    <3>2. DOMAIN mem \subseteq DOMAIN mem' /\ StreamAt[s] \in DOMAIN mem'
          BY <1>2 DEF D
    <3> QED BY <2>3, <2>5, <3>1, <3>2
  <2>7. /\ map' \in [DOMAIN map' -> Buckets(D)]
        /\ unique' \in Nat /\ hits' \in Nat /\ aborted' \in BOOLEAN
        BY <1>1, <1>3, <2>1, <2>5, <2>6, InsertsTyped DEF D
  <2>8. /\ num_internal' = IF num_internal' > NumInternal THEN NumInternal + 1
                           ELSE Len(bucket')
        /\ Len(bucket') <= NumInternal
        BY <1>3, <2>1
  <2> QED BY <1>t, <1>5, <2>1, <2>7, <2>8
<1>9. CASE IndirectInsert(s)
  <2> DEFINE streams == <<StreamAt[s]>>
  <2>1. /\ num_internal > NumInternal /\ num_internal' = num_internal
        /\ HashInsertAll(streams, Memory(s)) /\ bucket' = bucket
        BY <1>9 DEF IndirectInsert
  <2>2. streams = [i \in 1 .. 1 |-> streams[i]]
        OBVIOUS
  <2>3. \A i \in 1 .. 1 : streams[i] \in DOMAIN mem'
        BY <1>2 DEF D
  <2> HIDE DEF streams
  <2>4. /\ map' \in [DOMAIN map' -> Buckets(D)]
        /\ unique' \in Nat /\ hits' \in Nat /\ aborted' \in BOOLEAN
        BY <1>1, <2>1, <2>2, <2>3, InsertsTyped DEF D
  <2>5. /\ num_internal' = IF num_internal' > NumInternal THEN NumInternal + 1
                           ELSE Len(bucket')
        /\ Len(bucket') <= NumInternal
        BY <1>3, <2>1 DEF Spilled
  <2> QED BY <1>t, <1>5, <2>1, <2>4, <2>5
<1> QED BY <1>6, <1>7, <1>8, <1>9

(* alloc_table() returns a well-formed table.                              *)
LEMMA InitTyped ==
  ASSUME Init
  PROVE  TypeOK
<1>1. /\ DOMAIN mem = {} /\ bucket = <<>> /\ DOMAIN map = {}
      /\ num_internal = 0 /\ unique = 0 /\ hits = 0 /\ aborted = FALSE
      /\ mem = [a \in DOMAIN mem |-> mem[a]]
      /\ map = [h \in DOMAIN map |-> map[h]]
      /\ inserts \in [Stacks -> Nat]
      BY DEF Init
<1>2. bucket \in Seq([key : DOMAIN mem, count : Nat \ {0}]) /\ Len(bucket) = 0
      BY <1>1, EmptySeq
<1>3. /\ mem \in [DOMAIN mem -> Stacks]
      /\ map \in [DOMAIN map -> [key : DOMAIN mem, count : Nat \ {0}]]
      BY <1>1
<1>4. /\ num_internal = IF Spilled THEN NumInternal + 1 ELSE Len(bucket)
      /\ Len(bucket) <= NumInternal
      BY <1>1, <1>2, TableAssumption DEF Spilled
<1>5. unique \in Nat /\ hits \in Nat /\ aborted \in BOOLEAN
      BY <1>1
<1> QED BY <1>1, <1>2, <1>3, <1>4, <1>5 DEF TypeOK

(* alloc_table() returns a well-formed table, and hash_insert() keeps it   *)
(* one: no internal bucket behind the last is written, and every bucket    *)
(* points to a stream that was passed, whatever the streams and hashes.    *)
THEOREM TypeCorrect == Spec => []TypeOK
<1>1. ASSUME Init PROVE TypeOK
      BY <1>1, InitTyped
<1>2. ASSUME TypeOK, [Next]_vars PROVE TypeOK'
  <2>1. CASE Next
        BY <1>2, <2>1, InsertStepTyped DEF Next
  <2>2. CASE UNCHANGED vars
        BY <1>2, <2>2 DEF vars, TypeOK, Spilled
  <2> QED BY <1>2, <2>1, <2>2
<1> QED BY <1>1, <1>2, PTL DEF Spec

-----------------------------------------------------------------------------
(* The streams, while every callstack has its own.                         *)

(* The streams hold what they were passed for, before and after the call.  *)
LEMMA StreamsHold ==
  ASSUME OwnStreams, TypeOK, StreamsInv, NEW s \in Stacks
  PROVE  /\ \A t \in Inserted : mem[StreamAt[t]] = t
         /\ \A t \in Inserted \cup {s} : Memory(s)[StreamAt[t]] = t
         /\ s \in Inserted => Memory(s) = mem
<1>0. Inserted \subseteq Stacks
      BY DEF Inserted
<1>1. \A t \in Inserted : mem[StreamAt[t]] = t
  <2>1. TAKE t \in Inserted
  <2>2. PICK u \in Inserted : StreamAt[t] = StreamAt[u] /\ mem[StreamAt[t]] = u
        BY DEF StreamsInv
  <2> QED BY <1>0, <2>2 DEF OwnStreams
<1>2. \A t \in Inserted \cup {s} : Memory(s)[StreamAt[t]] = t
  <2>1. TAKE t \in Inserted \cup {s}
  <2>2. CASE StreamAt[t] = StreamAt[s]
    <3>1. t = s
          BY <1>0, <2>2 DEF OwnStreams
    <3> QED BY <3>1 DEF Memory
  <2>3. CASE StreamAt[t] # StreamAt[s]
    <3>1. t \in Inserted /\ StreamAt[t] \in DOMAIN mem
          BY <2>3 DEF StreamsInv
    <3> QED BY <1>1, <2>3, <3>1 DEF Memory
  <2> QED BY <2>2, <2>3
<1>3. ASSUME s \in Inserted PROVE Memory(s) = mem
  <2>1. StreamAt[s] \in DOMAIN mem
        BY <1>3 DEF StreamsInv
  <2>2. DOMAIN mem \cup {StreamAt[s]} = DOMAIN mem
        BY <2>1
  <2>3. mem[StreamAt[s]] = s
        BY <1>1, <1>3
  <2>4. Memory(s) = [a \in DOMAIN mem |-> mem[a]]
        BY <2>2, <2>3 DEF Memory
  <2> QED BY <2>4 DEF TypeOK
<1> QED BY <1>1, <1>2, <1>3

(* What hash_insert() finds in the internal buckets.                       *)
LEMMA MatchingIs ==
  ASSUME OwnStreams, TypeOK, StreamsInv, NEW s \in Stacks
  PROVE  /\ Matching(s, Memory(s)) =
              {i \in 1 .. Len(bucket) : bucket[i].key = StreamAt[s]}
         /\ Matching(s, mem) =
              {i \in 1 .. Len(bucket) : s \in Inserted /\ bucket[i].key = StreamAt[s]}
         /\ \A i \in 1 .. Len(bucket) :
              bucket[i].key \in DOMAIN mem /\ bucket[i].count \in Nat \ {0}
<1>0. Inserted \subseteq Stacks
      BY DEF Inserted
<1>1. \A i \in 1 .. Len(bucket) :
        bucket[i].key \in DOMAIN mem /\ bucket[i].count \in Nat \ {0}
  <2>1. bucket \in Seq([key : DOMAIN mem, count : Nat \ {0}])
        BY DEF TypeOK
  <2>2. \A i \in 1 .. Len(bucket) : bucket[i] \in [key : DOMAIN mem, count : Nat \ {0}]
        BY <2>1, ElementOfSeq
  <2> QED BY <2>2
<1>2. ASSUME NEW i \in 1 .. Len(bucket)
      PROVE  /\ Memory(s)[bucket[i].key] = s <=> bucket[i].key = StreamAt[s]
             /\ mem[bucket[i].key] = s <=>
                  s \in Inserted /\ bucket[i].key = StreamAt[s]
  <2>1. PICK t \in Inserted : bucket[i].key = StreamAt[t]
        BY <1>1 DEF StreamsInv
  <2>2. Memory(s)[StreamAt[t]] = t /\ mem[StreamAt[t]] = t
        BY StreamsHold
  <2>3. StreamAt[t] = StreamAt[s] => t = s
        BY <1>0 DEF OwnStreams
  <2> QED BY <2>1, <2>2, <2>3
<1> QED BY <1>1, <1>2 DEF Matching

(* What a call of hash_insert() does to the history.                       *)
LEMMA CalledStreams ==
  ASSUME OwnStreams, TypeOK, StreamsInv, NEW s \in Stacks, Called(s)
  PROVE  StreamsInv' /\ Inserted' = Inserted \cup {s}
<1>1. /\ mem' = Memory(s)
      /\ DOMAIN mem' = DOMAIN mem \cup {StreamAt[s]}
      /\ \A t \in Stacks \ {s} : inserts'[t] = inserts[t]
      /\ inserts'[s] = inserts[s] + 1
      BY CalledTyped
<1>2. Inserted' = Inserted \cup {s}
  <2>1. inserts[s] \in Nat
        BY DEF TypeOK
  <2>2. inserts'[s] > 0
        BY <1>1, <2>1
  <2> QED BY <1>1, <2>2 DEF Inserted
<1>3. StreamsInv'
  <2>1. \A t \in Inserted' : StreamAt[t] \in DOMAIN mem' /\ mem'[StreamAt[t]] = t
        BY <1>1, <1>2, StreamsHold DEF StreamsInv
  <2>2. \A a \in DOMAIN mem' : \E t \in Inserted' : a = StreamAt[t]
        BY <1>1, <1>2 DEF StreamsInv
  <2>3. \A a \in DOMAIN mem' : \E t \in Inserted' : a = StreamAt[t] /\ mem'[a] = t
        BY <2>1, <2>2
  <2> QED BY <2>1, <2>3 DEF StreamsInv
<1> QED BY <1>2, <1>3

-----------------------------------------------------------------------------
(* __hash_insert(), while every callstack has its own stream.              *)

(* U is in the part t of the table, or two of U collided.                  *)
Holds(t, U) == IF t.ok THEN Indirect(t, U) ELSE Collision(U)

(* The streams of U hold U.                                                *)
HoldIn(m, U) == \A u \in U : m[StreamAt[u]] = u

(* What is in the first k streams, all of V.                               *)
Reached(V, streams, k) ==
  {v \in V : \E i \in 1 .. k : streams[i] = StreamAt[v]}

(* A callstack is a prefix of itself.                                      *)
LEMMA OwnPrefix ==
  ASSUME NEW s \in Stacks
  PROVE  IsPrefix(s, s)
<1>1. Len(s) \in Nat
      BY TableAssumption, LenProperties
<1> QED BY <1>1 DEF IsPrefix

(* What __hash_insert() of s does to the buckets: it makes a new one,      *)
Fresh(t, r, s) ==
  /\ Hash[s] \notin DOMAIN t.map
  /\ DOMAIN r.map = DOMAIN t.map \cup {Hash[s]}
  /\ r.map[Hash[s]].key = StreamAt[s] /\ r.map[Hash[s]].count = 1
  /\ \A h \in DOMAIN t.map : r.map[h] = t.map[h]
  /\ r.unique = t.unique + 1

(* or it counts in the one that is there.                                  *)
Again(t, r, s) ==
  /\ Hash[s] \in DOMAIN t.map
  /\ DOMAIN r.map = DOMAIN t.map
  /\ \A h \in DOMAIN t.map :
       /\ r.map[h].key = t.map[h].key
       /\ r.map[h].count = IF h = Hash[s] THEN t.map[h].count + 1 ELSE t.map[h].count
  /\ r.unique = t.unique

(* The second only for a callstack that begins the key, and the assertion  *)
(* fails only for another one.                                             *)
LEMMA InsertDoes ==
  ASSUME NEW D, NEW t, Well(t, D), t.ok, NEW U \in SUBSET Stacks, Indirect(t, U),
         NEW s \in Stacks, StreamAt[s] \in D,
         NEW m, HoldIn(m, U \cup {s}),
         NEW r, r = Insert(t, StreamAt[s], m)
  PROVE  \/ r.ok /\ Fresh(t, r, s)
         \/ r.ok /\ Again(t, r, s) /\ \E v \in U : /\ t.map[Hash[s]].key = StreamAt[v]
                                                   /\ IsPrefix(s, v)
         \/ ~ r.ok /\ \E u \in U : u # s /\ Hash[u] = Hash[s]
<1> DEFINE a == StreamAt[s]
           h == Hash[s]
           x == t.map
<1>0. a \in D /\ Well(t, D) /\ t.ok
      OBVIOUS
<1>1. m[a] = s /\ HashOf(m[a]) = h /\ \A u \in U : m[StreamAt[u]] = u
      BY DEF HashOf, HoldIn
<1>2. IsPrefix(s, s)
      BY OwnPrefix
<1>3. CASE h \notin DOMAIN x
  <2>1. r = [map |-> WithBucket(x, h, a),
             unique |-> t.unique + 1, hits |-> t.hits, ok |-> TRUE]
    <3>1. HashOf(m[a]) \notin DOMAIN t.map
          BY <1>1, <1>3
    <3>2. Insert(t, a, m) =
            [map |-> WithBucket(t.map, HashOf(m[a]), a),
             unique |-> t.unique + 1, hits |-> t.hits, ok |-> TRUE]
          BY <1>0, <3>1, InsertNew, ZenonT(40)
    <3> QED BY <1>1, <3>2
  <2>2. r.ok /\ r.map = WithBucket(x, h, a) /\ r.unique = t.unique + 1
        BY <2>1
  <2> HIDE DEF x, a, h
  <2> DEFINE y == r.map
             b == [key |-> a, count |-> 1]
  <2>3. b.key = a /\ b.count = 1
        OBVIOUS
  <2> HIDE DEF b
  <2>4. y = [g \in DOMAIN x \cup {h} |-> IF g = h THEN b ELSE x[g]]
        BY <2>2 DEF WithBucket, b
  <2>5. /\ DOMAIN y = DOMAIN x \cup {h} /\ y[h] = b
        /\ \A g \in DOMAIN x : y[g] = x[g]
        BY <1>3, <2>4
  <2> QED BY <1>3, <2>2, <2>3, <2>5 DEF Fresh, x, a, h
<1>4. CASE h \in DOMAIN x
  <2>1. PICK u \in U : x[h].key = StreamAt[u] /\ Hash[u] = h
        BY <1>4 DEF Indirect, KeysOf
  <2>2. m[x[h].key] = u
        BY <1>1, <2>1
  <2>3. CASE IsPrefix(s, u)
    <3>1. IsPrefix(m[a], m[t.map[HashOf(m[a])].key])
          BY <1>1, <2>2, <2>3
    <3>2. r = [map |-> Counted(x, h), unique |-> t.unique,
               hits |-> t.hits + 1, ok |-> TRUE]
      <4>1. HashOf(m[a]) \in DOMAIN t.map
            BY <1>1, <1>4
      <4>2. Insert(t, a, m) =
              [map |-> Counted(t.map, HashOf(m[a])),
               unique |-> t.unique, hits |-> t.hits + 1, ok |-> TRUE]
            BY <1>0, <3>1, <4>1, InsertAgain, ZenonT(40)
      <4> QED BY <1>1, <4>2
    <3>3. r.ok /\ r.map = Counted(x, h) /\ r.unique = t.unique
          BY <3>2
    <3>4. x \in [DOMAIN x -> Buckets(D)]
          BY DEF Well
    <3> HIDE DEF x, a, h
    <3> DEFINE y == r.map
    <3>5. /\ DOMAIN y = DOMAIN x /\ y[h] = [x[h] EXCEPT !.count = @ + 1]
          /\ \A g \in DOMAIN x \ {h} : y[g] = x[g]
      <4>1. y = [x EXCEPT ![h] = [x[h] EXCEPT !.count = @ + 1]]
            BY <3>3 DEF Counted
      <4>2. x = [g \in DOMAIN x |-> x[g]] /\ h \in DOMAIN x
            BY <1>4, <3>4
      <4> QED BY <4>1, <4>2
    <3>6. y[h].key = x[h].key /\ y[h].count = x[h].count + 1
      <4>1. x[h] \in Buckets(D)
            BY <1>4, <3>4
      <4>2. \A c \in Buckets(D) : /\ [c EXCEPT !.count = @ + 1].key = c.key
                                  /\ [c EXCEPT !.count = @ + 1].count = c.count + 1
            BY DEF Buckets
      <4> QED BY <3>5, <4>1, <4>2
    <3> HIDE DEF y
    <3>7. \A g \in DOMAIN x :
            /\ y[g].key = x[g].key
            /\ y[g].count = IF g = h THEN x[g].count + 1 ELSE x[g].count
      <4> TAKE g \in DOMAIN x
      <4>1. CASE g = h
            BY <3>6, <4>1
      <4>2. CASE g # h
            BY <3>5, <4>2
      <4> QED BY <4>1, <4>2
    <3>8. Again(t, r, s)
          BY <1>4, <3>3, <3>5, <3>7 DEF Again, x, y, h
    <3>9. t.map[Hash[s]].key = StreamAt[u]
          BY <2>1 DEF x, h
    <3> QED BY <2>3, <3>3, <3>8, <3>9
  <2>4. CASE ~ IsPrefix(s, u)
    <3>1. u # s
          BY <1>2, <2>4
    <3>2. r.ok = FALSE
      <4>1. r = [t EXCEPT !.ok = FALSE]
            BY <1>1, <1>4, <2>2, <2>4 DEF Insert, HashInsert
      <4>2. "ok" \in DOMAIN t
            BY DEF Well
      <4> QED BY <4>1, <4>2
    <3> QED BY <2>1, <3>1, <3>2
  <2> QED BY <2>3, <2>4
<1> QED BY <1>3, <1>4

(* s is then in the bucket of its hash.                                    *)
LEMMA InsertKeyed ==
  ASSUME NEW D, NEW t, Well(t, D), t.ok, NEW U \in SUBSET Stacks, Indirect(t, U),
         NEW s \in Stacks, StreamAt[s] \in D,
         NEW m, HoldIn(m, U \cup {s}),
         NEW r, r = Insert(t, StreamAt[s], m)
  PROVE  Holds(r, U \cup {s})
<1> DEFINE h == Hash[s]
           x == t.map
           y == r.map
<1>1. /\ Keyed(x, U) /\ KeysOf(x, U) /\ IsFiniteSet(DOMAIN x)
      /\ t.unique = NumInternal + Cardinality(DOMAIN x)
      BY DEF Indirect
<1>2. NumInternal \in Nat /\ Cardinality(DOMAIN x) \in Nat
      BY <1>1, TableAssumption, FS_CardinalityType
<1>3. CASE r.ok /\ Fresh(t, r, s)
  <2>1. /\ h \notin DOMAIN x /\ DOMAIN y = DOMAIN x \cup {h}
        /\ y[h].key = StreamAt[s] /\ \A g \in DOMAIN x : y[g] = x[g]
        /\ r.unique = t.unique + 1
        BY <1>3 DEF Fresh
  <2> HIDE DEF h, x, y
  <2>2. Keyed(y, U \cup {s})
    <3>1. \A u \in U : /\ Hash[u] \in DOMAIN y
                       /\ \E v \in U : y[Hash[u]].key = StreamAt[v] /\ IsPrefix(u, v)
          BY <1>1, <2>1 DEF Keyed
    <3>2. h \in DOMAIN y /\ y[h].key = StreamAt[s] /\ IsPrefix(s, s)
          BY <2>1, OwnPrefix
    <3> QED BY <3>1, <3>2 DEF Keyed, h
  <2>3. KeysOf(y, U \cup {s})
    <3>1. \A g \in DOMAIN x : \E u \in U : y[g].key = StreamAt[u] /\ Hash[u] = g
          BY <1>1, <2>1 DEF KeysOf
    <3>2. y[h].key = StreamAt[s] /\ Hash[s] = h
          BY <2>1 DEF h
    <3> QED BY <2>1, <3>1, <3>2 DEF KeysOf
  <2>4. IsFiniteSet(DOMAIN y) /\ Cardinality(DOMAIN y) = Cardinality(DOMAIN x) + 1
        BY <1>1, <2>1, FS_AddElement
  <2>5. r.unique = NumInternal + Cardinality(DOMAIN y)
        BY <1>1, <1>2, <2>1, <2>4
  <2> QED BY <1>3, <2>2, <2>3, <2>4, <2>5 DEF Holds, Indirect, y
<1>4. ASSUME r.ok, Again(t, r, s), NEW v \in U, x[h].key = StreamAt[v], IsPrefix(s, v)
      PROVE  Holds(r, U \cup {s})
  <2>1. /\ h \in DOMAIN x /\ DOMAIN y = DOMAIN x /\ \A g \in DOMAIN x : y[g].key = x[g].key
        /\ r.unique = t.unique
        BY <1>4 DEF Again
  <2> HIDE DEF h, x, y
  <2>2. Keyed(y, U \cup {s})
    <3>1. \A w \in U : /\ Hash[w] \in DOMAIN y
                       /\ \E z \in U : y[Hash[w]].key = StreamAt[z] /\ IsPrefix(w, z)
      <4> TAKE w \in U
      <4>1. Hash[w] \in DOMAIN x
            BY <1>1 DEF Keyed
      <4>2. PICK z \in U : x[Hash[w]].key = StreamAt[z] /\ IsPrefix(w, z)
            BY <1>1 DEF Keyed
      <4>3. y[Hash[w]].key = StreamAt[z] /\ Hash[w] \in DOMAIN y
            BY <2>1, <4>1, <4>2
      <4> QED BY <4>2, <4>3
    <3>2. h \in DOMAIN y /\ y[h].key = StreamAt[v] /\ IsPrefix(s, v)
          BY <1>4, <2>1
    <3> QED BY <3>1, <3>2 DEF Keyed, h
  <2>3. KeysOf(y, U \cup {s})
        BY <1>1, <2>1 DEF KeysOf
  <2> QED BY <1>1, <1>4, <2>1, <2>2, <2>3 DEF Holds, Indirect, y
<1>5. ASSUME ~ r.ok, NEW u \in U, u # s, Hash[u] = Hash[s]
      PROVE  Holds(r, U \cup {s})
      BY <1>5 DEF Holds, Collision
<1>6. \/ r.ok /\ Fresh(t, r, s)
      \/ r.ok /\ Again(t, r, s) /\ \E v \in U : x[h].key = StreamAt[v] /\ IsPrefix(s, v)
      \/ ~ r.ok /\ \E u \in U : u # s /\ Hash[u] = Hash[s]
      BY InsertDoes
<1> QED BY <1>3, <1>4, <1>5, <1>6

(* Every bucket counts the callstacks of U that have its hash.             *)
OfHash(U, h) == {u \in U : Hash[u] = h}

Once(x, U) == \A h \in DOMAIN x : x[h].count = Cardinality(OfHash(U, h))

LEMMA InsertOnce ==
  ASSUME NEW U \in SUBSET Stacks, IsFiniteSet(U), NEW t, Indirect(t, U), Once(t.map, U),
         NEW s \in Stacks \ U, NEW r, Fresh(t, r, s) \/ Again(t, r, s)
  PROVE  Once(r.map, U \cup {s})
<1> DEFINE h == Hash[s]
           x == t.map
           y == r.map
           V == U \cup {s}
<1>1. \A g : IsFiniteSet(OfHash(U, g)) /\ Cardinality(OfHash(U, g)) \in Nat
  <2>1. \A g : OfHash(U, g) \subseteq U
        BY DEF OfHash
  <2> QED BY <2>1, FS_Subset, FS_CardinalityType
<1>2. /\ OfHash(V, h) = OfHash(U, h) \cup {s} /\ s \notin OfHash(U, h)
      /\ \A g : g # h => OfHash(V, g) = OfHash(U, g)
      BY DEF OfHash
<1>3. Cardinality(OfHash(V, h)) = Cardinality(OfHash(U, h)) + 1
      BY <1>1, <1>2, FS_AddElement
<1>4. Keyed(x, U) /\ \A g \in DOMAIN x : x[g].count = Cardinality(OfHash(U, g))
      BY DEF Indirect, Once
<1>5. CASE Fresh(t, r, s)
  <2>1. /\ h \notin DOMAIN x /\ DOMAIN y = DOMAIN x \cup {h}
        /\ y[h].count = 1 /\ \A g \in DOMAIN x : y[g] = x[g]
        BY <1>5 DEF Fresh
  <2>2. OfHash(U, h) = {}
        BY <1>4, <2>1 DEF Keyed, OfHash
  <2>3. Cardinality(OfHash(V, h)) = 1
        BY <1>3, <2>2, FS_EmptySet
  <2> HIDE DEF h, x, y, V
  <2>4. \A g \in DOMAIN x : g # h /\ y[g].count = Cardinality(OfHash(V, g))
        BY <1>2, <1>4, <2>1
  <2>5. \A g \in DOMAIN y : y[g].count = Cardinality(OfHash(V, g))
        BY <2>1, <2>3, <2>4
  <2> QED BY <2>5 DEF Once, y, V
<1>6. CASE Again(t, r, s)
  <2>1. /\ h \in DOMAIN x /\ DOMAIN y = DOMAIN x
        /\ \A g \in DOMAIN x :
             y[g].count = IF g = h THEN x[g].count + 1 ELSE x[g].count
        BY <1>6 DEF Again
  <2> HIDE DEF h, x, y, V
  <2>2. y[h].count = Cardinality(OfHash(V, h))
        BY <1>3, <1>4, <2>1
  <2>3. \A g \in DOMAIN x : g # h => y[g].count = Cardinality(OfHash(V, g))
        BY <1>2, <1>4, <2>1
  <2>4. \A g \in DOMAIN y : y[g].count = Cardinality(OfHash(V, g))
        BY <2>1, <2>2, <2>3
  <2> QED BY <2>4 DEF Once, y, V
<1> QED BY <1>5, <1>6

(* Streams inserted one after the other into a table without buckets.      *)
LEMMA InsertsOnce ==
  ASSUME OwnStreams, NEW D, NEW l \in Nat, NEW streams, NEW m,
         NEW V \in SUBSET Stacks, IsFiniteSet(V), HoldIn(m, V),
         \A i \in 1 .. l : streams[i] \in D /\ \E v \in V : streams[i] = StreamAt[v],
         \A i, j \in 1 .. l : streams[i] = streams[j] => i = j,
         Reached(V, streams, l) = V,
         NEW g, Well(g[0], D), g[0].ok, DOMAIN g[0].map = {}, g[0].unique = NumInternal,
         Steps(g, streams, m, l)
  PROVE  Holds(g[l], V) /\ (g[l].ok => Once(g[l].map, V))
<1> DEFINE W(k) == Reached(V, streams, k)
           Fine(k) == /\ Well(g[k], D)
                      /\ g[k].ok => Indirect(g[k], W(k)) /\ Once(g[k].map, W(k))
                      /\ ~ g[k].ok => Collision(V)
           Good == {k \in Nat : k <= l => Fine(k)}
<1>0. \A k \in Nat : W(k) \in SUBSET V /\ IsFiniteSet(W(k))
  <2>1. \A k \in Nat : W(k) \subseteq V
        BY DEF Reached
  <2> HIDE DEF W
  <2> QED BY <2>1, FS_Subset
<1>1. 0 \in Good
  <2>1. W(0) = {}
        BY DEF Reached
  <2>2. Keyed(g[0].map, {}) /\ KeysOf(g[0].map, {}) /\ Once(g[0].map, {})
        BY DEF Keyed, KeysOf, Once
  <2>3. IsFiniteSet(DOMAIN g[0].map) /\ Cardinality(DOMAIN g[0].map) = 0
        BY FS_EmptySet
  <2>4. NumInternal = NumInternal + 0
        BY TableAssumption
  <2>5. Indirect(g[0], {})
        BY <2>2, <2>3, <2>4 DEF Indirect
  <2> HIDE DEF W
  <2> QED BY <2>1, <2>2, <2>5
<1>2. ASSUME NEW k \in Nat, k \in Good
      PROVE  k + 1 \in Good
  <2> SUFFICES ASSUME k + 1 <= l PROVE Fine(k + 1)
      OBVIOUS
  <2>1. /\ Fine(k) /\ k + 1 \in 1 .. l /\ (k + 1) - 1 = k
        /\ \A i \in 1 .. k + 1 : i \in 1 .. k \/ i = k + 1
        /\ k + 1 \in 1 .. k + 1
        /\ \A i \in 1 .. k : i \in 1 .. k + 1 /\ i # k + 1 /\ i \in 1 .. l
    <3>1. k <= l
          OBVIOUS
    <3> HIDE DEF Fine
    <3> QED BY <1>2, <3>1
  <2>2. g[k + 1] = Insert(g[k], streams[k + 1], m)
        BY <2>1 DEF Steps
  <2>3. PICK s \in V : streams[k + 1] = StreamAt[s] /\ StreamAt[s] \in D
        BY <2>1
  <2>4. W(k + 1) = W(k) \cup {s}
    <3>1. \A v \in V : StreamAt[v] = StreamAt[s] => v = s
          BY DEF OwnStreams
    <3> QED BY <2>1, <2>3, <3>1 DEF Reached
  <2>5. s \notin W(k)
        BY <2>1, <2>3 DEF Reached
  <2>6. Well(g[k], D) /\ Well(g[k + 1], D)
        BY <2>1, <2>2, <2>3, InsertWell
  <2>7. CASE g[k].ok
    <3>1. PICK t, r, X : t = g[k] /\ r = g[k + 1] /\ X = W(k)
          OBVIOUS
    <3> HIDE DEF W
    <3>2. X \in SUBSET V /\ X \cup {s} \in SUBSET V /\ IsFiniteSet(X)
          BY <1>0, <3>1
    <3>3. /\ X \in SUBSET Stacks /\ s \in Stacks \ X /\ s \in Stacks
          /\ StreamAt[s] \in D
          BY <2>3, <2>5, <3>1, <3>2
    <3>4. HoldIn(m, X \cup {s})
          BY <3>2 DEF HoldIn
    <3>5. /\ Well(t, D) /\ t.ok /\ Indirect(t, X) /\ Once(t.map, X)
          /\ r = Insert(t, StreamAt[s], m)
          BY <2>1, <2>2, <2>3, <2>6, <2>7, <3>1
    <3>6. Holds(r, X \cup {s})
          BY <3>3, <3>4, <3>5, InsertKeyed
    <3>7. r.ok => Fresh(t, r, s) \/ Again(t, r, s)
          BY <3>3, <3>4, <3>5, InsertDoes
    <3>8. r.ok => Once(r.map, X \cup {s})
          BY <3>2, <3>3, <3>5, <3>7, InsertOnce
    <3>9. ~ r.ok => Collision(V)
          BY <3>2, <3>6 DEF Holds, Collision
    <3>10. r.ok => Indirect(r, W(k + 1)) /\ Once(r.map, W(k + 1))
           BY <2>4, <3>1, <3>6, <3>8 DEF Holds
    <3> QED BY <2>6, <3>1, <3>9, <3>10
  <2>8. CASE ~ g[k].ok
    <3>1. g[k + 1] = g[k]
          BY <2>2, <2>8 DEF Insert
    <3> HIDE DEF W
    <3> QED BY <2>1, <2>6, <2>8, <3>1
  <2> QED BY <2>7, <2>8
<1>3. l \in Good
      BY <1>1, <1>2, NatSetInduction
<1>4. Fine(l)
      BY <1>3
<1> QED BY <1>4 DEF Holds

-----------------------------------------------------------------------------
(* Lookups, and the steps of the table of counts.                          *)

(* How many callstacks were inserted, before and after a call.             *)
LEMMA CalledCount ==
  ASSUME IsFiniteSet(Inserted), NEW s, Inserted' = Inserted \cup {s}
  PROVE  /\ IsFiniteSet(Inserted')
         /\ Cardinality(Inserted) \in Nat
         /\ s \in Inserted => Cardinality(Inserted') = Cardinality(Inserted)
         /\ s \notin Inserted => Cardinality(Inserted') = Cardinality(Inserted) + 1
<1>1. IsFiniteSet(Inserted) /\ Cardinality(Inserted) \in Nat
      BY FS_CardinalityType
<1>2. CASE s \in Inserted
  <2>1. Inserted' = Inserted
        BY <1>2
  <2> QED BY <1>1, <1>2, <2>1
<1>3. CASE s \notin Inserted
  <2>1. IsFiniteSet(Inserted') /\ Cardinality(Inserted') = Cardinality(Inserted) + 1
        BY <1>1, <1>3, FS_AddElement
  <2> QED BY <1>1, <1>3, <2>1
<1> QED BY <1>2, <1>3

(* What hash_lookup() returns.                                             *)
Counts ==
  /\ Spilled => \A t \in Stacks :
                  CountOf(t) = IF Hash[t] \in DOMAIN map THEN map[Hash[t]].count ELSE 0
  /\ ~ Spilled => /\ \A t \in Stacks \ Inserted : CountOf(t) = 0
                  /\ \A t \in Inserted : \A i \in 1 .. Len(bucket) :
                       bucket[i].key = StreamAt[t] => CountOf(t) = bucket[i].count

(* It is the count of the bucket, if there is one.                         *)
LEMMA LookupCounts ==
  ASSUME OwnStreams, IInv, ~ aborted
  PROVE  Counts
<1>1. TypeOK /\ StreamsInv /\ InternalInv
      BY DEF IInv
<1>2. Inserted \subseteq Stacks
      BY DEF Inserted
<1>3. CASE Spilled
  <2>1. \A t \in Stacks :
          CountOf(t) = IF Hash[t] \in DOMAIN map THEN map[Hash[t]].count ELSE 0
        BY <1>3 DEF CountOf, BucketIsThere, HashOf
  <2> QED BY <1>3, <2>1 DEF Counts
<1>4. CASE ~ Spilled
  <2>1. ASSUME NEW t \in Stacks \ Inserted PROVE CountOf(t) = 0
    <3>1. Matching(t, mem) = {}
          BY <1>1, MatchingIs
    <3> QED BY <1>4, <3>1 DEF CountOf, BucketIsThere
  <2>2. ASSUME NEW t \in Inserted, NEW i \in 1 .. Len(bucket),
               bucket[i].key = StreamAt[t]
        PROVE  CountOf(t) = bucket[i].count
    <3>1. Matching(t, mem) = {i}
          BY <1>1, <1>2, <1>4, <2>2, MatchingIs DEF InternalInv
    <3>2. (CHOOSE k \in {i} : \A j \in {i} : k <= j) = i
          OBVIOUS
    <3> QED BY <1>4, <3>1, <3>2 DEF CountOf, BucketIsThere
  <2> QED BY <1>4, <2>1, <2>2 DEF Counts
<1> QED BY <1>3, <1>4

(* And so it is after a step that keeps the invariant.                     *)
LEMMA LookupCountsNext ==
  ASSUME OwnStreams
  PROVE  (IInv /\ ~ aborted)' => Counts'
<1>1. IInv /\ ~ aborted => Counts
      BY LookupCounts
<1> QED BY <1>1, PTL

(* Before the spill the inserted callstacks are those with a count.        *)
LEMMA CountedInserted ==
  ASSUME OwnStreams, IInv, ~ aborted, ~ Spilled
  PROVE  \A t \in Stacks : IF t \in Inserted THEN CountOf(t) > 0 ELSE CountOf(t) = 0
<1>1. Counts /\ TypeOK /\ StreamsInv /\ InternalInv
      BY LookupCounts DEF IInv
<1> TAKE t \in Stacks
<1>2. CASE t \in Inserted
  <2>1. PICK i \in 1 .. Len(bucket) : bucket[i].key = StreamAt[t]
        BY <1>1, <1>2 DEF InternalInv
  <2>2. bucket[i].count \in Nat \ {0}
        BY <1>1, MatchingIs
  <2>3. CountOf(t) = bucket[i].count
        BY <1>1, <1>2, <2>1 DEF Counts
  <2> QED BY <1>2, <2>2, <2>3
<1>3. CASE t \notin Inserted
      BY <1>1, <1>3 DEF Counts
<1> QED BY <1>2, <1>3

(* A call that counts s once, with the callstacks that share its count,    *)
CountsOnce(s) ==
  /\ aborted = FALSE /\ aborted' = FALSE /\ Spilled' = Spilled
  /\ \A t \in Stacks :
       CountOf(t)' = IF t = s \/ (Spilled /\ Hash[t] = Hash[s])
                     THEN CountOf(t) + 1 ELSE CountOf(t)

(* is an insertion into the table of counts.                               *)
LEMMA AbsInsert ==
  ASSUME NEW s \in Stacks, Called(s), CountsOnce(s)
  PROVE  Abs!Next
<1> DEFINE before == [t \in Stacks |-> IF aborted THEN 0 ELSE CountOf(t)]
           after == [t \in Stacks |-> IF aborted' THEN 0 ELSE CountOf(t)']
<1>1. \A t \in Stacks : before[t] = CountOf(t) /\ after[t] = CountOf(t)'
      BY DEF CountsOnce
<1>2. after = [t \in Stacks |-> IF t = s \/ (Spilled /\ Hash[t] = Hash[s])
                                THEN before[t] + 1 ELSE before[t]]
  <2>1. after = [t \in Stacks |-> after[t]]
        OBVIOUS
  <2> HIDE DEF after, before
  <2>2. \A t \in Stacks : after[t] = IF t = s \/ (Spilled /\ Hash[t] = Hash[s])
                                     THEN before[t] + 1 ELSE before[t]
        BY <1>1 DEF CountsOnce
  <2> QED BY <2>1, <2>2
<1>3. ~ aborted /\ inserts' = [inserts EXCEPT ![s] = @ + 1]
      BY DEF Called
<1>4. Spilled' = Spilled /\ aborted' = aborted
      BY DEF CountsOnce
<1>5. Abs!Insert(s)
      BY <1>2, <1>3, <1>4 DEF Abs!Insert, Abs!Counted
<1> QED BY <1>5 DEF Abs!Next

(* Cardinality is the same in the module of the table of counts.           *)
LEMMA AbsCardinality ==
  ASSUME NEW S
  PROVE  Abs!Cardinality(S) = Cardinality(S)
BY Zenon DEF Abs!Cardinality, Cardinality

(* The call that starts the counts again, for each hash from the number of *)
(* callstacks that have it.                                                *)
LEMMA AbsSpill ==
  ASSUME NEW s \in Stacks, Called(s), aborted = FALSE, aborted' = FALSE,
         ~ Spilled, Spilled', CountOf(s) = 0,
         \A t \in Stacks :
           CountOf(t)' = Cardinality({u \in Stacks : /\ u = s \/ CountOf(u) > 0
                                                     /\ Hash[u] = Hash[t]})
  PROVE  Abs!Next
<1> DEFINE before == [t \in Stacks |-> IF aborted THEN 0 ELSE CountOf(t)]
           after == [t \in Stacks |-> IF aborted' THEN 0 ELSE CountOf(t)']
           OfCount(t) == {u \in Stacks : /\ u = s \/ before[u] > 0
                                         /\ Hash[u] = Hash[t]}
<1>1. \A t \in Stacks : before[t] = CountOf(t) /\ after[t] = CountOf(t)'
      OBVIOUS
<1>2. after = [t \in Stacks |-> Cardinality(OfCount(t))]
  <2>1. after = [t \in Stacks |-> after[t]]
        OBVIOUS
  <2> HIDE DEF after, before
  <2>2. \A t \in Stacks :
          OfCount(t) = {u \in Stacks : /\ u = s \/ CountOf(u) > 0
                                       /\ Hash[u] = Hash[t]}
        BY <1>1
  <2>3. \A t \in Stacks : after[t] = Cardinality(OfCount(t))
        BY <1>1, <2>2
  <2> QED BY <2>1, <2>3
<1>3. ~ aborted /\ inserts' = [inserts EXCEPT ![s] = @ + 1] /\ before[s] = 0
      BY DEF Called
<1>4. (Spilled)' = TRUE /\ aborted' = aborted
      BY DEF Spilled
<1>5. \A t \in Stacks : Abs!Cardinality(OfCount(t)) = Cardinality(OfCount(t))
      BY AbsCardinality
<1>6. after = [t \in Stacks |-> Abs!Cardinality(OfCount(t))]
      BY <1>2, <1>5
<1>7. Abs!Spill(s)
      BY <1>3, <1>4, <1>6 DEF Abs!Spill, Abs!Counted
<1> QED BY <1>7 DEF Abs!Next

(* A call whose assertion fails.                                           *)
LEMMA AbsFail ==
  ASSUME NEW s \in Stacks, Called(s), aborted = FALSE, aborted' = TRUE,
         Spilled', Spilled \/ CountOf(s) = 0, Collision(Inserted')
  PROVE  Abs!Next
<1> DEFINE before == [t \in Stacks |-> IF aborted THEN 0 ELSE CountOf(t)]
           after == [t \in Stacks |-> IF aborted' THEN 0 ELSE CountOf(t)']
<1>1. after = [t \in Stacks |-> 0]
      OBVIOUS
<1>2. ~ aborted /\ inserts' = [inserts EXCEPT ![s] = @ + 1]
      BY DEF Called
<1>3. (Spilled)' = TRUE
      BY DEF Spilled
<1>4. \E t, u \in Stacks :
        t # u /\ Hash[t] = Hash[u] /\ inserts'[t] > 0 /\ inserts'[u] > 0
      BY DEF Collision, Inserted
<1>5. Spilled \/ before[s] = 0
      OBVIOUS
<1>6. Abs!Fail(s)
      BY <1>1, <1>2, <1>3, <1>4, <1>5 DEF Abs!Fail, Abs!Counted
<1> QED BY <1>6 DEF Abs!Next

-----------------------------------------------------------------------------
(* Every call keeps the invariant and is a step of the table of counts.    *)

(* s is counted in the internal bucket that has its stream.                *)
LEMMA InternalHitStep ==
  ASSUME OwnStreams, IInv, NEW s \in Stacks, InternalHit(s)
  PROVE  IInv' /\ Abs!Next
<1>1. /\ TypeOK /\ StreamsInv /\ InternalInv /\ IsFiniteSet(Inserted)
      BY DEF IInv
<1> DEFINE i == CHOOSE i \in Matching(s, Memory(s)) :
                  \A j \in Matching(s, Memory(s)) : i <= j
<1>2. /\ Called(s) /\ ~ Spilled /\ Matching(s, Memory(s)) # {}
      /\ bucket' = [bucket EXCEPT ![i].count = @ + 1]
      /\ map' = map /\ num_internal' = num_internal
      /\ unique' = unique /\ aborted = FALSE /\ aborted' = FALSE
  <2>1. num_internal \in Nat /\ NumInternal \in Nat /\ num_internal <= NumInternal
        BY <1>1, TableAssumption, LenProperties DEF InternalHit, TypeOK
  <2>2. aborted = FALSE
        BY <1>1 DEF InternalHit, Called, TypeOK
  <2> QED BY <2>1, <2>2 DEF InternalHit, Spilled
<1>3. PICK k \in 1 .. Len(bucket) : bucket[k].key = StreamAt[s]
      BY <1>1, <1>2, MatchingIs
<1>4. Matching(s, Memory(s)) = {k}
      BY <1>1, <1>2, <1>3, MatchingIs DEF InternalInv
<1>5. i = k
  <2>1. (CHOOSE l \in {k} : \A j \in {k} : l <= j) = k
        OBVIOUS
  <2> QED BY <1>4, <2>1
<1> HIDE DEF i
<1>6. s \in Inserted
  <2>1. PICK t \in Inserted : bucket[k].key = StreamAt[t]
        BY <1>1, <1>3, MatchingIs DEF StreamsInv
  <2> QED BY <1>3, <2>1 DEF OwnStreams, Inserted
<1>7. /\ StreamsInv' /\ Inserted' = Inserted
      /\ IsFiniteSet(Inserted') /\ Cardinality(Inserted') = Cardinality(Inserted)
      BY <1>1, <1>2, <1>6, CalledStreams, CalledCount
<1>8. /\ Len(bucket') = Len(bucket)
      /\ \A j \in 1 .. Len(bucket) : bucket'[j].key = bucket[j].key
      /\ \A j \in 1 .. Len(bucket) \ {k} : bucket'[j] = bucket[j]
      /\ bucket'[k].count = bucket[k].count + 1
  <2>1. bucket \in Seq(Buckets(DOMAIN mem)) /\ bucket' = Counted(bucket, k)
        BY <1>1, <1>2, <1>5 DEF TypeOK, Counted, Buckets
  <2>2. Len(bucket') = Len(bucket)
        BY <2>1, CountedBuckets
  <2>3. \A j \in 1 .. Len(bucket) :
          /\ bucket'[j].key = bucket[j].key
          /\ j # k => bucket'[j] = bucket[j]
          /\ j = k => bucket'[j].count = bucket[j].count + 1
        BY <2>1, CountedBuckets
  <2> QED BY <1>3, <2>2, <2>3
<1>9. TypeOK'
      BY <1>1, InsertStepTyped
<1>10. ~ Spilled'
       BY <1>2 DEF Spilled
<1>11. InternalInv'
       BY <1>1, <1>2, <1>7, <1>8, <1>10 DEF InternalInv
<1>12. IndirectInv' /\ ~ aborted'
       BY <1>2, <1>10 DEF IndirectInv
<1>13. IInv'
       BY <1>7, <1>9, <1>11, <1>12 DEF IInv
<1>14. Counts /\ Counts'
       BY <1>2, <1>12, <1>13, LookupCounts, LookupCountsNext
<1>15. CountOf(s)' = CountOf(s) + 1
       BY <1>2, <1>3, <1>6, <1>7, <1>8, <1>10, <1>14 DEF Counts
<1>16. ASSUME NEW t \in Stacks \ {s} PROVE CountOf(t)' = CountOf(t)
  <2>1. CASE t \in Inserted
    <3>1. PICK j \in 1 .. Len(bucket) : bucket[j].key = StreamAt[t]
          BY <1>1, <1>2, <2>1 DEF InternalInv
    <3>2. j # k
          BY <1>3, <3>1 DEF OwnStreams
    <3>3. CountOf(t) = bucket[j].count
          BY <1>2, <1>14, <2>1, <3>1 DEF Counts
    <3>4. j \in 1 .. Len(bucket') /\ t \in Inserted' /\ bucket'[j].key = StreamAt[t]
          BY <1>7, <1>8, <2>1, <3>1
    <3>5. CountOf(t)' = bucket'[j].count
          BY <1>10, <1>14, <3>4 DEF Counts
    <3> QED BY <1>8, <3>1, <3>2, <3>3, <3>5
  <2>2. CASE t \notin Inserted
        BY <1>2, <1>7, <1>10, <1>14, <2>2 DEF Counts
  <2> QED BY <2>1, <2>2
<1>17. CountsOnce(s)
       BY <1>2, <1>15, <1>16 DEF CountsOnce, Spilled
<1>18. Abs!Next
       BY <1>2, <1>17, AbsInsert
<1> QED BY <1>13, <1>18

(* s gets the next internal bucket.                                        *)
LEMMA InternalNewStep ==
  ASSUME OwnStreams, IInv, NEW s \in Stacks, InternalNew(s)
  PROVE  IInv' /\ Abs!Next
<1>1. /\ TypeOK /\ StreamsInv /\ InternalInv /\ IsFiniteSet(Inserted)
      BY DEF IInv
<1> DEFINE n == Len(bucket)
           new == [key |-> StreamAt[s], count |-> 1]
<1>2. /\ Called(s) /\ Matching(s, Memory(s)) = {}
      /\ bucket' = Append(bucket, new)
      /\ num_internal < NumInternal /\ num_internal' = num_internal + 1
      /\ map' = map /\ unique' = unique + 1 /\ aborted = FALSE /\ aborted' = FALSE
      BY <1>1 DEF InternalNew, Called, TypeOK
<1>3. /\ n \in Nat /\ num_internal = n /\ ~ Spilled /\ ~ Spilled'
      BY <1>1, <1>2, TableAssumption, LenProperties DEF TypeOK, Spilled
<1>b. /\ DOMAIN map = {} /\ unique = n /\ unique = Cardinality(Inserted)
      /\ \A i, j \in 1 .. n : bucket[i].key = bucket[j].key => i = j
      /\ \A t \in Inserted : \E i \in 1 .. n : bucket[i].key = StreamAt[t]
      BY <1>1, <1>2, <1>3 DEF InternalInv
<1>4. \A i \in 1 .. n : bucket[i].key # StreamAt[s]
      BY <1>1, <1>2, MatchingIs
<1>5. s \notin Inserted
      BY <1>b, <1>4
<1>6. /\ StreamsInv' /\ Inserted' = Inserted \cup {s}
      /\ IsFiniteSet(Inserted') /\ Cardinality(Inserted) \in Nat
      /\ Cardinality(Inserted') = Cardinality(Inserted) + 1
      BY <1>1, <1>2, <1>5, CalledStreams, CalledCount
<1>7. /\ Len(bucket') = n + 1
      /\ \A i \in 1 .. n : bucket'[i] = bucket[i]
      /\ bucket'[n + 1] = new
  <2>1. bucket \in Seq(Buckets(DOMAIN mem) \cup {new})
    <3>1. \A S, T : S \subseteq T => Seq(S) \subseteq Seq(T)
          OBVIOUS
    <3>2. bucket \in Seq(Buckets(DOMAIN mem))
          BY <1>1 DEF TypeOK, Buckets
    <3> HIDE DEF new
    <3> QED BY <3>1, <3>2
  <2> QED BY <1>2, <2>1, AppendProperties
<1>8. new.key = StreamAt[s] /\ new.count = 1
      OBVIOUS
<1> HIDE DEF n, new
<1>9. TypeOK'
      BY <1>1, InsertStepTyped
<1>10. InternalInv'
  <2>1. DOMAIN map' = {} /\ unique' = Len(bucket') /\ unique' = Cardinality(Inserted')
        BY <1>b, <1>2, <1>6, <1>7
  <2>2. \A i \in 1 .. n + 1 : i \in 1 .. n \/ i = n + 1
        BY <1>3
  <2>3. \A i, j \in 1 .. n + 1 : bucket'[i].key = bucket'[j].key => i = j
        BY <1>b, <1>4, <1>7, <1>8, <2>2
  <2>4. \A i \in 1 .. n : i \in 1 .. n + 1
        BY <1>3
  <2>5. n + 1 \in 1 .. n + 1
        BY <1>3
  <2>6. \A t \in Inserted' : \E i \in 1 .. n + 1 : bucket'[i].key = StreamAt[t]
        BY <1>b, <1>6, <1>7, <1>8, <2>4, <2>5
  <2> QED BY <1>7, <2>1, <2>3, <2>6 DEF InternalInv
<1>11. IndirectInv' /\ ~ aborted'
       BY <1>2, <1>3 DEF IndirectInv
<1>12. IInv'
       BY <1>6, <1>9, <1>10, <1>11 DEF IInv
<1>13. Counts /\ Counts'
       BY <1>2, <1>11, <1>12, LookupCounts, LookupCountsNext
<1>14. CountOf(s)' = CountOf(s) + 1
  <2>1. CountOf(s) = 0
        BY <1>3, <1>5, <1>13 DEF Counts
  <2>2. n + 1 \in 1 .. Len(bucket') /\ s \in Inserted'
        BY <1>3, <1>6, <1>7
  <2>3. CountOf(s)' = 1
        BY <1>3, <1>7, <1>8, <1>13, <2>2 DEF Counts
  <2> QED BY <2>1, <2>3
<1>15. ASSUME NEW t \in Stacks \ {s} PROVE CountOf(t)' = CountOf(t)
  <2>1. CASE t \in Inserted
    <3>1. PICK j \in 1 .. n : bucket[j].key = StreamAt[t]
          BY <1>b, <2>1
    <3>2. j \in 1 .. Len(bucket') /\ t \in Inserted'
          BY <1>3, <1>6, <1>7, <2>1
    <3>3. CountOf(t) = bucket[j].count
          BY <1>3, <1>13, <2>1, <3>1 DEF Counts, n
    <3>4. CountOf(t)' = bucket'[j].count
          BY <1>3, <1>7, <1>13, <3>1, <3>2 DEF Counts
    <3> QED BY <1>7, <3>1, <3>3, <3>4
  <2>2. CASE t \notin Inserted
        BY <1>3, <1>6, <1>13, <2>2 DEF Counts
  <2> QED BY <2>1, <2>2
<1>16. CountsOnce(s)
       BY <1>2, <1>3, <1>14, <1>15 DEF CountsOnce, Spilled
<1>17. Abs!Next
       BY <1>2, <1>16, AbsInsert
<1> QED BY <1>12, <1>17

(* The internal keys move to the buckets of their hashes, where every      *)
(* callstack is counted once.                                              *)
LEMMA SpillStep ==
  ASSUME OwnStreams, IInv, NEW s \in Stacks, Spill(s)
  PROVE  IInv' /\ Abs!Next
<1>1. /\ TypeOK /\ StreamsInv /\ InternalInv /\ IsFiniteSet(Inserted)
      BY DEF IInv
<1>0. Inserted \subseteq Stacks
      BY DEF Inserted
<1> DEFINE n == NumInternal
           m == Memory(s)
           D == DOMAIN mem'
           keys == [i \in 1 .. n |-> bucket[i].key]
           streams == Append(keys, StreamAt[s])
<1>2. /\ Called(s) /\ Matching(s, m) = {} /\ aborted = FALSE
      /\ num_internal = n /\ num_internal' = n + 1
      /\ HashInsertAll(streams, m) /\ bucket' = bucket
      BY <1>1 DEF Spill, Called, TypeOK
<1>3. /\ n \in Nat /\ Len(bucket) = n /\ ~ Spilled /\ Spilled'
      BY <1>1, <1>2, TableAssumption, LenProperties DEF TypeOK, Spilled
<1>4. \A i \in 1 .. n : bucket[i].key # StreamAt[s] /\ bucket[i].key \in DOMAIN mem
      BY <1>1, <1>2, <1>3, MatchingIs
<1>b. /\ DOMAIN map = {} /\ unique = n
      /\ \A i, j \in 1 .. n : bucket[i].key = bucket[j].key => i = j
      /\ \A t \in Inserted : \E i \in 1 .. n : bucket[i].key = StreamAt[t]
      BY <1>1, <1>2, <1>3 DEF InternalInv
<1>5. s \notin Inserted
      BY <1>b, <1>4
<1>6. StreamsInv' /\ Inserted' = Inserted \cup {s} /\ IsFiniteSet(Inserted')
      BY <1>1, <1>2, CalledStreams, CalledCount
<1>7. /\ streams = [i \in 1 .. n + 1 |-> streams[i]]
      /\ \A i \in 1 .. n : streams[i] = bucket[i].key
      /\ streams[n + 1] = StreamAt[s]
  <2>1. /\ keys = [i \in 1 .. n |-> keys[i]]
        /\ \A i \in 1 .. n : keys[i] = bucket[i].key
        OBVIOUS
  <2> HIDE DEF keys
  <2> QED BY <1>3, <2>1, AppendedKeys
<1>8. D = DOMAIN mem \cup {StreamAt[s]}
      BY <1>1, <1>2, CalledTyped
<1>9. TypeOK'
      BY <1>1, InsertStepTyped
<1>c. CountOf(s) = 0
      BY <1>2, <1>3, <1>5, CountedInserted
<1> HIDE DEF n, m, D, keys, streams
<1>10. PICK l \in Nat : l = n + 1
       BY <1>3
<1>11. /\ \A i \in 1 .. l : i \in 1 .. n \/ i = l
       /\ l \in 1 .. l /\ \A i \in 1 .. n : i \in 1 .. l
       BY <1>3, <1>10
<1>12. streams = [i \in 1 .. l |-> streams[i]] /\ streams[l] = StreamAt[s]
       BY <1>7, <1>10
<1>13. PICK V : V = Inserted'
       OBVIOUS
(* Every stream holds one of the stacks, and every stack is in one.        *)
<1>14. \A i \in 1 .. l : streams[i] \in D /\ \E v \in V : streams[i] = StreamAt[v]
  <2>1. \A b \in DOMAIN mem : \E v \in Inserted : b = StreamAt[v]
        BY <1>1 DEF StreamsInv
  <2>2. \A i \in 1 .. n : bucket[i].key \in D /\ \E v \in V : bucket[i].key = StreamAt[v]
        BY <1>4, <1>6, <1>8, <1>13, <2>1
  <2>3. StreamAt[s] \in D /\ \E v \in V : StreamAt[s] = StreamAt[v]
        BY <1>6, <1>8, <1>13
  <2>4. \A i \in 1 .. n : streams[i] \in D /\ \E v \in V : streams[i] = StreamAt[v]
        BY <1>7, <2>2
  <2> QED BY <1>11, <1>12, <2>3, <2>4
<1>15. Reached(V, streams, l) = V
  <2>1. \A v \in Inserted : \E i \in 1 .. n : streams[i] = StreamAt[v]
    <3> TAKE v \in Inserted
    <3>1. PICK i \in 1 .. n : bucket[i].key = StreamAt[v]
          BY <1>b
    <3>2. streams[i] = StreamAt[v]
          BY <1>7, <3>1
    <3> QED BY <3>2
  <2>2. \A v \in V : \E i \in 1 .. l : streams[i] = StreamAt[v]
        BY <1>6, <1>11, <1>12, <1>13, <2>1
  <2> QED BY <2>2 DEF Reached
<1>16. \A i, j \in 1 .. l : streams[i] = streams[j] => i = j
  <2>1. \A i, j \in 1 .. n : streams[i] = streams[j] => i = j
        BY <1>b, <1>7
  <2>2. \A i \in 1 .. n : streams[i] # streams[l]
        BY <1>4, <1>7, <1>12
  <2> TAKE i, j \in 1 .. l
  <2>3. CASE i \in 1 .. n /\ j \in 1 .. n
        BY <2>1, <2>3
  <2>4. CASE i = l \/ j = l
        BY <1>11, <2>2, <2>4
  <2> QED BY <1>11, <2>3, <2>4
<1>17. V \in SUBSET Stacks /\ IsFiniteSet(V) /\ HoldIn(m, V)
  <2>1. \A v \in Inserted' : m[StreamAt[v]] = v
        BY <1>1, <1>6, StreamsHold DEF m
  <2> QED BY <1>0, <1>6, <1>13, <2>1 DEF HoldIn
<1>18. PICK g : /\ g[0] = Table
                /\ Steps(g, streams, m, l)
                /\ map' = g[l].map /\ unique' = g[l].unique
                /\ aborted' = ~ g[l].ok
       BY <1>2, <1>12, InsertSteps DEF m
<1>19. /\ Well(g[0], D) /\ g[0].ok /\ DOMAIN g[0].map = {}
       /\ g[0].unique = NumInternal
  <2>1. Well(Table, D)
        BY <1>1, <1>8, TableWell
  <2> QED BY <1>b, <1>18, <2>1 DEF Table, n
<1>20. PICK r : r = g[l]
       OBVIOUS
<1>21. Holds(r, V) /\ (r.ok => Once(r.map, V))
  <2>1. Holds(g[l], V) /\ (g[l].ok => Once(g[l].map, V))
        BY <1>14, <1>15, <1>16, <1>17, <1>18, <1>19, InsertsOnce
  <2> QED BY <1>20, <2>1
<1>22. map' = r.map /\ unique' = r.unique /\ aborted' = ~ r.ok
       BY <1>18, <1>20
<1>23. InternalInv'
       BY <1>3 DEF InternalInv
<1>24. CASE r.ok
  <2>1. aborted' = FALSE
        BY <1>22, <1>24
  <2>2. IndirectInv'
    <3>1. Indirect(r, V)
          BY <1>21, <1>24 DEF Holds
    <3> QED BY <1>13, <1>22, <3>1 DEF IndirectInv, Indirect, Table, Keyed, KeysOf
  <2>3. IInv'
        BY <1>6, <1>9, <1>23, <2>1, <2>2 DEF IInv
  <2>4. Counts'
        BY <2>1, <2>3, LookupCountsNext
  <2>5. ASSUME NEW t \in Stacks
        PROVE  CountOf(t)' = Cardinality({u \in Stacks : /\ u = s \/ CountOf(u) > 0
                                                         /\ Hash[u] = Hash[t]})
    <3>1. \A u \in Stacks : (u = s \/ CountOf(u) > 0) <=> u \in V
      <4>1. \A u \in Stacks : IF u \in Inserted THEN CountOf(u) > 0 ELSE CountOf(u) = 0
            BY <1>2, <1>3, CountedInserted
      <4> QED BY <1>6, <1>13, <4>1
    <3>2. {u \in Stacks : (u = s \/ CountOf(u) > 0) /\ Hash[u] = Hash[t]}
            = OfHash(V, Hash[t])
          BY <1>17, <3>1 DEF OfHash
    <3>3. CountOf(t)' = IF Hash[t] \in DOMAIN r.map THEN r.map[Hash[t]].count ELSE 0
          BY <1>3, <1>22, <2>4 DEF Counts
    <3>4. CASE Hash[t] \in DOMAIN r.map
      <4>1. r.map[Hash[t]].count = Cardinality(OfHash(V, Hash[t]))
            BY <1>21, <1>24, <3>4 DEF Once
      <4> QED BY <3>2, <3>3, <3>4, <4>1
    <3>5. CASE Hash[t] \notin DOMAIN r.map
      <4>1. OfHash(V, Hash[t]) = {}
            BY <1>21, <1>24, <3>5 DEF Holds, Indirect, Keyed, OfHash
      <4> QED BY <3>2, <3>3, <3>5, <4>1, FS_EmptySet
    <3> QED BY <3>4, <3>5
  <2>6. Abs!Next
        BY <1>2, <1>3, <1>c, <2>1, <2>5, AbsSpill
  <2> QED BY <2>3, <2>6
<1>25. CASE ~ r.ok
  <2>1. aborted' = TRUE
        BY <1>22, <1>25
  <2>2. Collision(Inserted')
        BY <1>13, <1>21, <1>25 DEF Holds
  <2>3. IndirectInv'
        BY <2>1 DEF IndirectInv
  <2>4. Collision(Inserted)'
        BY <2>2 DEF Collision
  <2>5. IInv'
        BY <1>3, <1>6, <1>9, <1>23, <2>3, <2>4 DEF IInv
  <2>6. Abs!Next
        BY <1>2, <1>3, <1>c, <2>1, <2>2, AbsFail
  <2> QED BY <2>5, <2>6
<1> QED BY <1>24, <1>25

(* s is counted in the bucket of its hash, which is made if there is none. *)
LEMMA IndirectInsertStep ==
  ASSUME OwnStreams, IInv, NEW s \in Stacks, IndirectInsert(s)
  PROVE  IInv' /\ Abs!Next
<1>0. Inserted \subseteq Stacks
      BY DEF Inserted
<1> DEFINE m == Memory(s)
           D == DOMAIN mem'
           a == StreamAt[s]
           streams == <<a>>
<1>1. /\ TypeOK /\ StreamsInv /\ IsFiniteSet(Inserted)
      BY DEF IInv
<1>2. /\ Called(s) /\ Spilled /\ Spilled' /\ aborted = FALSE
      /\ HashInsertAll(streams, m)
      BY <1>1 DEF IndirectInsert, Called, Spilled, TypeOK
<1>3. /\ streams = [i \in 1 .. 1 |-> streams[i]] /\ streams[1] = a
      OBVIOUS
<1>4. D = DOMAIN mem \cup {a}
      BY <1>1, <1>2, CalledTyped
<1>5. StreamsInv' /\ Inserted' = Inserted \cup {s} /\ IsFiniteSet(Inserted')
      BY <1>1, <1>2, CalledStreams, CalledCount
<1>6. TypeOK'
      BY <1>1, InsertStepTyped
<1>7. HoldIn(m, Inserted \cup {s})
      BY <1>1, StreamsHold DEF HoldIn
<1> HIDE DEF m, D, streams, a
<1>8. PICK g :
        /\ g[0] = Table
        /\ Steps(g, streams, m, 1)
        /\ map' = g[1].map /\ unique' = g[1].unique /\ aborted' = ~ g[1].ok
  <2>1. 1 \in Nat
        OBVIOUS
  <2> QED BY <1>2, <1>3, <2>1, InsertSteps
<1>9. PICK t, r, U : t = Table /\ r = g[1] /\ U = Inserted
      OBVIOUS
<1>10. r = Insert(t, StreamAt[s], m)
  <2>1. 1 \in 1 .. 1 /\ 1 - 1 = 0
        OBVIOUS
  <2> QED BY <1>3, <1>8, <1>9, <2>1 DEF Steps, a
<1>11. Well(t, D) /\ StreamAt[s] \in D /\ t.ok /\ t.map = map
  <2>1. Well(Table, D)
        BY <1>1, <1>4, TableWell
  <2> QED BY <1>4, <1>9, <2>1 DEF Table, a
<1>12. U \in SUBSET Stacks /\ Indirect(t, U) /\ HoldIn(m, U \cup {s})
       BY <1>0, <1>2, <1>7, <1>9 DEF IInv, IndirectInv
<1>13. map' = r.map /\ unique' = r.unique /\ aborted' = ~ r.ok /\ Inserted' = U \cup {s}
       BY <1>5, <1>8, <1>9
<1>14. Holds(r, U \cup {s})
       BY <1>10, <1>11, <1>12, InsertKeyed
<1>15. r.ok => Fresh(t, r, s) \/ Again(t, r, s)
       BY <1>10, <1>11, <1>12, InsertDoes
<1>16. InternalInv'
       BY <1>2 DEF InternalInv
<1>17. CASE r.ok
  <2>1. aborted' = FALSE
        BY <1>13, <1>17
  <2>2. IndirectInv'
    <3>1. Indirect(r, U \cup {s})
          BY <1>14, <1>17 DEF Holds
    <3> QED BY <1>13, <3>1 DEF IndirectInv, Indirect, Table, Keyed, KeysOf
  <2>3. IInv'
        BY <1>5, <1>6, <1>16, <2>1, <2>2 DEF IInv
  <2>4. Counts /\ Counts'
        BY <1>2, <2>1, <2>3, LookupCounts, LookupCountsNext
  <2> DEFINE x == t.map
             y == r.map
             h == Hash[s]
             In(z, k) == IF k \in DOMAIN z THEN z[k].count ELSE 0
  <2>5. \A u \in Stacks : CountOf(u) = In(x, Hash[u]) /\ CountOf(u)' = In(y, Hash[u])
        BY <1>2, <1>11, <1>13, <2>4 DEF Counts
  <2>6. \A k : In(y, k) = IF k = h THEN In(x, k) + 1 ELSE In(x, k)
    <3> TAKE k
    <3>1. CASE Fresh(t, r, s)
      <4>1. /\ h \notin DOMAIN x /\ DOMAIN y = DOMAIN x \cup {h} /\ y[h].count = 1
            /\ \A l \in DOMAIN x : y[l] = x[l]
            BY <3>1 DEF Fresh
      <4> HIDE DEF x, y, h
      <4> QED BY <4>1
    <3>2. CASE Again(t, r, s)
      <4>1. /\ h \in DOMAIN x /\ DOMAIN y = DOMAIN x
            /\ \A l \in DOMAIN x :
                 y[l].count = IF l = h THEN x[l].count + 1 ELSE x[l].count
            BY <3>2 DEF Again
      <4> HIDE DEF x, y, h
      <4> QED BY <4>1
    <3> QED BY <1>15, <1>17, <3>1, <3>2
  <2> HIDE DEF In, x, y
  <2>7. \A u \in Stacks :
          CountOf(u)' = IF u = s \/ (Spilled /\ Hash[u] = Hash[s])
                        THEN CountOf(u) + 1 ELSE CountOf(u)
    <3> TAKE u \in Stacks
    <3>1. CountOf(u)' = IF Hash[u] = Hash[s] THEN CountOf(u) + 1 ELSE CountOf(u)
          BY <2>5, <2>6
    <3> QED BY <1>2, <3>1
  <2>8. CountsOnce(s)
        BY <1>2, <2>1, <2>7 DEF CountsOnce
  <2>9. Abs!Next
        BY <1>2, <2>8, AbsInsert
  <2> QED BY <2>3, <2>9
<1>18. CASE ~ r.ok
  <2>1. aborted' = TRUE
        BY <1>13, <1>18
  <2>2. Collision(Inserted')
        BY <1>13, <1>14, <1>18 DEF Holds
  <2>3. IndirectInv'
        BY <2>1 DEF IndirectInv
  <2>4. Collision(Inserted)'
        BY <2>2 DEF Collision
  <2>5. IInv'
        BY <1>2, <1>5, <1>6, <1>16, <2>3, <2>4 DEF IInv
  <2>6. Abs!Next
        BY <1>2, <2>1, <2>2, AbsFail
  <2> QED BY <2>5, <2>6
<1> QED BY <1>17, <1>18

-----------------------------------------------------------------------------
(* The theorems.                                                           *)

(* alloc_table() returns a table that has counted nothing.                 *)
LEMMA InitStep ==
  ASSUME OwnStreams, Init
  PROVE  IInv /\ Abs!Init
<1>1. /\ DOMAIN mem = {} /\ bucket = <<>> /\ DOMAIN map = {}
      /\ num_internal = 0 /\ unique = 0 /\ hits = 0 /\ aborted = FALSE
      /\ inserts = [s \in Stacks |-> 0]
      BY DEF Init
<1>2. Inserted = {} /\ ~ Spilled /\ Spilled = FALSE
      BY <1>1, TableAssumption DEF Inserted, Spilled
<1>3. TypeOK
      BY InitTyped
<1>4. StreamsInv
      BY <1>1, <1>2 DEF StreamsInv
<1>5. IsFiniteSet(Inserted) /\ Cardinality(Inserted) = 0
      BY <1>2, FS_EmptySet
<1>6. InternalInv /\ IndirectInv
  <2>1. Len(bucket) = 0 /\ 1 .. 0 = {}
        BY <1>1
  <2> QED BY <1>1, <1>2, <1>5, <2>1 DEF InternalInv, IndirectInv
<1>7. IInv
      BY <1>1, <1>3, <1>4, <1>5, <1>6 DEF IInv
<1>8. \A s \in Stacks : CountOf(s) = 0
      BY <1>1, <1>2, <1>7, LookupCounts DEF Counts
<1>9. Abs!Init
      BY <1>1, <1>2, <1>8 DEF Abs!Init
<1> QED BY <1>7, <1>9

(* Every call of hash_insert() keeps the invariant and is a step of the    *)
(* table of counts.                                                        *)
LEMMA NextStep ==
  ASSUME OwnStreams, IInv, Next
  PROVE  IInv' /\ Abs!Next
BY InternalHitStep, InternalNewStep, SpillStep, IndirectInsertStep DEF Next

(* The buckets are those of the inserted callstacks, internal before the   *)
(* spill and indirect after it, until two callstacks collide.              *)
THEOREM IInvAlways ==
  ASSUME OwnStreams
  PROVE  Spec => []IInv
<1>1. Init => IInv
      BY InitStep
<1>2. IInv /\ [Next]_vars => IInv'
  <2>1. ASSUME IInv, UNCHANGED vars PROVE IInv'
    <3>1. /\ Inserted' = Inserted /\ Spilled' = Spilled
          /\ mem' = mem /\ bucket' = bucket /\ map' = map /\ unique' = unique
          /\ hits' = hits /\ aborted' = aborted
          BY <2>1 DEF vars, Inserted, Spilled
    <3>2. TypeOK'
          BY <2>1 DEF IInv, TypeOK, vars, Spilled
    <3>3. StreamsInv' /\ InternalInv'
          BY <2>1, <3>1 DEF IInv, StreamsInv, InternalInv
    <3>4. IndirectInv'
          BY <2>1, <3>1 DEF IInv, IndirectInv, Indirect, Table, Keyed, KeysOf
    <3> QED BY <2>1, <3>1, <3>2, <3>3, <3>4 DEF IInv, Collision
  <2> QED BY <2>1, NextStep
<1> QED BY <1>1, <1>2, PTL DEF Spec

(* The assertion of __hash_insert() fails only if two callstacks have the  *)
(* same hash.                                                              *)
THEOREM OnlyCollisionsAbort ==
  ASSUME OwnStreams
  PROVE  Spec => []AbortsByCollision
<1>1. ASSUME IInv PROVE AbortsByCollision
      BY <1>1 DEF IInv, Collision, AbortsByCollision, HashOf
<1> QED BY <1>1, IInvAlways, PTL

(* After the spill, the bucket that hash_lookup() follows for a callstack  *)
(* is there, and its key starts with the callstack.                        *)
THEOREM SharedBucketsNest ==
  ASSUME OwnStreams
  PROVE  Spec => []SharedAreNested
<1>1. ASSUME IInv PROVE SharedAreNested
  <2> SUFFICES ASSUME Spilled, ~ aborted, NEW s \in Inserted
               PROVE  BucketIsThere(s) /\ IsPrefix(s, mem[map[HashOf(s)].key])
      BY DEF SharedAreNested
  <2>0. Keyed(map, Inserted)
        BY <1>1 DEF IInv, IndirectInv, Indirect, Table
  <2>1. Hash[s] \in DOMAIN map
        BY <2>0 DEF Keyed
  <2>2. PICK v \in Inserted : map[Hash[s]].key = StreamAt[v] /\ IsPrefix(s, v)
        BY <2>0 DEF Keyed
  <2>3. mem[StreamAt[v]] = v
    <3>1. v \in Stacks
          BY DEF Inserted
    <3> QED BY <1>1, <3>1, StreamsHold DEF IInv
  <2> QED BY <2>1, <2>2, <2>3 DEF BucketIsThere, HashOf
<1> QED BY <1>1, IInvAlways, PTL

(* The number that hash_stats() prints as that of the unique entries is    *)
(* the number of different callstacks until the spill; from then on it is  *)
(* that of their hashes, and the callstacks that were internal are counted *)
(* a second time.                                                          *)
UniqueAtSpill ==
  ~ aborted => unique = IF Spilled
                        THEN NumInternal + Cardinality({HashOf(s) : s \in Inserted})
                        ELSE Cardinality(Inserted)

(* unique is what UniqueAtSpill says after every insertion.                *)
THEOREM UniqueCountsTwice ==
  ASSUME OwnStreams
  PROVE  Spec => []UniqueAtSpill
<1>1. ASSUME IInv PROVE UniqueAtSpill
  <2> SUFFICES ASSUME ~ aborted PROVE UniqueAtSpill
      BY DEF UniqueAtSpill
  <2>1. CASE Spilled
    <3>1. /\ Keyed(map, Inserted) /\ KeysOf(map, Inserted)
          /\ unique = NumInternal + Cardinality(DOMAIN map)
          BY <1>1, <2>1 DEF IInv, IndirectInv, Indirect, Table
    <3>2. DOMAIN map = {HashOf(s) : s \in Inserted}
      <4>1. \A h \in DOMAIN map : \E s \in Inserted : h = HashOf(s)
            BY <3>1 DEF KeysOf, HashOf
      <4>2. \A s \in Inserted : HashOf(s) \in DOMAIN map
            BY <3>1 DEF Keyed, HashOf
      <4> QED BY <4>1, <4>2
    <3> QED BY <2>1, <3>1, <3>2 DEF UniqueAtSpill
  <2>2. CASE ~ Spilled
        BY <1>1, <2>2 DEF IInv, InternalInv, UniqueAtSpill
  <2> QED BY <2>1, <2>2
<1> QED BY <1>1, IInvAlways, PTL

(* The table implements counts that are forgotten once, at the spill, and  *)
(* that callstacks with the same hash share from then on.                  *)
THEOREM TableImplementsCounts ==
  ASSUME OwnStreams
  PROVE  Spec => ImplementsHashCounts
<1>1. Init => Abs!Init
      BY InitStep
<1>2. IInv /\ [Next]_vars =>
        [Abs!Next]_<<[s \in Stacks |-> IF aborted THEN 0 ELSE CountOf(s)],
                     Spilled, aborted, inserts>>
  <2>1. ASSUME UNCHANGED vars
        PROVE  UNCHANGED <<[s \in Stacks |-> IF aborted THEN 0 ELSE CountOf(s)],
                           Spilled, aborted, inserts>>
        BY <2>1 DEF vars, CountOf, Spilled, BucketIsThere, Matching
  <2> QED BY <2>1, NextStep
<1> QED BY <1>1, <1>2, IInvAlways, PTL DEF Spec, ImplementsHashCounts, Abs!Spec

=============================================================================
