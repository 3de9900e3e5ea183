--------------------------- MODULE CallchainProofs ---------------------------
(***************************************************************************)
(* The callchain tree is right for every set of callchains, every set of   *)
(* periods and any number of failed allocations.                           *)
(*                                                                         *)
(* The first part is about the nodes of a callchain tree as a value: what  *)
(* a well-formed tree is, that its paths are well defined and different,   *)
(* and that adding a leaf and splitting a node keep a tree well formed.    *)
(***************************************************************************)
EXTENDS Callchain, SumLemmas, SequenceTheorems

Fields(domain) ==
  [parent : domain, val : Seq(Entries), count : Nat, children_count : Nat,
   hit : Nat, children_hit : Nat]

(* path maps every node of N to the entries from the root to it.           *)
IsPath(path, N) ==
  /\ path \in [DOMAIN N -> Seq(Entries)]
  /\ path[Root] = <<>>
  /\ \A n \in DOMAIN N \ {Root} : path[n] = path[N[n].parent] \o N[n].val

Numbered(N) == \E last \in Nat : DOMAIN N = 0 .. last

Typed(N) ==
  \A n \in DOMAIN N :
    N[n] \in Fields(DOMAIN N) /\ (N[n].val = <<>> <=> n = Root)

SiblingsApart(N) ==
  \A c, d \in DOMAIN N \ {Root} :
    N[c].parent = N[d].parent /\ N[c].val[1] = N[d].val[1] => c = d

Forest(N) ==
  /\ Numbered(N)
  /\ Typed(N)
  /\ SiblingsApart(N)
  /\ \E path : IsPath(path, N)

(* Runs of entries may be joined in either order.                          *)
LEMMA Regroup ==
  \A a, b, c \in Seq(Entries) : (a \o b) \o c = a \o (b \o c)
<1> SUFFICES ASSUME NEW a \in Seq(Entries), NEW b \in Seq(Entries), NEW c \in Seq(Entries)
             PROVE  (a \o b) \o c = a \o (b \o c)
    OBVIOUS
<1> QED BY ConcatAssociative

(* The recursion of PathOf, and what it chooses.                           *)
Follows(path, N) ==
  path = [n \in DOMAIN N |->
            IF n = Root THEN <<>> ELSE path[N[n].parent] \o N[n].val]

PathIn(N) == CHOOSE path : Follows(path, N)

-----------------------------------------------------------------------------

(* The fields of a well-formed node, one by one.                           *)
LEMMA NodeFields ==
  ASSUME NEW N, Numbered(N), Typed(N)
  PROVE  /\ Root \in DOMAIN N
         /\ N[Root].val = <<>>
         /\ \A n \in DOMAIN N :
              /\ n \in Nat
              /\ N[n].parent \in DOMAIN N
              /\ N[n].val \in Seq(Entries)
              /\ Len(N[n].val) \in Nat
              /\ n # Root => N[n].val # <<>> /\ Len(N[n].val) > 0
              /\ N[n].count \in Nat /\ N[n].children_count \in Nat
              /\ N[n].hit \in Nat /\ N[n].children_hit \in Nat
<1>1. Root \in DOMAIN N /\ \A n \in DOMAIN N : n \in Nat
      BY DEF Numbered, Root
<1>2. \A n \in DOMAIN N : N[n] \in Fields(DOMAIN N)
                          /\ (N[n].val = <<>> <=> n = Root)
      BY DEF Typed
<1>3. \A n \in DOMAIN N : N[n].val \in Seq(Entries)
      BY <1>2 DEF Fields
<1>4. \A n \in DOMAIN N : Len(N[n].val) \in Nat
                          /\ (n # Root => Len(N[n].val) > 0)
      BY <1>2, <1>3, LenProperties, EmptySeq
<1> QED BY <1>1, <1>2, <1>3, <1>4 DEF Fields

(* The path to a node goes on where the path to its parent ends.           *)
LEMMA PathStep ==
  ASSUME NEW N, Numbered(N), Typed(N), NEW P, IsPath(P, N),
         NEW n \in DOMAIN N \ {Root}
  PROVE  /\ P[n] \in Seq(Entries) /\ P[N[n].parent] \in Seq(Entries)
         /\ Len(P[N[n].parent]) \in Nat /\ Len(P[n]) \in Nat
         /\ P[n] = P[N[n].parent] \o N[n].val
         /\ Len(P[n]) = Len(P[N[n].parent]) + Len(N[n].val)
         /\ Len(P[n]) > Len(P[N[n].parent])
<1> DEFINE up == P[N[n].parent]
           val == N[n].val
<1>1. /\ up \in Seq(Entries) /\ val \in Seq(Entries) /\ P[n] \in Seq(Entries)
      /\ P[n] = up \o val
      /\ Len(val) \in Nat /\ Len(val) > 0
      BY NodeFields DEF IsPath
<1>2. Len(up) \in Nat /\ Len(P[n]) \in Nat
      BY <1>1, LenProperties
<1>3. /\ Len(up \o val) = Len(up) + Len(val)
      /\ \A i \in 1 .. Len(up) + Len(val) :
           (up \o val)[i] = IF i <= Len(up) THEN up[i] ELSE val[i - Len(up)]
      BY <1>1, ConcatProperties
<1>6. N[n].parent \in DOMAIN N
      BY NodeFields
<1> HIDE DEF up, val
<1>7. Len(P[n]) = Len(up) + Len(val) /\ Len(P[n]) > Len(up)
      BY <1>1, <1>2, <1>3
<1> QED BY <1>1, <1>2, <1>7, Zenon DEF up, val

(* What PathStep says of single entries.                                   *)
LEMMA PathStart ==
  ASSUME NEW N, Forest(N), NEW P, IsPath(P, N), NEW n \in DOMAIN N \ {Root}
  PROVE  /\ Len(P[N[n].parent]) < Len(P[n])
         /\ \A i \in 1 .. Len(P[N[n].parent]) : P[n][i] = P[N[n].parent][i]
         /\ P[n][Len(P[N[n].parent]) + 1] = N[n].val[1]
<1> DEFINE up == P[N[n].parent]
           val == N[n].val
<1>0. Numbered(N) /\ Typed(N)
      BY DEF Forest
<1>1. /\ up \in Seq(Entries) /\ val \in Seq(Entries)
      /\ P[n] = up \o val
      /\ Len(val) \in Nat /\ Len(val) > 0
      BY <1>0, NodeFields DEF IsPath
<1> HIDE DEF up, val
<1>2. Len(up) \in Nat
      BY <1>1, LenProperties
<1>3. /\ Len(up \o val) = Len(up) + Len(val)
      /\ \A i \in 1 .. Len(up) + Len(val) :
           (up \o val)[i] = IF i <= Len(up) THEN up[i] ELSE val[i - Len(up)]
      BY <1>1, ConcatProperties
<1>4. \A i \in 1 .. Len(up) : (up \o val)[i] = up[i]
      BY <1>1, <1>2, <1>3
<1>5. (up \o val)[Len(up) + 1] = val[1]
      BY <1>1, <1>2, <1>3
<1>6. /\ Len(P[n]) > Len(up)
      /\ \A i \in 1 .. Len(up) : P[n][i] = up[i]
      /\ P[n][Len(up) + 1] = val[1]
      BY <1>1, <1>2, <1>3, <1>4, <1>5
<1> QED BY <1>2, <1>6 DEF up, val

(* The paths are determined by the parents and the entries of the nodes.   *)
LEMMA PathUnique ==
  ASSUME NEW N, Numbered(N), Typed(N), NEW P, IsPath(P, N), NEW Q, Follows(Q, N)
  PROVE  Q = P
<1> DEFINE Wrong == {n \in DOMAIN N : Q[n] # P[n]}
           Lengths == {Len(P[n]) : n \in Wrong}
<1>1. \A n \in DOMAIN N : Len(P[n]) \in Nat
      BY LenProperties DEF IsPath
<1>2. ASSUME Wrong # {} PROVE FALSE
  <2>1. Lengths \in SUBSET Nat /\ Lengths # {}
        BY <1>1, <1>2
  <2>2. PICK k \in Lengths : \A l \in Lengths : k <= l
        BY <2>1, LeastNatural
  <2>3. PICK n \in Wrong : k = Len(P[n])
        BY <2>2
  <2>4. n \in DOMAIN N \ {Root}
        BY <2>3 DEF IsPath, Follows
  <2> DEFINE p == N[n].parent
  <2>5. p \in DOMAIN N
        BY <2>4, NodeFields
  <2>6. /\ P[n] = P[p] \o N[n].val
        /\ Len(P[n]) > Len(P[p])
    <3> HIDE DEF Wrong, Lengths
    <3> QED BY <2>4, PathStep
  <2>7. p \notin Wrong
    <3> SUFFICES ASSUME p \in Wrong PROVE FALSE
        OBVIOUS
    <3>0. Len(P[n]) > Len(P[p])
          BY <2>6
    <3>1. Len(P[p]) \in Lengths
          OBVIOUS
    <3>2. Len(P[n]) <= Len(P[p])
          BY <2>2, <2>3, <3>1
    <3>3. Len(P[n]) \in Nat /\ Len(P[p]) \in Nat
          BY <1>1, <2>4, <2>5
    <3> HIDE DEF p
    <3> QED BY <3>0, <3>2, <3>3
  <2>8. Q[n] = Q[p] \o N[n].val
        BY <2>4 DEF Follows
  <2>9. Q[p] = P[p]
        BY <2>5, <2>7
  <2> QED BY <2>3, <2>6, <2>8, <2>9
<1>3. \A n \in DOMAIN N : Q[n] = P[n]
      BY <1>2
<1>4. P = [n \in DOMAIN N |-> P[n]] /\ Q = [n \in DOMAIN N |-> Q[n]]
      BY DEF IsPath, Follows
<1> QED BY <1>3, <1>4

(* A path function solves the recursion of PathOf.                         *)
LEMMA PathFollows ==
  ASSUME NEW N, NEW P, IsPath(P, N)
  PROVE  Follows(P, N)
BY DEF IsPath, Follows

(* In a well-formed tree PathIn() is a path function ...                   *)
LEMMA PathInIsPath ==
  ASSUME NEW N, Forest(N)
  PROVE  IsPath(PathIn(N), N)
<1>1. PICK P : IsPath(P, N)
      BY DEF Forest
<1>2. Follows(PathIn(N), N)
      BY <1>1, PathFollows DEF PathIn
<1> QED BY <1>1, <1>2, PathUnique DEF Forest

(* ... and the only one.                                                   *)
LEMMA PathInOnly ==
  ASSUME NEW N, Forest(N), NEW P, IsPath(P, N)
  PROVE  PathIn(N) = P
<1>1. Follows(PathIn(N), N)
      BY PathInIsPath, PathFollows
<1> QED BY <1>1, PathUnique DEF Forest

-----------------------------------------------------------------------------
(* Two nodes whose paths agree as far as an entry that both hold are one:  *)
(* their ancestors hold the entry before, and siblings start with          *)
(* different entries.                                                      *)

Holds(P, N, n, k) ==
  n \in DOMAIN N \ {Root} /\ Len(P[N[n].parent]) < k /\ k <= Len(P[n])

Agree(P, m, n, k) == \A i \in 1 .. k : P[m][i] = P[n][i]

(* The holder of an entry is determined by the entries down to it.         *)
LEMMA HolderUnique ==
  ASSUME NEW N, Forest(N), NEW P, IsPath(P, N)
  PROVE  \A k \in Nat : \A m, n \in DOMAIN N :
           Holds(P, N, m, k) /\ Holds(P, N, n, k) /\ Agree(P, m, n, k) => m = n
<1>a. \A a \in DOMAIN N \ {Root} :
         /\ Len(P[N[a].parent]) < Len(P[a])
         /\ \A i \in 1 .. Len(P[N[a].parent]) : P[a][i] = P[N[a].parent][i]
         /\ P[a][Len(P[N[a].parent]) + 1] = N[a].val[1]
      BY PathStart
<1> DEFINE Good == {k \in Nat : \A m, n \in DOMAIN N :
             Holds(P, N, m, k) /\ Holds(P, N, n, k) /\ Agree(P, m, n, k) => m = n}
<1>0. Numbered(N) /\ Typed(N) /\ SiblingsApart(N)
      BY DEF Forest
<1>1. \A n \in DOMAIN N : Len(P[n]) \in Nat
      BY LenProperties DEF IsPath
<1>2. 0 \in Good
  <2>1. \A n \in DOMAIN N : ~ Holds(P, N, n, 0)
        BY <1>0, <1>1, NodeFields DEF Holds
  <2> QED BY <2>1
<1>3. ASSUME NEW k \in Nat, k \in Good
      PROVE  k + 1 \in Good
  <2> SUFFICES ASSUME NEW m \in DOMAIN N, NEW n \in DOMAIN N,
                      Holds(P, N, m, k + 1), Holds(P, N, n, k + 1),
                      Agree(P, m, n, k + 1)
               PROVE  m = n
      OBVIOUS
  <2>2. \A a, b \in DOMAIN N :
          Holds(P, N, a, k) /\ Holds(P, N, b, k) /\ Agree(P, a, b, k) => a = b
        BY <1>3
  <2> HIDE DEF Good
  <2>0. \A a \in DOMAIN N : N[a].parent \in DOMAIN N
        BY <1>0, NodeFields
  <2> DEFINE q == N[m].parent
             p == N[n].parent
  <2>1. /\ m # Root /\ n # Root
        /\ Len(P[q]) <= k /\ Len(P[p]) <= k
        /\ k < Len(P[m]) /\ k < Len(P[n])
        /\ q \in DOMAIN N /\ p \in DOMAIN N
        BY <1>1, <2>0 DEF Holds
  <2>3. ASSUME NEW a \in DOMAIN N, a # Root
        PROVE  /\ Len(P[N[a].parent]) < Len(P[a])
               /\ \A i \in 1 .. Len(P[N[a].parent]) : P[a][i] = P[N[a].parent][i]
               /\ P[a][Len(P[N[a].parent]) + 1] = N[a].val[1]
    <3>1. a \in DOMAIN N \ {Root}
          BY <2>3
    <3> QED BY <1>a, <3>1, Zenon
  <2>4. Agree(P, m, n, k)
        BY DEF Agree
  <2>5. ASSUME NEW a \in DOMAIN N, Len(P[a]) = k
        PROVE  (a = Root /\ k = 0) \/ Holds(P, N, a, k)
    <3>1. CASE a = Root
          BY <2>5, <3>1, EmptySeq DEF IsPath
    <3>2. CASE a # Root
          BY <2>3, <2>5, <3>2 DEF Holds
    <3> QED BY <3>1, <3>2
  <2>6. CASE Len(P[q]) = k /\ Len(P[p]) = k
    <3>1. q = p
      <4>1. Agree(P, q, p, k)
            BY <2>1, <2>3, <2>4, <2>6 DEF Agree
      <4>2. CASE k = 0
        <5>1. ~ Holds(P, N, q, 0) /\ ~ Holds(P, N, p, 0)
              BY <1>1, <2>0 DEF Holds
        <5> QED BY <2>1, <2>5, <2>6, <4>2, <5>1
      <4>3. CASE k # 0
            BY <2>1, <2>2, <2>5, <2>6, <4>1, <4>3
      <4> QED BY <4>2, <4>3
    <3>2. N[m].val[1] = P[m][k + 1] /\ N[n].val[1] = P[n][k + 1]
          BY <2>1, <2>3, <2>6
    <3>3. P[m][k + 1] = P[n][k + 1]
          BY DEF Agree
    <3> QED BY <1>0, <2>1, <3>1, <3>2, <3>3 DEF SiblingsApart
  <2>7. CASE Len(P[q]) < k /\ Len(P[p]) < k
    <3>1. Holds(P, N, m, k) /\ Holds(P, N, n, k)
          BY <1>1, <2>1, <2>7 DEF Holds
    <3> QED BY <2>2, <2>4, <3>1
  <2>8. ASSUME NEW a \in DOMAIN N, NEW b \in DOMAIN N, Agree(P, a, b, k),
               a # Root, b # Root, k < Len(P[a]), k < Len(P[b]),
               Len(P[N[a].parent]) = k, Len(P[N[b].parent]) < k
        PROVE  FALSE
    <3> DEFINE c == N[a].parent
    <3>1. c \in DOMAIN N
          BY <2>0
    <3>0. k # 0
          BY <1>1, <2>0, <2>8
    <3>2. Holds(P, N, c, k)
          BY <2>5, <2>8, <3>0, <3>1
    <3>3. Holds(P, N, b, k)
          BY <1>1, <2>8 DEF Holds
    <3>4. \A i \in 1 .. k : P[a][i] = P[c][i]
          BY <2>3, <2>8
    <3>5. Agree(P, c, b, k)
          BY <2>8, <3>4 DEF Agree
    <3>6. c = b
          BY <2>2, <3>1, <3>2, <3>3, <3>5
    <3> QED BY <2>8, <3>6, <1>1
  <2>9. Agree(P, n, m, k)
        BY <2>4 DEF Agree
  <2>10. /\ Len(P[q]) = k \/ Len(P[q]) < k
         /\ Len(P[p]) = k \/ Len(P[p]) < k
         BY <1>1, <2>1
  <2> QED BY <2>1, <2>4, <2>6, <2>7, <2>8, <2>9, <2>10
<1> HIDE DEF Good
<1>4. \A k \in Nat : k \in Good
      BY <1>2, <1>3, NatSetInduction
<1> QED BY <1>4 DEF Good

(* No two nodes stand for the same callchain.                              *)
LEMMA PathInjective ==
  ASSUME NEW N, Forest(N), NEW P, IsPath(P, N),
         NEW m \in DOMAIN N, NEW n \in DOMAIN N, P[m] = P[n]
  PROVE  m = n
<1>0. Numbered(N) /\ Typed(N)
      BY DEF Forest
<1>1. ASSUME NEW a \in DOMAIN N, a # Root
      PROVE  Holds(P, N, a, Len(P[a])) /\ Len(P[a]) \in Nat \ {0}
  <2>1. a \in DOMAIN N \ {Root}
        BY <1>1
  <2>2. /\ Len(P[N[a].parent]) < Len(P[a])
        /\ Len(P[N[a].parent]) \in Nat /\ Len(P[a]) \in Nat
        BY <1>0, <2>1, PathStep
  <2> QED BY <2>1, <2>2 DEF Holds
<1>2. Len(P[Root]) = 0
      BY EmptySeq DEF IsPath
<1>3. CASE m # Root /\ n # Root
  <2>1. Agree(P, m, n, Len(P[m]))
        BY DEF Agree
  <2> QED BY <1>1, <1>3, <2>1, HolderUnique
<1> QED BY <1>1, <1>2, <1>3

-----------------------------------------------------------------------------
(* The steps that change the nodes: a counter, a new leaf, a split.        *)

(* The number of the next node is not in use.                              *)
New(N) == Cardinality(DOMAIN N)

SameShape(N, M) ==
  /\ DOMAIN M = DOMAIN N
  /\ \A n \in DOMAIN N : /\ M[n] \in Fields(DOMAIN N)
                         /\ M[n].parent = N[n].parent
                         /\ M[n].val = N[n].val

Grown(N, M, h, val) ==
  /\ DOMAIN M = DOMAIN N \cup {New(N)}
  /\ \A n \in DOMAIN N : M[n] = N[n]
  /\ M[New(N)] \in Fields(DOMAIN N)
  /\ M[New(N)].parent = h
  /\ M[New(N)].val = val

GrownPath(P, N, h, val) ==
  [n \in DOMAIN N \cup {New(N)} |-> IF n = New(N) THEN P[h] \o val ELSE P[n]]

Split(N, M, c, m) ==
  /\ DOMAIN M = DOMAIN N \cup {New(N)}
  /\ \A n \in DOMAIN M : M[n] \in Fields(DOMAIN M)
  /\ M[New(N)].parent = c
  /\ M[New(N)].val = SubSeq(N[c].val, m + 1, Len(N[c].val))
  /\ M[c].parent = N[c].parent
  /\ M[c].val = SubSeq(N[c].val, 1, m)
  /\ \A n \in DOMAIN N \ {c} :
       /\ M[n].val = N[n].val
       /\ M[n].parent = IF n # Root /\ N[n].parent = c THEN New(N)
                                                       ELSE N[n].parent

SplitPath(P, N, c, m) ==
  [n \in DOMAIN N \cup {New(N)} |->
     IF n = New(N) THEN P[c]
     ELSE IF n = c THEN P[N[c].parent] \o SubSeq(N[c].val, 1, m)
     ELSE P[n]]

(* The nodes are numbered without gaps, and the next number is free.       *)
LEMMA NewNumber ==
  ASSUME NEW N, Numbered(N)
  PROVE  /\ New(N) \in Nat
         /\ New(N) \notin DOMAIN N
         /\ New(N) # Root
         /\ IsFiniteSet(DOMAIN N)
         /\ DOMAIN N = 0 .. New(N) - 1
         /\ \A M : DOMAIN M = DOMAIN N \cup {New(N)} => Numbered(M)
<1>1. PICK last \in Nat : DOMAIN N = 0 .. last
      BY DEF Numbered
<1>2. IsFiniteSet(DOMAIN N) /\ New(N) = last + 1
      BY <1>1, FS_Interval DEF New
<1>3. DOMAIN N \cup {New(N)} = 0 .. last + 1
      BY <1>1, <1>2
<1>4. \A M : DOMAIN M = DOMAIN N \cup {New(N)} => Numbered(M)
      BY <1>3 DEF Numbered
<1>5. /\ last + 1 \in Nat /\ last + 1 \notin 0 .. last /\ last + 1 # 0
      /\ 0 .. (last + 1) - 1 = 0 .. last
      OBVIOUS
<1>6. /\ New(N) \in Nat /\ New(N) \notin DOMAIN N /\ New(N) # Root
      /\ DOMAIN N = 0 .. New(N) - 1
      BY <1>1, <1>2, <1>5 DEF Root
<1> QED BY <1>2, <1>4, <1>6

(* A change of counters keeps the tree and its paths.                      *)
LEMMA CountersForest ==
  ASSUME NEW N, Forest(N), NEW P, IsPath(P, N), NEW M, SameShape(N, M)
  PROVE  Forest(M) /\ IsPath(P, M)
<1>1. Numbered(M)
      BY DEF Forest, SameShape, Numbered
<1>2. Typed(M)
      BY DEF Forest, SameShape, Typed
<1>3. SiblingsApart(M)
      BY DEF Forest, SameShape, SiblingsApart
<1>4. IsPath(P, M)
      BY DEF IsPath, SameShape
<1> QED BY <1>1, <1>2, <1>3, <1>4 DEF Forest

(* A leaf under h whose first entry no child of h has keeps the tree well  *)
(* formed: create_child().                                                 *)
LEMMA GrowForest ==
  ASSUME NEW N, Forest(N), NEW P, IsPath(P, N),
         NEW h \in DOMAIN N, NEW val, val # <<>>,
         \A c \in DOMAIN N \ {Root} : N[c].parent = h => N[c].val[1] # val[1],
         NEW M, Grown(N, M, h, val)
  PROVE  Forest(M) /\ IsPath(GrownPath(P, N, h, val), M)
<1> DEFINE new == New(N)
           Q == GrownPath(P, N, h, val)
<1>0. Numbered(N) /\ Typed(N) /\ SiblingsApart(N)
      BY DEF Forest
<1>1. new \notin DOMAIN N /\ new # Root /\ Root \in DOMAIN N
      BY <1>0, NewNumber, NodeFields
<1>2. Numbered(M)
      BY <1>0, NewNumber DEF Grown
<1> HIDE DEF new, Q
<1>3. /\ DOMAIN M = DOMAIN N \cup {new}
      /\ \A n \in DOMAIN N : M[n] = N[n]
      /\ M[new] \in Fields(DOMAIN N)
      /\ M[new].parent = h
      /\ M[new].val = val
      BY DEF Grown, new
<1>4. Typed(M)
  <2>1. \A n \in DOMAIN N : N[n] \in Fields(DOMAIN N)
                            /\ (N[n].val = <<>> <=> n = Root)
        BY <1>0 DEF Typed
  <2>2. \A n \in DOMAIN M : M[n] \in Fields(DOMAIN N)
        BY <1>3, <2>1
  <2>3. Fields(DOMAIN N) \subseteq Fields(DOMAIN M)
        BY <1>3 DEF Fields
  <2>4. \A n \in DOMAIN M : M[n].val = <<>> <=> n = Root
        BY <1>1, <1>3, <2>1
  <2> QED BY <2>2, <2>3, <2>4 DEF Typed
<1>5. SiblingsApart(M)
  <2> SUFFICES ASSUME NEW a \in DOMAIN M \ {Root}, NEW b \in DOMAIN M \ {Root},
                      M[a].parent = M[b].parent, M[a].val[1] = M[b].val[1]
               PROVE  a = b
      BY DEF SiblingsApart
  <2>1. \A d \in DOMAIN N \ {Root} : M[d].parent = h => M[d].val[1] # val[1]
        BY <1>3
  <2>2. \A d, e \in DOMAIN N \ {Root} :
          M[d].parent = M[e].parent /\ M[d].val[1] = M[e].val[1] => d = e
        BY <1>0, <1>3 DEF SiblingsApart
  <2> QED BY <1>3, <2>1, <2>2
<1>6. IsPath(Q, M)
  <2>1. /\ P \in [DOMAIN N -> Seq(Entries)]
        /\ P[Root] = <<>>
        /\ \A n \in DOMAIN N \ {Root} : P[n] = P[N[n].parent] \o N[n].val
        BY DEF IsPath
  <2>2. val \in Seq(Entries)
        BY <1>3 DEF Fields
  <2>3. P[h] \o val \in Seq(Entries)
        BY <2>1, <2>2, ConcatProperties
  <2>4. /\ DOMAIN Q = DOMAIN M
        /\ Q = [n \in DOMAIN M |-> Q[n]]
        /\ Q[new] = P[h] \o val
        /\ \A n \in DOMAIN N : Q[n] = P[n]
        BY <1>1, <1>3 DEF Q, GrownPath, new
  <2>5. ASSUME NEW n \in DOMAIN M
        PROVE  Q[n] \in Seq(Entries)
    <3>1. CASE n = new
          BY <2>3, <2>4, <3>1
    <3>2. CASE n \in DOMAIN N
      <4>1. P[n] \in Seq(Entries)
            BY <2>1, <3>2
      <4> QED BY <2>4, <3>2, <4>1
    <3> QED BY <1>3, <3>1, <3>2
  <2>6. \A n \in DOMAIN N : N[n].parent \in DOMAIN N
        BY <1>0, NodeFields
  <2>7. ASSUME NEW n \in DOMAIN M \ {Root}
        PROVE  Q[n] = Q[M[n].parent] \o M[n].val
    <3>1. CASE n = new
          BY <1>3, <2>4, <3>1
    <3>2. CASE n \in DOMAIN N \ {Root}
      <4>1. N[n].parent \in DOMAIN N
            BY <2>6, <3>2
      <4>2. Q[n] = P[n] /\ Q[N[n].parent] = P[N[n].parent] /\ M[n] = N[n]
            BY <1>3, <2>4, <3>2, <4>1
      <4>3. P[n] = P[N[n].parent] \o N[n].val
            BY <2>1, <3>2
      <4> QED BY <4>2, <4>3, Zenon
    <3> QED BY <1>3, <2>7, <3>1, <3>2
  <2> QED BY <1>1, <2>1, <2>4, <2>5, <2>7 DEF IsPath
<1> QED BY <1>2, <1>4, <1>5, <1>6 DEF Forest, Q

(* So does cutting the entries of a node in two: split_add_child().        *)
LEMMA SplitForest ==
  ASSUME NEW N, Forest(N), NEW P, IsPath(P, N), NEW c \in DOMAIN N \ {Root},
         NEW m \in 1 .. Len(N[c].val) - 1, NEW M, Split(N, M, c, m)
  PROVE  Forest(M) /\ IsPath(SplitPath(P, N, c, m), M)
<1> DEFINE new == New(N)
           Q == SplitPath(P, N, c, m)
           val == N[c].val
           up == SubSeq(val, 1, m)
           low == SubSeq(val, m + 1, Len(val))
           above == N[c].parent
<1>0. Numbered(N) /\ Typed(N) /\ SiblingsApart(N)
      BY DEF Forest
<1>1. /\ new \notin DOMAIN N /\ new # Root /\ Root \in DOMAIN N
      /\ c \in DOMAIN N /\ c # Root
      BY <1>0, NewNumber, NodeFields
<1>2. Numbered(M)
      BY <1>0, NewNumber DEF Split
<1>3. /\ val \in Seq(Entries) /\ Len(val) \in Nat /\ m \in 1 .. Len(val) - 1
      /\ above \in DOMAIN N
      /\ P[above] \in Seq(Entries)
      /\ P[c] = P[above] \o val
      BY <1>0, NodeFields, PathStep
<1>4. above # c
  <2>1. Len(P[above]) < Len(P[c]) /\ Len(P[c]) \in Nat
        BY <1>0, PathStep
  <2> QED BY <2>1
<1>5. /\ up \in Seq(Entries) /\ low \in Seq(Entries)
      /\ Len(up) = m /\ Len(low) = Len(val) - m
      /\ up[1] = val[1]
      /\ val = up \o low
  <2> HIDE DEF val
  <2>1. m \in Nat /\ 1 <= m /\ m < Len(val) /\ Len(val) \in Nat
        BY <1>3
  <2>2. up \in Seq(Entries) /\ low \in Seq(Entries)
        BY <1>3, <2>1, SubSeqProperties
  <2>3. Len(up) = m /\ Len(low) = Len(val) - m /\ up[1] = val[1]
        BY <1>3, <2>1, SubSeqProperties
  <2>4. up \o low = SubSeq(val, 1, Len(val))
    <3>1. /\ 1 \in 1 .. Len(val) + 1
          /\ m \in 1 - 1 .. Len(val)
          /\ Len(val) \in m .. Len(val)
          BY <2>1
    <3> QED BY <1>3, <3>1, ConcatAdjacentSubSeq
  <2>5. SubSeq(val, 1, Len(val)) = val
        BY <1>3, SubSeqFull
  <2> QED BY <2>2, <2>3, <2>4, <2>5
<1>6. up # <<>> /\ low # <<>>
  <2>1. Len(up) # 0 /\ Len(low) # 0
    <3> HIDE DEF up, low, val
    <3> QED BY <1>3, <1>5
  <2> HIDE DEF up, low
  <2> QED BY <1>5, <2>1, EmptySeq
<1>7. /\ DOMAIN M = DOMAIN N \cup {new}
      /\ \A n \in DOMAIN M : M[n] \in Fields(DOMAIN M)
      /\ M[new].parent = c /\ M[new].val = low
      /\ M[c].parent = above /\ M[c].val = up
      /\ \A n \in DOMAIN N \ {c} :
           /\ M[n].val = N[n].val
           /\ M[n].parent = IF n # Root /\ N[n].parent = c THEN new
                                                           ELSE N[n].parent
      BY DEF Split
<1>8. \A n \in DOMAIN N : N[n].parent \in DOMAIN N
      BY <1>0, NodeFields
<1>9. Typed(M)
  <2>1. \A n \in DOMAIN N : N[n].val = <<>> <=> n = Root
        BY <1>0 DEF Typed
  <2> HIDE DEF new, up, low, above
  <2>2. \A n \in DOMAIN M : M[n].val = <<>> <=> n = Root
        BY <1>1, <1>6, <1>7, <2>1
  <2> QED BY <1>7, <2>2 DEF Typed
<1>10. SiblingsApart(M)
  <2>1. \A a, b \in DOMAIN N \ {Root} :
          N[a].parent = N[b].parent /\ N[a].val[1] = N[b].val[1] => a = b
        BY <1>0 DEF SiblingsApart
  <2>2. up[1] = N[c].val[1]
        BY <1>5
  <2> HIDE DEF new, up, low, above, val
  <2>3. \A a \in DOMAIN N \ {Root} : M[a].val[1] = N[a].val[1]
        BY <1>7, <2>2
  <2>4. N[c].parent = above
        BY DEF above
  <2>5. \A a, b \in DOMAIN N \ {Root} :
          M[a].parent = M[b].parent => N[a].parent = N[b].parent
        BY <1>1, <1>4, <1>7, <1>8, <2>4
  <2>6. \A a \in DOMAIN N \ {Root} : M[a].parent # c
        BY <1>1, <1>4, <1>7, <1>8
  <2>7. \A a, b \in DOMAIN M \ {Root} :
          M[a].parent = M[b].parent /\ M[a].val[1] = M[b].val[1] => a = b
        BY <1>7, <2>1, <2>3, <2>5, <2>6
  <2> QED BY <2>7 DEF SiblingsApart
<1>11. IsPath(Q, M)
  <2>1. /\ P \in [DOMAIN N -> Seq(Entries)]
        /\ P[Root] = <<>>
        /\ \A n \in DOMAIN N \ {Root} : P[n] = P[N[n].parent] \o N[n].val
        BY DEF IsPath
  <2>2. P[above] \o up \in Seq(Entries)
        BY <1>3, <1>5, ConcatProperties
  <2>3. /\ DOMAIN Q = DOMAIN N \cup {new}
        /\ Q = [n \in DOMAIN N \cup {new} |-> Q[n]]
        /\ Q[new] = P[c]
        /\ Q[c] = P[above] \o up
        /\ \A n \in DOMAIN N \ {c} : Q[n] = P[n]
        BY <1>1 DEF SplitPath
  <2>4. P[c] = (P[above] \o up) \o low
    <3> HIDE DEF up, low, val, above
    <3> DEFINE start == P[above]
    <3>0. /\ start \in Seq(Entries) /\ up \in Seq(Entries)
          /\ low \in Seq(Entries)
          BY <1>3, <1>5
    <3>1. (start \o up) \o low = start \o (up \o low)
      <4> HIDE DEF start
      <4> QED BY <3>0, Regroup, Zenon
    <3> QED BY <1>3, <1>5, <3>1
  <2>5. N[c].parent = above
        OBVIOUS
  <2> HIDE DEF new, Q, up, low, above, val
  <2>6. \A n \in DOMAIN M : Q[n] \in Seq(Entries)
    <3>1. Q[new] \in Seq(Entries) /\ Q[c] \in Seq(Entries)
          BY <1>1, <2>1, <2>2, <2>3
    <3>2. \A n \in DOMAIN N \ {c} : Q[n] \in Seq(Entries)
          BY <2>1, <2>3
    <3> QED BY <1>7, <3>1, <3>2
  <2>7. ASSUME NEW n \in DOMAIN M \ {Root}
        PROVE  Q[n] = Q[M[n].parent] \o M[n].val
    <3>1. CASE n = new
          BY <1>1, <1>7, <2>3, <2>4, <3>1
    <3>2. CASE n = c
          BY <1>1, <1>3, <1>4, <1>7, <2>3, <3>2
    <3>3. CASE n \in DOMAIN N \ {c} /\ N[n].parent = c
      <4>1. n # Root /\ M[n].parent = new /\ M[n].val = N[n].val
            BY <1>7, <2>7, <3>3
      <4>2. Q[n] = P[n] /\ Q[new] = P[c]
            BY <2>3, <3>3
      <4>3. P[n] = P[c] \o N[n].val
            BY <2>1, <3>3, <4>1
      <4> QED BY <4>1, <4>2, <4>3
    <3>4. CASE n \in DOMAIN N \ {c} /\ N[n].parent # c
      <4>1. M[n].parent = N[n].parent /\ M[n].val = N[n].val
            BY <1>7, <3>4
      <4>2. Q[N[n].parent] = P[N[n].parent]
            BY <1>8, <2>3, <3>4
      <4>3. Q[n] = P[n] /\ P[n] = P[N[n].parent] \o N[n].val
            BY <2>1, <2>3, <2>7, <3>4
      <4> QED BY <4>1, <4>2, <4>3
    <3> QED BY <1>7, <2>7, <3>1, <3>2, <3>3, <3>4
  <2> QED BY <1>1, <1>7, <2>1, <2>3, <2>6, <2>7 DEF IsPath
<1> QED BY <1>2, <1>9, <1>10, <1>11 DEF Forest

-----------------------------------------------------------------------------
(* Who is whose child after a step, and what the children add up to.       *)

Kids(N, n) == {c \in DOMAIN N \ {Root} : N[c].parent = n}

(* The weights of the children of a node sum up to what the node says of   *)
(* them; one node, h, still waits for extra.                               *)
Adds(N, weight, below, h, extra) ==
  \A n \in DOMAIN N :
    SumFunctionOnSet(weight, Kids(N, n)) =
      below[n] + (IF n = h THEN extra ELSE 0)

(* A node has finitely many children, and all are nodes.                   *)
LEMMA KidsFinite ==
  ASSUME NEW N, Numbered(N)
  PROVE  \A n : Kids(N, n) \subseteq DOMAIN N /\ IsFiniteSet(Kids(N, n))
<1>1. \A n : Kids(N, n) \subseteq DOMAIN N
      BY DEF Kids
<1> QED BY <1>1, NewNumber, FS_Subset

(* A change of counters moves no node.                                     *)
LEMMA SameKids ==
  ASSUME NEW N, NEW M, SameShape(N, M)
  PROVE  \A n : Kids(M, n) = Kids(N, n)
BY DEF SameShape, Kids

(* A new leaf is a child of h and has no children.                         *)
LEMMA GrownKids ==
  ASSUME NEW N, Forest(N), NEW h \in DOMAIN N, NEW val, NEW M, Grown(N, M, h, val)
  PROVE  /\ Kids(M, h) = Kids(N, h) \cup {New(N)}
         /\ New(N) \notin Kids(N, h)
         /\ Kids(M, New(N)) = {}
         /\ \A n \in DOMAIN N \ {h} : Kids(M, n) = Kids(N, n)
<1> DEFINE new == New(N)
<1>1. new \notin DOMAIN N /\ new # Root
      BY NewNumber DEF Forest
<1>2. \A n \in DOMAIN N : N[n].parent \in DOMAIN N
      BY NodeFields DEF Forest
<1>3. DOMAIN M = DOMAIN N \cup {new} /\ M[new].parent = h
      /\ \A n \in DOMAIN N : M[n] = N[n]
      BY DEF Grown
<1> HIDE DEF new
<1>4. Kids(M, h) = Kids(N, h) \cup {new} /\ new \notin Kids(N, h)
      BY <1>1, <1>3 DEF Kids
<1>5. Kids(M, new) = {}
      BY <1>1, <1>2, <1>3 DEF Kids
<1>6. \A n \in DOMAIN N \ {h} : Kids(M, n) = Kids(N, n)
      BY <1>1, <1>3 DEF Kids
<1> QED BY <1>4, <1>5, <1>6 DEF new

(* The lower part of a split takes the children of the node and is its     *)
(* only child.                                                             *)
LEMMA SplitKids ==
  ASSUME NEW N, Forest(N), NEW c \in DOMAIN N \ {Root}, NEW m,
         NEW M, Split(N, M, c, m), N[c].parent # c
  PROVE  /\ Kids(M, c) = {New(N)}
         /\ Kids(M, New(N)) = Kids(N, c)
         /\ \A n \in DOMAIN N \ {c} : Kids(M, n) = Kids(N, n)
         /\ \A n \in DOMAIN N : c \in Kids(N, n) => n # c
<1> DEFINE new == New(N)
<1>1. new \notin DOMAIN N /\ new # Root
      BY NewNumber DEF Forest
<1>2. \A n \in DOMAIN N : N[n].parent \in DOMAIN N
      BY NodeFields DEF Forest
<1>3. /\ DOMAIN M = DOMAIN N \cup {new}
      /\ M[new].parent = c
      /\ M[c].parent = N[c].parent
      /\ \A n \in DOMAIN N \ {c} :
           M[n].parent = IF n # Root /\ N[n].parent = c THEN new
                                                       ELSE N[n].parent
      BY DEF Split
<1> HIDE DEF new
<1>4. \A n \in DOMAIN N \ {Root} :
        M[n].parent = IF N[n].parent = c THEN new ELSE N[n].parent
      BY <1>3
<1>5. Kids(M, c) = {new}
      BY <1>1, <1>2, <1>3, <1>4 DEF Kids
<1>6. Kids(M, new) = Kids(N, c)
      BY <1>1, <1>2, <1>3, <1>4 DEF Kids
<1>7. \A n \in DOMAIN N \ {c} : Kids(M, n) = Kids(N, n)
      BY <1>1, <1>2, <1>3, <1>4 DEF Kids
<1>8. \A n \in DOMAIN N : c \in Kids(N, n) => n # c
      BY DEF Kids
<1> QED BY <1>5, <1>6, <1>7, <1>8 DEF new

(* No node of a well-formed tree is its own child.                         *)
LEMMA NotOwnParent ==
  ASSUME NEW N, Forest(N), NEW c \in DOMAIN N \ {Root}
  PROVE  N[c].parent # c
<1>1. PICK P : IsPath(P, N)
      BY DEF Forest
<1>2. Len(P[N[c].parent]) < Len(P[c]) /\ Len(P[c]) \in Nat
      BY <1>1, PathStep DEF Forest
<1> QED BY <1>2

(* A new leaf of h has the weight that h waits for.                        *)
LEMMA AddsGrow ==
  ASSUME NEW N, Forest(N), NEW h \in DOMAIN N, NEW val, NEW M, Grown(N, M, h, val),
         NEW v, NEW w, NEW a, NEW b, NEW e \in Nat,
         \A n \in DOMAIN N : v[n] \in Nat /\ w[n] = v[n] /\ a[n] \in Nat /\ b[n] = a[n],
         w[New(N)] = e, b[New(N)] = 0,
         Adds(N, v, a, h, 0)
  PROVE  Adds(M, w, b, h, e)
<1> DEFINE new == New(N)
<1>1. /\ Kids(M, h) = Kids(N, h) \cup {new}
      /\ new \notin Kids(N, h)
      /\ Kids(M, new) = {}
      /\ \A n \in DOMAIN N \ {h} : Kids(M, n) = Kids(N, n)
      BY GrownKids
<1>2. \A n : Kids(N, n) \subseteq DOMAIN N /\ IsFiniteSet(Kids(N, n))
      BY KidsFinite DEF Forest
<1>3. new \notin DOMAIN N
      BY NewNumber DEF Forest
<1>4. SumFunctionOnSet(w, Kids(M, h)) = SumFunctionOnSet(v, Kids(N, h)) + e
  <2>1. /\ \A x \in Kids(N, h) : v[x] \in Nat
        /\ \A x \in Kids(N, h) : w[x] = v[x]
        BY <1>2
  <2> HIDE DEF new
  <2>2. w[new] = e /\ w[new] \in Nat
        BY DEF new
  <2>3. SumFunctionOnSet(w, Kids(M, h)) =
          SumFunctionOnSet(v, Kids(N, h)) + w[new]
        BY <1>1, <1>2, <2>1, <2>2, SumAdd
  <2> QED BY <1>1, <2>2, <2>3
<1>5. \A n \in DOMAIN N \ {h} :
        SumFunctionOnSet(w, Kids(M, n)) = SumFunctionOnSet(v, Kids(N, n))
  <2> TAKE n \in DOMAIN N \ {h}
  <2>1. \A x \in Kids(N, n) : w[x] = v[x]
        BY <1>2
  <2>2. SumFunctionOnSet(w, Kids(N, n)) = SumFunctionOnSet(v, Kids(N, n))
        BY <1>2, <2>1, SumSame
  <2> QED BY <1>1, <2>2
<1>6. SumFunctionOnSet(w, Kids(M, new)) = 0
      BY <1>1, SumEmpty
<1>7. \A n \in DOMAIN N : SumFunctionOnSet(v, Kids(N, n)) = a[n]
      BY DEF Adds
<1>8. DOMAIN M = DOMAIN N \cup {new}
      BY DEF Grown
<1>9. b[new] = 0
      OBVIOUS
<1> HIDE DEF new
<1>10. \A n \in DOMAIN M :
         SumFunctionOnSet(w, Kids(M, n)) = b[n] + (IF n = h THEN e ELSE 0)
       BY <1>3, <1>4, <1>5, <1>6, <1>7, <1>8, <1>9
<1> QED BY <1>10 DEF Adds

(* A child c of h gains what h waits for.                                  *)
LEMMA AddsBump ==
  ASSUME NEW N, Forest(N), NEW h \in DOMAIN N, NEW c \in Kids(N, h),
         NEW v, NEW w, NEW a, NEW e \in Nat,
         \A n \in DOMAIN N : v[n] \in Nat /\ a[n] \in Nat,
         \A n \in DOMAIN N \ {c} : w[n] = v[n],
         w[c] = v[c] + e,
         Adds(N, v, a, h, 0)
  PROVE  Adds(N, w, a, h, e)
<1>1. \A n : Kids(N, n) \subseteq DOMAIN N /\ IsFiniteSet(Kids(N, n))
      BY KidsFinite DEF Forest
<1>2. \A n \in DOMAIN N : SumFunctionOnSet(v, Kids(N, n)) = a[n]
      BY DEF Adds
<1>3. c \in DOMAIN N /\ v[c] \in Nat /\ w[c] \in Nat
      BY <1>1
<1>4. SumFunctionOnSet(w, Kids(N, h)) = a[h] + e
  <2>1. SumFunctionOnSet(w, Kids(N, h)) + v[c] =
          SumFunctionOnSet(v, Kids(N, h)) + w[c]
    <3>1. /\ \A x \in Kids(N, h) : v[x] \in Nat
          /\ \A x \in Kids(N, h) \ {c} : w[x] = v[x]
          BY <1>1
    <3> QED BY <1>1, <1>3, <3>1, SumChange
  <2>2. SumFunctionOnSet(w, Kids(N, h)) \in Nat
    <3>1. \A x \in Kids(N, h) : w[x] \in Nat
          BY <1>1, <1>3
    <3> QED BY <1>1, <3>1, SumType
  <2> QED BY <1>2, <1>3, <2>1, <2>2
<1>5. \A n \in DOMAIN N \ {h} :
        SumFunctionOnSet(w, Kids(N, n)) = a[n]
  <2> TAKE n \in DOMAIN N \ {h}
  <2>1. c \notin Kids(N, n)
        BY DEF Kids
  <2>2. \A x \in Kids(N, n) : w[x] = v[x]
        BY <1>1, <2>1
  <2>3. SumFunctionOnSet(w, Kids(N, n)) = SumFunctionOnSet(v, Kids(N, n))
        BY <1>1, <2>2, SumSame
  <2> QED BY <1>2, <2>3
<1>6. \A n \in DOMAIN N : a[n] \in Nat
      OBVIOUS
<1>7. \A n \in DOMAIN N :
        SumFunctionOnSet(w, Kids(N, n)) = a[n] + (IF n = h THEN e ELSE 0)
      BY <1>4, <1>5, <1>6
<1> QED BY <1>7 DEF Adds

(* The weight of h and what h says of its children both grow by e.         *)
Raised(N, v, a, w, b, h, e) ==
  /\ \A n \in DOMAIN N : v[n] \in Nat /\ a[n] \in Nat
  /\ \A n \in DOMAIN N \ {h} : w[n] = v[n] /\ b[n] = a[n]
  /\ w[h] = v[h] + e /\ b[h] = a[h] + e

(* Then the parent of h, up, waits for x; nobody does when h is the root.  *)
WaitsNext(N, h, e, up, x) ==
  /\ h # Root => up = N[h].parent
  /\ x = IF h = Root THEN 0 ELSE e

(* h counts what it waited for; now its parent waits, if it has one.       *)
LEMMA AddsUp ==
  ASSUME NEW N, Forest(N), NEW h \in DOMAIN N, NEW e \in Nat,
         NEW v, NEW w, NEW a, NEW b, Raised(N, v, a, w, b, h, e),
         NEW up, NEW x, WaitsNext(N, h, e, up, x),
         Adds(N, v, a, h, e)
  PROVE  Adds(N, w, b, up, x)
<1>0. /\ \A n \in DOMAIN N : v[n] \in Nat /\ a[n] \in Nat
      /\ \A n \in DOMAIN N \ {h} : w[n] = v[n] /\ b[n] = a[n]
      /\ w[h] = v[h] + e /\ b[h] = a[h] + e
      BY DEF Raised
<1>w. /\ h # Root => up = N[h].parent
      /\ x = IF h = Root THEN 0 ELSE e
      BY DEF WaitsNext
<1>1. \A n : Kids(N, n) \subseteq DOMAIN N /\ IsFiniteSet(Kids(N, n))
      BY KidsFinite DEF Forest
<1>2. \A n \in DOMAIN N : SumFunctionOnSet(v, Kids(N, n)) =
                            a[n] + (IF n = h THEN e ELSE 0)
      BY DEF Adds
<1>3. \A n \in DOMAIN N : SumFunctionOnSet(v, Kids(N, n)) = b[n]
      BY <1>0, <1>2
<1>4. \A n \in DOMAIN N : b[n] \in Nat
      BY <1>0
<1>5. Adds(N, v, b, up, 0)
      BY <1>3, <1>4 DEF Adds
<1>6. CASE h # Root
  <2>1. h \in Kids(N, up) /\ up \in DOMAIN N
        BY <1>6, <1>w, NodeFields DEF Kids, Forest
  <2>2. /\ \A n \in DOMAIN N : v[n] \in Nat /\ b[n] \in Nat
        /\ \A n \in DOMAIN N \ {h} : w[n] = v[n]
        BY <1>0, <1>4
  <2>3. Adds(N, w, b, up, e)
        BY <1>0, <1>5, <2>1, <2>2, AddsBump
  <2> QED BY <1>6, <1>w, <2>3
<1>7. CASE h = Root
  <2>1. \A n \in DOMAIN N : \A d \in Kids(N, n) : w[d] = v[d]
        BY <1>0, <1>7 DEF Kids
  <2>2. \A n \in DOMAIN N : SumFunctionOnSet(w, Kids(N, n)) =
                              SumFunctionOnSet(v, Kids(N, n))
        BY <1>1, <2>1, SumSame
  <2>3. Adds(N, w, b, up, 0)
        BY <1>3, <1>4, <2>2 DEF Adds
  <2> QED BY <1>7, <1>w, <2>3
<1> QED BY <1>6, <1>7

(* The lower part of a split takes the weight of the node with it.         *)
LEMMA AddsSplit ==
  ASSUME NEW N, Forest(N), NEW c \in DOMAIN N \ {Root}, NEW m,
         NEW M, Split(N, M, c, m), NEW h,
         NEW v, NEW w, NEW a, NEW b,
         \A n \in DOMAIN N : v[n] \in Nat /\ w[n] = v[n] /\ a[n] \in Nat,
         \A n \in DOMAIN N \ {c} : b[n] = a[n],
         w[New(N)] = v[c], b[New(N)] = a[c], b[c] = v[c],
         Adds(N, v, a, h, 0)
  PROVE  Adds(M, w, b, h, 0)
<1> DEFINE new == New(N)
<1>1. /\ Kids(M, c) = {new}
      /\ Kids(M, new) = Kids(N, c)
      /\ \A n \in DOMAIN N \ {c} : Kids(M, n) = Kids(N, n)
      BY NotOwnParent, SplitKids
<1>2. \A n : Kids(N, n) \subseteq DOMAIN N /\ IsFiniteSet(Kids(N, n))
      BY KidsFinite DEF Forest
<1>3. \A n \in DOMAIN N : SumFunctionOnSet(v, Kids(N, n)) = a[n]
      BY DEF Adds
<1>4. \A n \in DOMAIN N : SumFunctionOnSet(w, Kids(N, n)) = a[n]
  <2> TAKE n \in DOMAIN N
  <2>1. \A x \in Kids(N, n) : w[x] = v[x]
        BY <1>2
  <2> QED BY <1>2, <1>3, <2>1, SumSame
<1>5. SumFunctionOnSet(w, Kids(M, c)) = v[c]
      BY <1>1, SumSingle
<1>6. DOMAIN M = DOMAIN N \cup {new} /\ c \in DOMAIN N
      BY DEF Split
<1>7. /\ b[new] = a[c] /\ b[c] = v[c]
      /\ \A n \in DOMAIN N \ {c} : b[n] = a[n]
      /\ \A n \in DOMAIN N : v[n] \in Nat /\ a[n] \in Nat
      OBVIOUS
<1> HIDE DEF new
<1>8. \A n \in DOMAIN M : SumFunctionOnSet(w, Kids(M, n)) = b[n]
                          /\ b[n] \in Nat
      BY <1>1, <1>4, <1>5, <1>6, <1>7
<1> QED BY <1>8 DEF Adds

-----------------------------------------------------------------------------
(* Chains, cursors and the steps of callchain_append().                    *)

(* Every chain is a sequence of entries.                                   *)
LEMMA ChainSeq ==
  ASSUME NEW c \in Chains
  PROVE  c \in Seq(Entries) /\ c # <<>> /\ Len(c) \in Nat \ {0}
<1>1. c \in Seq(Range(c)) /\ c # <<>>
      BY ChainsAssumption
<1>2. Range(c) \subseteq Entries
      BY DEF Entries
<1>3. c \in Seq(Entries)
      BY <1>1, <1>2, SeqMonotonic
<1> QED BY <1>1, <1>3, LenProperties, EmptySeq

(* The first k elements of a sequence.                                     *)
LEMMA PrefixOf ==
  ASSUME NEW S, NEW s \in Seq(S), NEW k \in 0 .. Len(s)
  PROVE  /\ SubSeq(s, 1, k) \in Seq(S) /\ Len(SubSeq(s, 1, k)) = k
         /\ \A i \in 1 .. k : SubSeq(s, 1, k)[i] = s[i]
<1>1. Len(s) \in Nat /\ \A i \in 1 .. Len(s) : s[i] \in S
      BY LenProperties, ElementOfSeq
<1>2. \A i \in 1 .. k : s[i] \in S
      BY <1>1
<1> QED BY <1>1, <1>2, SubSeqProperties

(* A prefix of a chain and the rest of it.                                 *)
LEMMA PrefixAndRest ==
  ASSUME NEW S, NEW s \in Seq(S), NEW k \in 0 .. Len(s)
  PROVE  /\ SubSeq(s, 1, k) \in Seq(S) /\ Len(SubSeq(s, 1, k)) = k
         /\ SubSeq(s, k + 1, Len(s)) \in Seq(S)
         /\ Len(SubSeq(s, k + 1, Len(s))) = Len(s) - k
         /\ k < Len(s) => SubSeq(s, k + 1, Len(s))[1] = s[k + 1]
         /\ SubSeq(s, 1, k) \o SubSeq(s, k + 1, Len(s)) = s
<1>1. Len(s) \in Nat /\ \A i \in 1 .. Len(s) : s[i] \in S
      BY LenProperties, ElementOfSeq
<1>2. SubSeq(s, 1, k) \in Seq(S) /\ Len(SubSeq(s, 1, k)) = k
      BY <1>1, SubSeqProperties
<1>3. /\ SubSeq(s, k + 1, Len(s)) \in Seq(S)
      /\ Len(SubSeq(s, k + 1, Len(s))) = Len(s) - k
      /\ k < Len(s) => SubSeq(s, k + 1, Len(s))[1] = s[k + 1]
      BY <1>1, SubSeqProperties
<1>4. SubSeq(s, 1, k) \o SubSeq(s, k + 1, Len(s)) = SubSeq(s, 1, Len(s))
  <2>1. /\ 1 \in 1 .. Len(s) + 1 /\ k \in 1 - 1 .. Len(s)
        /\ Len(s) \in k .. Len(s)
        BY <1>1
  <2> QED BY <2>1, ConcatAdjacentSubSeq
<1>5. SubSeq(s, 1, Len(s)) = s
      BY SubSeqFull
<1> QED BY <1>2, <1>3, <1>4, <1>5

(* A prefix goes on with entries that match.                               *)
LEMMA PrefixGoesOn ==
  ASSUME NEW S, NEW s \in Seq(S), NEW v \in Seq(S), NEW k \in 0 .. Len(s),
         NEW m \in 0 .. Len(v), k + m <= Len(s),
         \A i \in 1 .. m : v[i] = s[k + i]
  PROVE  SubSeq(s, 1, k) \o SubSeq(v, 1, m) = SubSeq(s, 1, k + m)
<1>1. /\ Len(s) \in Nat /\ \A i \in 1 .. Len(s) : s[i] \in S
      /\ Len(v) \in Nat /\ \A i \in 1 .. Len(v) : v[i] \in S
      BY LenProperties, ElementOfSeq
<1>2. /\ SubSeq(v, 1, m) \in Seq(S) /\ Len(SubSeq(v, 1, m)) = m
      /\ \A i \in 1 .. m : SubSeq(v, 1, m)[i] = v[i]
      BY <1>1, SubSeqProperties
<1>3. /\ SubSeq(s, k + 1, k + m) \in Seq(S) /\ Len(SubSeq(s, k + 1, k + m)) = m
      /\ \A i \in 1 .. m : SubSeq(s, k + 1, k + m)[i] = s[k + i]
      BY <1>1, SubSeqProperties
<1>4. \A i \in 1 .. m : SubSeq(v, 1, m)[i] = SubSeq(s, k + 1, k + m)[i]
      BY <1>2, <1>3
<1>5. SubSeq(v, 1, m) = SubSeq(s, k + 1, k + m)
  <2> DEFINE a == SubSeq(v, 1, m)
             b == SubSeq(s, k + 1, k + m)
  <2>1. a \in Seq(S) /\ b \in Seq(S) /\ Len(a) = Len(b)
        /\ \A i \in 1 .. Len(a) : a[i] = b[i]
        BY <1>2, <1>3, <1>4
  <2> HIDE DEF a, b
  <2>2. a = b
        BY <2>1, SeqEqual
  <2> QED BY <2>2 DEF a, b
<1>6. SubSeq(s, 1, k) \o SubSeq(s, k + 1, k + m) = SubSeq(s, 1, k + m)
  <2>1. /\ 1 \in 1 .. Len(s) + 1 /\ k \in 1 - 1 .. Len(s)
        /\ k + m \in k .. Len(s)
        BY <1>1
  <2> QED BY <2>1, ConcatAdjacentSubSeq
<1> QED BY <1>5, <1>6

(* How far two sequences match that start alike: to the first difference,  *)
(* or to the end of one of them.                                           *)
LEMMA LongestMatch ==
  ASSUME NEW S, NEW s \in Seq(S), NEW v \in Seq(S), NEW k \in Nat,
         k < Len(s), v # <<>>, v[1] = s[k + 1]
  PROVE  \E m \in 1 .. Len(v) :
           /\ k + m <= Len(s)
           /\ \A i \in 1 .. m : v[i] = s[k + i]
           /\ \/ m = Len(v)
              \/ k + m = Len(s)
              \/ v[m + 1] # s[k + m + 1]
<1> DEFINE Ends(m) == \/ m = Len(v)
                      \/ k + m = Len(s)
                      \/ v[m + 1] # s[k + m + 1]
           Stops == {m \in Nat \ {0} : Ends(m)}
<1>1. Len(s) \in Nat /\ Len(v) \in Nat \ {0}
      BY LenProperties, EmptySeq
<1>2. Len(v) \in Stops /\ Len(s) - k \in Stops
      BY <1>1
<1>3. PICK m \in Stops : \A n \in Stops : m <= n
      BY <1>2, LeastNatural
<1>6. m \in Nat \ {0} /\ m <= Len(v) /\ m <= Len(s) - k
  <2>1. m \in Nat \ {0}
        BY <1>3
  <2> HIDE DEF Stops
  <2> QED BY <1>2, <1>3, <2>1
<1>4. m \in 1 .. Len(v) /\ k + m <= Len(s)
      BY <1>1, <1>6
<1>5. \A i \in 1 .. m : v[i] = s[k + i]
  <2> SUFFICES ASSUME NEW i \in 1 .. m, i # 1
               PROVE  v[i] = s[k + i]
      OBVIOUS
  <2>1. i - 1 \notin Stops /\ i - 1 \in Nat \ {0}
    <3>1. i - 1 \in Nat \ {0} /\ i - 1 < m
          BY <1>6
    <3> HIDE DEF Stops
    <3> QED BY <1>3, <1>6, <3>1
  <2>2. ~ (v[(i - 1) + 1] # s[k + (i - 1) + 1])
        BY <2>1
  <2>3. (i - 1) + 1 = i /\ k + (i - 1) + 1 = k + i
        OBVIOUS
  <2> QED BY <2>2, <2>3
<1> QED BY <1>3, <1>4, <1>5

-----------------------------------------------------------------------------
(* The parts of the inductive invariant that are about the nodes only.     *)

CountsOf(N) == [n \in DOMAIN N |-> CumulCounts(N[n])]
HitsOf(N) == [n \in DOMAIN N |-> CumulHits(N[n])]
CountsBelow(N) == [n \in DOMAIN N |-> N[n].children_count]
HitsBelow(N) == [n \in DOMAIN N |-> N[n].children_hit]

(* Node h waits for x counts and y hits; all others add up.                *)
SumsOK(N, h, x, y) ==
  /\ Adds(N, CountsOf(N), CountsBelow(N), h, x)
  /\ Adds(N, HitsOf(N), HitsBelow(N), h, y)

(* A node without a count branches; h may still have one child only.       *)
Branching(N, h) ==
  \A n \in DOMAIN N \ {Root} :
    N[n].count = 0 => Cardinality(Kids(N, n)) > (IF n = h THEN 0 ELSE 1)

(* The nodes of st are a way down the tree.                                *)
StackIn(st, N, P) ==
  /\ st \in Seq(DOMAIN N)
  /\ st # <<>> => st[1] = Root
  /\ \A i \in 1 .. Len(st) - 1 :
       st[i + 1] # Root /\ N[st[i + 1]].parent = st[i]
  /\ \A i, j \in 1 .. Len(st) : i <= j => Len(P[st[i]]) <= Len(P[st[j]])

(* The callchain s was counted k times with the weight w: at the one node  *)
(* that stands for it, or never.                                           *)
Counted(P, N, s, k, w) ==
  /\ \A n \in DOMAIN N : P[n] = s => N[n].count = k /\ N[n].hit = w
  /\ (\A n \in DOMAIN N : P[n] # s) => k = 0 /\ w = 0

(* The weights of well-formed nodes are numbers.                           *)
LEMMA WeightsAreNumbers ==
  ASSUME NEW N, Forest(N)
  PROVE  \A n \in DOMAIN N :
           /\ CountsOf(N)[n] \in Nat /\ HitsOf(N)[n] \in Nat
           /\ CountsBelow(N)[n] \in Nat /\ HitsBelow(N)[n] \in Nat
           /\ CountsOf(N)[n] = N[n].count + N[n].children_count
           /\ HitsOf(N)[n] = N[n].hit + N[n].children_hit
           /\ CountsBelow(N)[n] = N[n].children_count
           /\ HitsBelow(N)[n] = N[n].children_hit
<1>1. \A n \in DOMAIN N :
        /\ N[n].count \in Nat /\ N[n].children_count \in Nat
        /\ N[n].hit \in Nat /\ N[n].children_hit \in Nat
      BY NodeFields DEF Forest
<1> QED BY <1>1 DEF CountsOf, HitsOf, CountsBelow, HitsBelow,
                    CumulCounts, CumulHits

(* A stack stays a way down when its nodes keep parents and paths.         *)
LEMMA StackKept ==
  ASSUME NEW N, NEW M, NEW P, NEW Q, NEW st, StackIn(st, N, P),
         DOMAIN N \subseteq DOMAIN M,
         \A i \in 1 .. Len(st) : /\ Q[st[i]] = P[st[i]]
                                 /\ M[st[i]].parent = N[st[i]].parent
  PROVE  StackIn(st, M, Q)
<1>1. /\ st \in Seq(DOMAIN N)
      /\ st # <<>> => st[1] = Root
      /\ \A i \in 1 .. Len(st) - 1 :
           st[i + 1] # Root /\ N[st[i + 1]].parent = st[i]
      /\ \A i, j \in 1 .. Len(st) : i <= j => Len(P[st[i]]) <= Len(P[st[j]])
      BY DEF StackIn
<1>2. st \in Seq(DOMAIN M)
      BY <1>1, SeqMonotonic
<1>3. Len(st) \in Nat
      BY <1>1, LenProperties
<1>4. \A i \in 1 .. Len(st) - 1 :
        st[i + 1] # Root /\ M[st[i + 1]].parent = st[i]
  <2> TAKE i \in 1 .. Len(st) - 1
  <2>1. i + 1 \in 1 .. Len(st)
        BY <1>3
  <2> QED BY <1>1, <2>1
<1>5. \A i, j \in 1 .. Len(st) : i <= j => Len(Q[st[i]]) <= Len(Q[st[j]])
      BY <1>1
<1> QED BY <1>1, <1>2, <1>4, <1>5 DEF StackIn

(* A new leaf with one sighting of weight e, below h.                      *)
LEMMA GrowStep ==
  ASSUME NEW N, Forest(N), NEW h \in DOMAIN N, NEW val,
         NEW M, Grown(N, M, h, val), Forest(M), NEW e \in Nat,
         M[New(N)].count = 1, M[New(N)].children_count = 0,
         M[New(N)].hit = e, M[New(N)].children_hit = 0
  PROVE  /\ SumsOK(N, h, 0, 0) => SumsOK(M, h, 1, e)
         /\ Branching(N, h) => Branching(M, Root)
         /\ M[Root] = N[Root]
<1> DEFINE new == New(N)
<1>1. DOMAIN M = DOMAIN N \cup {new} /\ \A n \in DOMAIN N : M[n] = N[n]
      BY DEF Grown
<1>2. Root \in DOMAIN N /\ new \notin DOMAIN N /\ new \in DOMAIN M
      BY <1>1, NewNumber, NodeFields DEF Forest
<1>3. ASSUME SumsOK(N, h, 0, 0) PROVE SumsOK(M, h, 1, e)
  <2>1. \A n \in DOMAIN N :
          /\ CountsOf(M)[n] = CountsOf(N)[n] /\ HitsOf(M)[n] = HitsOf(N)[n]
          /\ CountsBelow(M)[n] = CountsBelow(N)[n]
          /\ HitsBelow(M)[n] = HitsBelow(N)[n]
        BY <1>1 DEF CountsOf, HitsOf, CountsBelow, HitsBelow
  <2>2. /\ CountsOf(M)[new] = 1 /\ HitsOf(M)[new] = e
        /\ CountsBelow(M)[new] = 0 /\ HitsBelow(M)[new] = 0
        BY <1>2, WeightsAreNumbers
  <2>3. Adds(M, CountsOf(M), CountsBelow(M), h, 1)
        BY <1>3, <2>1, <2>2, WeightsAreNumbers, AddsGrow DEF SumsOK
  <2>4. Adds(M, HitsOf(M), HitsBelow(M), h, e)
        BY <1>3, <2>1, <2>2, WeightsAreNumbers, AddsGrow DEF SumsOK
  <2> QED BY <2>3, <2>4 DEF SumsOK
<1>4. ASSUME Branching(N, h) PROVE Branching(M, Root)
  <2>1. /\ Kids(M, h) = Kids(N, h) \cup {new}
        /\ new \notin Kids(N, h)
        /\ \A n \in DOMAIN N \ {h} : Kids(M, n) = Kids(N, n)
        BY GrownKids
  <2>2. IsFiniteSet(Kids(N, h)) /\ Cardinality(Kids(N, h)) \in Nat
        BY KidsFinite, FS_CardinalityType DEF Forest
  <2>3. Cardinality(Kids(M, h)) = Cardinality(Kids(N, h)) + 1
        BY <2>1, <2>2, FS_AddElement
  <2>4. M[new].count = 1
        OBVIOUS
  <2> HIDE DEF new
  <2>5. ASSUME NEW n \in DOMAIN M \ {Root}, M[n].count = 0
        PROVE  Cardinality(Kids(M, n)) > 1
    <3>1. n \in DOMAIN N \ {Root} /\ N[n].count = 0
          BY <1>1, <2>4, <2>5
    <3>2. Cardinality(Kids(N, n)) > (IF n = h THEN 0 ELSE 1)
          BY <1>4, <3>1 DEF Branching
    <3>3. CASE n = h
          BY <2>2, <2>3, <3>2, <3>3
    <3>4. CASE n # h
          BY <2>1, <3>1, <3>2, <3>4
    <3> QED BY <3>3, <3>4
  <2> QED BY <2>5 DEF Branching
<1> QED BY <1>1, <1>2, <1>3, <1>4

(* One more sighting of weight e at c, a child of h.                       *)
LEMMA BumpStep ==
  ASSUME NEW N, Forest(N), NEW h \in DOMAIN N, NEW c \in Kids(N, h),
         NEW M, SameShape(N, M), Forest(M), NEW e \in Nat,
         \A n \in DOMAIN N \ {c} : M[n] = N[n],
         M[c].count = N[c].count + 1, M[c].hit = N[c].hit + e,
         M[c].children_count = N[c].children_count,
         M[c].children_hit = N[c].children_hit
  PROVE  /\ SumsOK(N, h, 0, 0) => SumsOK(M, h, 1, e)
         /\ Branching(N, c) => Branching(M, Root)
         /\ M[Root] = N[Root]
<1>1. DOMAIN M = DOMAIN N /\ c \in DOMAIN N /\ c # Root
      BY DEF SameShape, Kids
<1>2. Root \in DOMAIN N
      BY NodeFields DEF Forest
<1>0. \A n : Kids(M, n) = Kids(N, n)
      BY SameKids
<1>3. ASSUME SumsOK(N, h, 0, 0) PROVE SumsOK(M, h, 1, e)
  <2>1. /\ \A n \in DOMAIN N \ {c} : CountsOf(M)[n] = CountsOf(N)[n]
                                     /\ HitsOf(M)[n] = HitsOf(N)[n]
        BY <1>1 DEF CountsOf, HitsOf
  <2>2. CountsOf(M)[c] = CountsOf(N)[c] + 1 /\ HitsOf(M)[c] = HitsOf(N)[c] + e
    <3>1. N[c].count \in Nat /\ N[c].children_count \in Nat
          /\ N[c].hit \in Nat /\ N[c].children_hit \in Nat
          BY <1>1, NodeFields DEF Forest
    <3> QED BY <1>1, <3>1, WeightsAreNumbers
  <2>3. CountsBelow(M) = CountsBelow(N) /\ HitsBelow(M) = HitsBelow(N)
        BY <1>1 DEF CountsBelow, HitsBelow
  <2>4. Adds(N, CountsOf(M), CountsBelow(N), h, 1)
        BY <1>3, <2>1, <2>2, WeightsAreNumbers, AddsBump DEF SumsOK
  <2>5. Adds(N, HitsOf(M), HitsBelow(N), h, e)
        BY <1>3, <2>1, <2>2, WeightsAreNumbers, AddsBump DEF SumsOK
  <2> QED BY <1>0, <1>1, <2>3, <2>4, <2>5 DEF SumsOK, Adds
<1>4. ASSUME Branching(N, c) PROVE Branching(M, Root)
  <2>1. M[c].count # 0
    <3>1. N[c].count \in Nat
          BY <1>1, NodeFields DEF Forest
    <3> QED BY <3>1
  <2> QED BY <1>0, <1>1, <1>4, <2>1 DEF Branching
<1> QED BY <1>1, <1>2, <1>3, <1>4

(* From N to M, h counts one more sample below itself.                     *)
CountsOneMore(N, M, h, e) ==
  /\ \A n \in DOMAIN N \ {h} : M[n] = N[n]
  /\ M[h].count = N[h].count /\ M[h].hit = N[h].hit
  /\ M[h].children_count = N[h].children_count + 1
  /\ M[h].children_hit = N[h].children_hit + e

(* h counts what it waited for, and now its parent waits.                  *)
LEMMA UpStep ==
  ASSUME NEW N, Forest(N), NEW h \in DOMAIN N, NEW e \in Nat,
         NEW M, SameShape(N, M), Forest(M), CountsOneMore(N, M, h, e),
         NEW up, NEW x, NEW y, WaitsNext(N, h, 1, up, x), WaitsNext(N, h, e, up, y)
  PROVE  /\ SumsOK(N, h, 1, e) => SumsOK(M, up, x, y)
         /\ Branching(N, Root) => Branching(M, Root)
<1>1. DOMAIN M = DOMAIN N
      BY DEF SameShape
<1>0. \A n : Kids(M, n) = Kids(N, n)
      BY SameKids
<1>2. /\ \A n \in DOMAIN N \ {h} : M[n] = N[n]
      /\ M[h].count = N[h].count /\ M[h].hit = N[h].hit
      /\ M[h].children_count = N[h].children_count + 1
      /\ M[h].children_hit = N[h].children_hit + e
      BY DEF CountsOneMore
<1>3. ASSUME SumsOK(N, h, 1, e)
      PROVE  SumsOK(M, up, x, y)
  <2>1. \A n \in DOMAIN N \ {h} :
          /\ CountsOf(M)[n] = CountsOf(N)[n] /\ HitsOf(M)[n] = HitsOf(N)[n]
          /\ CountsBelow(M)[n] = CountsBelow(N)[n]
          /\ HitsBelow(M)[n] = HitsBelow(N)[n]
        BY <1>1, <1>2 DEF CountsOf, HitsOf, CountsBelow, HitsBelow
  <2>2. /\ CountsOf(M)[h] = CountsOf(N)[h] + 1
        /\ HitsOf(M)[h] = HitsOf(N)[h] + e
        /\ CountsBelow(M)[h] = CountsBelow(N)[h] + 1
        /\ HitsBelow(M)[h] = HitsBelow(N)[h] + e
    <3>1. N[h].count \in Nat /\ N[h].children_count \in Nat
          /\ N[h].hit \in Nat /\ N[h].children_hit \in Nat
          BY <1>1, NodeFields DEF Forest
    <3> QED BY <1>1, <1>2, <3>1, WeightsAreNumbers
  <2>3. \A n \in DOMAIN N :
          /\ CountsOf(N)[n] \in Nat /\ CountsBelow(N)[n] \in Nat
          /\ HitsOf(N)[n] \in Nat /\ HitsBelow(N)[n] \in Nat
        BY WeightsAreNumbers
  <2>4. Adds(N, CountsOf(M), CountsBelow(M), up, x)
    <3> DEFINE v == CountsOf(N)  w == CountsOf(M)
               a == CountsBelow(N)  b == CountsBelow(M)
    <3>1. /\ \A n \in DOMAIN N : v[n] \in Nat /\ a[n] \in Nat
          /\ \A n \in DOMAIN N \ {h} : w[n] = v[n] /\ b[n] = a[n]
          /\ w[h] = v[h] + 1 /\ b[h] = a[h] + 1
          /\ Adds(N, v, a, h, 1)
          BY <1>3, <2>1, <2>2, <2>3 DEF SumsOK
    <3> HIDE DEF v, w, a, b
    <3>3. Raised(N, v, a, w, b, h, 1)
          BY <3>1 DEF Raised
    <3>2. Adds(N, w, b, up, x)
          BY <3>1, <3>3, AddsUp
    <3> QED BY <3>2 DEF w, b
  <2>5. Adds(N, HitsOf(M), HitsBelow(M), up, y)
    <3> DEFINE v == HitsOf(N)  w == HitsOf(M)
               a == HitsBelow(N)  b == HitsBelow(M)
    <3>1. /\ \A n \in DOMAIN N : v[n] \in Nat /\ a[n] \in Nat
          /\ \A n \in DOMAIN N \ {h} : w[n] = v[n] /\ b[n] = a[n]
          /\ w[h] = v[h] + e /\ b[h] = a[h] + e
          /\ Adds(N, v, a, h, e)
          BY <1>3, <2>1, <2>2, <2>3 DEF SumsOK
    <3> HIDE DEF v, w, a, b
    <3>3. Raised(N, v, a, w, b, h, e)
          BY <3>1 DEF Raised
    <3>2. Adds(N, w, b, up, y)
          BY <3>1, <3>3, AddsUp
    <3> QED BY <3>2 DEF w, b
  <2> QED BY <1>0, <1>1, <2>4, <2>5 DEF SumsOK, Adds
<1>4. ASSUME Branching(N, Root) PROVE Branching(M, Root)
  <2>1. \A n \in DOMAIN N : M[n].count = N[n].count
        BY <1>2
  <2> QED BY <1>0, <1>1, <1>4, <2>1 DEF Branching
<1> QED BY <1>3, <1>4

(* The lower part of c takes the counters, the upper part counts them as   *)
(* those of its children.                                                  *)
LEMMA SplitStep ==
  ASSUME NEW N, Forest(N), NEW c \in DOMAIN N \ {Root}, NEW m,
         NEW M, Split(N, M, c, m), Forest(M), NEW h,
         \A n \in DOMAIN N \ {c} :
           /\ M[n].count = N[n].count /\ M[n].hit = N[n].hit
           /\ M[n].children_count = N[n].children_count
           /\ M[n].children_hit = N[n].children_hit,
         M[New(N)].count = N[c].count, M[New(N)].hit = N[c].hit,
         M[New(N)].children_count = N[c].children_count,
         M[New(N)].children_hit = N[c].children_hit,
         M[c].count = 0, M[c].hit = 0,
         M[c].children_count = CumulCounts(N[c]),
         M[c].children_hit = CumulHits(N[c])
  PROVE  /\ SumsOK(N, h, 0, 0) => SumsOK(M, h, 0, 0)
         /\ Branching(N, Root) => Branching(M, c)
         /\ M[Root].children_count = N[Root].children_count
<1> DEFINE new == New(N)
<1>1. DOMAIN M = DOMAIN N \cup {new}
      BY DEF Split
<1>2. Root \in DOMAIN N /\ new \notin DOMAIN N /\ new \in DOMAIN M
      BY <1>1, NewNumber, NodeFields DEF Forest
<1>3. ASSUME SumsOK(N, h, 0, 0) PROVE SumsOK(M, h, 0, 0)
  <2>1. \A n \in DOMAIN N :
          CountsOf(M)[n] = CountsOf(N)[n] /\ HitsOf(M)[n] = HitsOf(N)[n]
    <3>1. CountsOf(M)[c] = CountsOf(N)[c] /\ HitsOf(M)[c] = HitsOf(N)[c]
          BY <1>1, WeightsAreNumbers DEF CumulCounts, CumulHits
    <3>2. \A n \in DOMAIN N \ {c} :
            CountsOf(M)[n] = CountsOf(N)[n] /\ HitsOf(M)[n] = HitsOf(N)[n]
          BY <1>1 DEF CountsOf, HitsOf, CumulCounts, CumulHits
    <3> QED BY <3>1, <3>2
  <2>2. \A n \in DOMAIN N \ {c} :
          /\ CountsBelow(M)[n] = CountsBelow(N)[n]
          /\ HitsBelow(M)[n] = HitsBelow(N)[n]
        BY <1>1 DEF CountsBelow, HitsBelow
  <2>3. /\ CountsOf(M)[new] = CountsOf(N)[c] /\ HitsOf(M)[new] = HitsOf(N)[c]
        /\ CountsBelow(M)[new] = CountsBelow(N)[c]
        /\ HitsBelow(M)[new] = HitsBelow(N)[c]
        BY <1>2 DEF CountsOf, HitsOf, CountsBelow, HitsBelow, CumulCounts, CumulHits
  <2>4. CountsBelow(M)[c] = CountsOf(N)[c] /\ HitsBelow(M)[c] = HitsOf(N)[c]
        BY <1>1 DEF CountsOf, HitsOf, CountsBelow, HitsBelow
  <2>5. Adds(M, CountsOf(M), CountsBelow(M), h, 0)
        BY <1>3, <2>1, <2>2, <2>3, <2>4, WeightsAreNumbers, AddsSplit DEF SumsOK
  <2>6. Adds(M, HitsOf(M), HitsBelow(M), h, 0)
        BY <1>3, <2>1, <2>2, <2>3, <2>4, WeightsAreNumbers, AddsSplit DEF SumsOK
  <2> QED BY <2>5, <2>6 DEF SumsOK
<1>4. ASSUME Branching(N, Root) PROVE Branching(M, c)
  <2>1. /\ Kids(M, c) = {new}
        /\ Kids(M, new) = Kids(N, c)
        /\ \A n \in DOMAIN N \ {c} : Kids(M, n) = Kids(N, n)
        BY NotOwnParent, SplitKids
  <2>2. Cardinality(Kids(M, c)) = 1
        BY <2>1, FS_Singleton
  <2>3. M[new].count = N[c].count
        OBVIOUS
  <2> HIDE DEF new
  <2>5. ASSUME NEW n \in DOMAIN M \ {Root}, M[n].count = 0
        PROVE  Cardinality(Kids(M, n)) > (IF n = c THEN 0 ELSE 1)
    <3>1. CASE n = c
          BY <2>2, <3>1
    <3>2. CASE n = new
          BY <1>2, <1>4, <2>1, <2>3, <2>5, <3>2 DEF Branching
    <3>3. CASE n \in DOMAIN N \ {c}
          BY <1>4, <2>1, <2>5, <3>3 DEF Branching
    <3> QED BY <1>1, <2>5, <3>1, <3>2, <3>3
  <2> QED BY <2>5 DEF Branching
<1>5. M[Root].children_count = N[Root].children_count
      BY <1>2
<1> QED BY <1>3, <1>4, <1>5

-----------------------------------------------------------------------------
(* The callchains that the nodes count, and the calls that are running.    *)

CountIn(N, s) ==
  SumFunction([n \in {n \in DOMAIN N : PathIn(N)[n] = s} |-> N[n].count])

HitIn(N, s) ==
  SumFunction([n \in {n \in DOMAIN N : PathIn(N)[n] = s} |-> N[n].hit])

(* The count and the weight of a callchain are what the one node says that *)
(* stands for it.                                                          *)
LEMMA CountInCounted ==
  ASSUME NEW N, Forest(N), NEW s
  PROVE  Counted(PathIn(N), N, s, CountIn(N, s), HitIn(N, s))
<1> DEFINE P == PathIn(N)
           D == {n \in DOMAIN N : P[n] = s}
           F == [n \in D |-> N[n].count]
           G == [n \in D |-> N[n].hit]
<1>1. IsPath(P, N)
      BY PathInIsPath
<1>2. /\ CountIn(N, s) = SumFunctionOnSet(F, D)
      /\ HitIn(N, s) = SumFunctionOnSet(G, D)
      BY DEF CountIn, HitIn, SumFunction
<1>3. CASE D = {}
  <2>1. CountIn(N, s) = 0 /\ HitIn(N, s) = 0
        BY <1>2, <1>3, SumEmpty
  <2> QED BY <1>3, <2>1 DEF Counted
<1>4. CASE D # {}
  <2>1. PICK n \in D : TRUE
        BY <1>4
  <2>2. n \in DOMAIN N /\ P[n] = s
        BY <2>1
  <2>3. \A k \in DOMAIN N : P[k] = s => k = n
        BY <1>1, <2>2, PathInjective
  <2>4. D = {n}
        BY <2>2, <2>3
  <2>5. /\ F[n] = N[n].count /\ F[n] \in Nat
        /\ G[n] = N[n].hit /\ G[n] \in Nat
        BY <2>2, NodeFields DEF Forest
  <2>6. CountIn(N, s) = N[n].count /\ HitIn(N, s) = N[n].hit
    <3> HIDE DEF F, G, D
    <3> QED BY <1>2, <2>4, <2>5, SumSingle
  <2> HIDE DEF F, G, D, P
  <2>7. Counted(P, N, s, CountIn(N, s), HitIn(N, s))
        BY <2>2, <2>3, <2>6 DEF Counted
  <2> QED BY <2>7 DEF P
<1> QED BY <1>3, <1>4

(* A callchain has one count and one weight.                               *)
LEMMA CountedOnce ==
  ASSUME NEW P, NEW N, NEW s, NEW k, NEW w, Counted(P, N, s, k, w),
         NEW l, NEW x, Counted(P, N, s, l, x)
  PROVE  k = l /\ w = x
BY DEF Counted

(* A new leaf counts its callchain for the first time.                     *)
LEMMA GrowCounted ==
  ASSUME NEW N, Forest(N), NEW P, NEW h \in DOMAIN N, NEW val,
         NEW M, Grown(N, M, h, val), Forest(M),
         NEW e \in Nat, M[New(N)].count = 1, M[New(N)].hit = e,
         NEW Q, Q = GrownPath(P, N, h, val), IsPath(Q, M),
         NEW s, NEW k, NEW w, Counted(P, N, s, k, w)
  PROVE  Counted(Q, M, s, IF s = P[h] \o val THEN k + 1 ELSE k,
                          IF s = P[h] \o val THEN w + e ELSE w)
<1> DEFINE new == New(N)
<1>1. new \notin DOMAIN N
      BY NewNumber DEF Forest
<1>2. /\ DOMAIN M = DOMAIN N \cup {new} /\ \A n \in DOMAIN N : M[n] = N[n]
      /\ M[new].count = 1 /\ M[new].hit = e
      BY DEF Grown
<1>3. Q[new] = P[h] \o val /\ \A n \in DOMAIN N : Q[n] = P[n]
      BY <1>1 DEF GrownPath
<1> HIDE DEF new
<1>4. \A n \in DOMAIN N : Q[n] # Q[new]
  <2> SUFFICES ASSUME NEW n \in DOMAIN N, Q[n] = Q[new] PROVE FALSE
      OBVIOUS
  <2>1. n \in DOMAIN M /\ new \in DOMAIN M
        BY <1>2
  <2>2. n = new
        BY <2>1, PathInjective
  <2> QED BY <1>1, <2>2
<1>5. CASE s = Q[new]
  <2>1. k = 0 /\ w = 0
        BY <1>3, <1>4, <1>5 DEF Counted
  <2>2. PICK leaf : leaf = P[h] \o val
        OBVIOUS
  <2>3. s = leaf /\ k + 1 = 1 /\ w + e = e
        BY <1>3, <1>5, <2>1, <2>2
  <2>4. \A n \in DOMAIN M : Q[n] = s => M[n].count = 1 /\ M[n].hit = e
        BY <1>2, <1>4, <1>5
  <2>5. new \in DOMAIN M
        BY <1>2
  <2>6. Counted(Q, M, s, 1, e)
        BY <1>5, <2>4, <2>5 DEF Counted
  <2> QED BY <2>2, <2>3, <2>6
<1>6. CASE s # Q[new]
      BY <1>2, <1>3, <1>6 DEF Counted
<1> QED BY <1>5, <1>6

(* A split, with the upper part uncounted, changes no count.               *)
LEMMA SplitCounted ==
  ASSUME NEW N, Forest(N), NEW P, NEW c \in DOMAIN N \ {Root}, NEW m,
         NEW M, Split(N, M, c, m), Forest(M),
         NEW Q, Q = SplitPath(P, N, c, m), IsPath(Q, M),
         \A n \in DOMAIN N \ {c} : M[n].count = N[n].count /\ M[n].hit = N[n].hit,
         M[New(N)].count = N[c].count, M[c].count = 0,
         M[New(N)].hit = N[c].hit, M[c].hit = 0,
         NEW s, NEW k, NEW w, Counted(P, N, s, k, w)
  PROVE  Counted(Q, M, s, k, w)
<1> DEFINE new == New(N)
<1>1. new \notin DOMAIN N /\ c \in DOMAIN N
      BY NewNumber DEF Forest
<1>2. /\ DOMAIN M = DOMAIN N \cup {new}
      /\ M[new].count = N[c].count /\ M[c].count = 0
      /\ M[new].hit = N[c].hit /\ M[c].hit = 0
      BY DEF Split
<1>3. Q[new] = P[c] /\ \A n \in DOMAIN N \ {c} : Q[n] = P[n]
      BY <1>1 DEF SplitPath
<1> HIDE DEF new
<1>4. \A n \in DOMAIN M : Q[n] = Q[c] => n = c
      BY <1>1, <1>2, PathInjective
<1>5. CASE s = Q[c]
  <2>1. \A n \in DOMAIN N : P[n] # s
    <3> SUFFICES ASSUME NEW n \in DOMAIN N, P[n] = s PROVE FALSE
        OBVIOUS
    <3>1. CASE n = c
      <4>1. new = c
            BY <1>2, <1>3, <1>4, <1>5, <3>1
      <4> QED BY <1>1, <4>1
    <3>2. CASE n # c
      <4>1. n = c
            BY <1>2, <1>3, <1>4, <1>5, <3>2
      <4> QED BY <3>2, <4>1
    <3> QED BY <3>1, <3>2
  <2>2. k = 0 /\ w = 0
        BY <2>1 DEF Counted
  <2> QED BY <1>1, <1>2, <1>4, <1>5, <2>2 DEF Counted
<1>6. CASE s # Q[c]
  <2>1. \A n \in DOMAIN M : Q[n] = s => M[n].count = k /\ M[n].hit = w
        BY <1>1, <1>2, <1>3, <1>6 DEF Counted
  <2>2. (\A n \in DOMAIN M : Q[n] # s) => \A n \in DOMAIN N : P[n] # s
        BY <1>1, <1>2, <1>3
  <2> QED BY <2>1, <2>2 DEF Counted
<1> QED BY <1>5, <1>6

(* One more sighting at c.                                                 *)
LEMMA BumpCounted ==
  ASSUME NEW N, Forest(N), NEW P, IsPath(P, N), NEW c \in DOMAIN N,
         NEW M, SameShape(N, M),
         NEW e \in Nat, M[c].count = N[c].count + 1, M[c].hit = N[c].hit + e,
         \A n \in DOMAIN N \ {c} : M[n].count = N[n].count /\ M[n].hit = N[n].hit,
         NEW s, NEW k, NEW w, Counted(P, N, s, k, w)
  PROVE  Counted(P, M, s, IF s = P[c] THEN k + 1 ELSE k,
                          IF s = P[c] THEN w + e ELSE w)
<1>1. DOMAIN M = DOMAIN N
      BY DEF SameShape
<1>2. \A n \in DOMAIN N : P[n] = P[c] => n = c
      BY PathInjective
<1>3. CASE s = P[c]
  <2>1. k = N[c].count /\ w = N[c].hit
        BY <1>3 DEF Counted
  <2> QED BY <1>1, <1>2, <1>3, <2>1 DEF Counted
<1>4. CASE s # P[c]
      BY <1>1, <1>4 DEF Counted
<1> QED BY <1>3, <1>4

(* The running calls are not affected by a new leaf ...                    *)
LEMMA StackGrow ==
  ASSUME NEW N, Forest(N), NEW P, NEW st, StackIn(st, N, P),
         NEW h, NEW val, NEW M, Grown(N, M, h, val)
  PROVE  StackIn(st, M, GrownPath(P, N, h, val))
<1> DEFINE Q == GrownPath(P, N, h, val)
<1>1. \A n \in DOMAIN N : Q[n] = P[n] /\ M[n].parent = N[n].parent
      BY NewNumber DEF Forest, Grown, GrownPath
<1>2. \A i \in 1 .. Len(st) : st[i] \in DOMAIN N
      BY ElementOfSeq DEF StackIn
<1>3. DOMAIN N \subseteq DOMAIN M
      BY DEF Grown
<1> HIDE DEF Q
<1>4. \A i \in 1 .. Len(st) : /\ Q[st[i]] = P[st[i]]
                              /\ M[st[i]].parent = N[st[i]].parent
      BY <1>1, <1>2
<1>5. StackIn(st, M, Q)
      BY <1>3, <1>4, StackKept
<1> QED BY <1>5 DEF Q

(* The node that is split is below the stack, not on it.                   *)
LEMMA StackSplit ==
  ASSUME NEW N, Forest(N), NEW P, IsPath(P, N), NEW st, StackIn(st, N, P),
         st # <<>>, NEW c \in Kids(N, Last(st)),
         NEW m, NEW M, Split(N, M, c, m)
  PROVE  StackIn(st, M, SplitPath(P, N, c, m))
<1> DEFINE Q == SplitPath(P, N, c, m)
<1>1. /\ \A i \in 1 .. Len(st) : st[i] \in DOMAIN N
      /\ Len(st) \in Nat \ {0}
      BY ElementOfSeq, LenProperties, EmptySeq DEF StackIn
<1>2. c \in DOMAIN N \ {Root} /\ N[c].parent = st[Len(st)]
      BY DEF Kids, Last
<1>3. Len(P[st[Len(st)]]) < Len(P[c]) /\ Len(P[c]) \in Nat
      BY <1>2, PathStep DEF Forest
<1>4. \A n \in DOMAIN N : Len(P[n]) \in Nat
      BY LenProperties DEF IsPath
<1>5. \A i \in 1 .. Len(st) : st[i] # c
  <2> TAKE i \in 1 .. Len(st)
  <2>1. Len(P[st[i]]) <= Len(P[st[Len(st)]])
        BY <1>1 DEF StackIn
  <2> QED BY <1>1, <1>3, <1>4, <2>1
<1>6. \A i \in 1 .. Len(st) : M[st[i]].parent = N[st[i]].parent
  <2> TAKE i \in 1 .. Len(st)
  <2>1. M[st[i]].parent = IF st[i] # Root /\ N[st[i]].parent = c
                          THEN New(N) ELSE N[st[i]].parent
        BY <1>1, <1>5 DEF Split
  <2>2. CASE i = 1
        BY <1>1, <2>1, <2>2 DEF StackIn
  <2>3. CASE i # 1
    <3>1. i - 1 \in 1 .. Len(st) - 1 /\ (i - 1) + 1 = i
          BY <1>1, <2>3
    <3>2. N[st[(i - 1) + 1]].parent = st[i - 1]
          BY <3>1 DEF StackIn
    <3>3. i - 1 \in 1 .. Len(st)
          BY <1>1, <3>1
    <3> QED BY <1>5, <2>1, <3>1, <3>2, <3>3
  <2> QED BY <2>2, <2>3
<1>7. \A i \in 1 .. Len(st) : Q[st[i]] = P[st[i]]
  <2>1. \A n \in DOMAIN N \ {c} : Q[n] = P[n]
        BY NewNumber DEF Forest, SplitPath
  <2> HIDE DEF Q
  <2> QED BY <1>1, <1>5, <2>1
<1>8. DOMAIN N \subseteq DOMAIN M
      BY DEF Split
<1> HIDE DEF Q
<1>9. StackIn(st, M, Q)
      BY <1>6, <1>7, <1>8, StackKept
<1> QED BY <1>9 DEF Q

(* ... nor by a change of counters.                                        *)
LEMMA StackCounters ==
  ASSUME NEW N, NEW P, NEW st, StackIn(st, N, P), NEW M, SameShape(N, M)
  PROVE  StackIn(st, M, P)
<1>1. \A i \in 1 .. Len(st) : st[i] \in DOMAIN N
      BY ElementOfSeq DEF StackIn
<1>2. \A n \in DOMAIN N : M[n].parent = N[n].parent
      BY DEF SameShape
<1>3. DOMAIN N \subseteq DOMAIN M
      BY DEF SameShape
<1>4. \A i \in 1 .. Len(st) : /\ P[st[i]] = P[st[i]]
                              /\ M[st[i]].parent = N[st[i]].parent
      BY <1>1, <1>2
<1> QED BY <1>3, <1>4, StackKept

(* A call for a child of the innermost node.                               *)
LEMMA StackPush ==
  ASSUME NEW N, Forest(N), NEW P, IsPath(P, N), NEW st, StackIn(st, N, P),
         st # <<>>, NEW c \in Kids(N, Last(st))
  PROVE  StackIn(Append(st, c), N, P) /\ Last(Append(st, c)) = c
                                      /\ Append(st, c) # <<>>
<1> DEFINE L == Len(st)
           ap == Append(st, c)
<1>1. /\ st \in Seq(DOMAIN N)
      /\ \A i \in 1 .. L : st[i] \in DOMAIN N
      /\ L \in Nat \ {0}
      BY ElementOfSeq, LenProperties, EmptySeq DEF StackIn
<1>2. c \in DOMAIN N \ {Root} /\ N[c].parent = st[L]
      BY DEF Kids, Last
<1>3. /\ ap \in Seq(DOMAIN N) /\ ap # <<>> /\ Len(ap) = L + 1
      /\ \A i \in 1 .. L : ap[i] = st[i]
      /\ ap[L + 1] = c
      BY <1>1, <1>2, AppendProperties
<1>4. Len(P[st[L]]) < Len(P[c]) /\ Len(P[c]) \in Nat
      BY <1>2, PathStep DEF Forest
<1>5. \A n \in DOMAIN N : Len(P[n]) \in Nat
      BY LenProperties DEF IsPath
<1>6. /\ st[1] = Root
      /\ \A i \in 1 .. L - 1 :
           st[i + 1] # Root /\ N[st[i + 1]].parent = st[i]
      /\ \A i, j \in 1 .. L : i <= j => Len(P[st[i]]) <= Len(P[st[j]])
      BY DEF StackIn
<1> HIDE DEF ap, L
<1>7. ap[1] = Root
      BY <1>1, <1>3, <1>6
<1>8. \A i \in 1 .. L : ap[i + 1] # Root /\ N[ap[i + 1]].parent = ap[i]
  <2> TAKE i \in 1 .. L
  <2>1. CASE i = L
        BY <1>1, <1>2, <1>3, <2>1
  <2>2. CASE i # L
    <3>1. i \in 1 .. L - 1 /\ i + 1 \in 1 .. L
          BY <1>1, <2>2
    <3> QED BY <1>3, <1>6, <3>1
  <2> QED BY <2>1, <2>2
<1>9. \A i, j \in 1 .. L + 1 : i <= j => Len(P[ap[i]]) <= Len(P[ap[j]])
  <2> SUFFICES ASSUME NEW i \in 1 .. L + 1, NEW j \in 1 .. L + 1, i <= j
               PROVE  Len(P[ap[i]]) <= Len(P[ap[j]])
      OBVIOUS
  <2>1. CASE j # L + 1
    <3>1. i \in 1 .. L /\ j \in 1 .. L
          BY <1>1, <2>1
    <3> QED BY <1>3, <1>6, <3>1
  <2>2. CASE j = L + 1 /\ i # L + 1
    <3>1. i \in 1 .. L /\ L \in 1 .. L /\ i <= L
          BY <1>1, <2>2
    <3>2. Len(P[st[i]]) <= Len(P[st[L]])
          BY <1>6, <3>1
    <3>3. Len(P[st[i]]) \in Nat /\ Len(P[st[L]]) \in Nat
          BY <1>1, <1>5, <3>1
    <3> QED BY <1>3, <1>4, <2>2, <3>1, <3>2, <3>3
  <2>3. CASE j = L + 1 /\ i = L + 1
        BY <1>3, <1>4, <2>3
  <2> QED BY <2>1, <2>2, <2>3
<1>10. StackIn(ap, N, P)
       BY <1>1, <1>3, <1>7, <1>8, <1>9 DEF StackIn
<1>11. Last(ap) = c
       BY <1>3 DEF Last
<1> QED BY <1>3, <1>10, <1>11 DEF ap

(* The innermost call returns.                                             *)
LEMMA StackPop ==
  ASSUME NEW N, NEW P, NEW st, StackIn(st, N, P), st # <<>>
  PROVE  /\ StackIn(Front(st), N, P)
         /\ Last(st) \in DOMAIN N
         /\ Front(st) = <<>> <=> Last(st) = Root
         /\ Last(st) # Root => Last(Front(st)) = N[Last(st)].parent
<1> DEFINE L == Len(st)
           fr == Front(st)
<1>1. /\ st \in Seq(DOMAIN N)
      /\ \A i \in 1 .. L : st[i] \in DOMAIN N
      /\ L \in Nat \ {0}
      BY ElementOfSeq, LenProperties, EmptySeq DEF StackIn
<1>2. /\ st[1] = Root
      /\ \A i \in 1 .. L - 1 :
           st[i + 1] # Root /\ N[st[i + 1]].parent = st[i]
      /\ \A i, j \in 1 .. L : i <= j => Len(P[st[i]]) <= Len(P[st[j]])
      BY DEF StackIn
<1>3. /\ fr \in Seq(DOMAIN N) /\ Len(fr) = L - 1
      /\ \A i \in 1 .. L - 1 : fr[i] = st[i]
  <2>1. L - 1 \in 0 .. L
        BY <1>1
  <2> QED BY <1>1, <2>1, PrefixOf DEF Front
<1>4. Last(st) = st[L]
      BY DEF Last
<1> HIDE DEF L, fr
<1>5. fr = <<>> <=> L = 1
      BY <1>1, <1>3, EmptySeq
<1>6. L # 1 => /\ st[L] # Root /\ N[st[L]].parent = st[L - 1]
               /\ L - 1 \in 1 .. L - 1
  <2> SUFFICES ASSUME L # 1
               PROVE  /\ st[L] # Root /\ N[st[L]].parent = st[L - 1]
                      /\ L - 1 \in 1 .. L - 1
      OBVIOUS
  <2>1. L - 1 \in 1 .. L - 1 /\ (L - 1) + 1 = L
        BY <1>1
  <2> QED BY <1>2, <2>1
<1>7. StackIn(fr, N, P)
  <2>1. fr # <<>> => fr[1] = Root
        BY <1>1, <1>2, <1>3, <1>5
  <2>2. \A i \in 1 .. (L - 1) - 1 :
          fr[i + 1] # Root /\ N[fr[i + 1]].parent = fr[i]
    <3> TAKE i \in 1 .. (L - 1) - 1
    <3>1. i \in 1 .. L - 1 /\ i + 1 \in 1 .. L - 1
          BY <1>1
    <3> QED BY <1>2, <1>3, <3>1
  <2>3. \A i, j \in 1 .. L - 1 : i <= j => Len(P[fr[i]]) <= Len(P[fr[j]])
    <3> SUFFICES ASSUME NEW i \in 1 .. L - 1, NEW j \in 1 .. L - 1, i <= j
                 PROVE  Len(P[fr[i]]) <= Len(P[fr[j]])
        OBVIOUS
    <3>1. i \in 1 .. L /\ j \in 1 .. L
          BY <1>1
    <3> QED BY <1>2, <1>3, <3>1
  <2> QED BY <1>3, <2>1, <2>2, <2>3 DEF StackIn
<1>8. L # 1 => Last(fr) = N[st[L]].parent
  <2> SUFFICES ASSUME L # 1 PROVE Last(fr) = N[st[L]].parent
      OBVIOUS
  <2>1. Last(fr) = fr[L - 1]
        BY <1>3 DEF Last
  <2> QED BY <1>3, <1>6, <2>1
<1>9. st[L] \in DOMAIN N
      BY <1>1
<1>10. L = 1 => st[L] = Root
       BY <1>2
<1> QED BY <1>4, <1>5, <1>6, <1>7, <1>8, <1>9, <1>10 DEF fr

-----------------------------------------------------------------------------
(* The inductive invariant.                                                *)

(* The sample that the innermost call has yet to count.                    *)
Pending == IF pc = "up" /\ stack # <<>> THEN 1 ELSE 0
PendingHits == IF pc = "up" /\ stack # <<>> THEN period ELSE 0

TreeInv == Forest(nodes) /\ StackIn(stack, nodes, PathIn(nodes))

(* What is in the cursor.  On the way down the path to the current node    *)
(* spells the entries that were passed, and entries remain.                *)
CursorInv ==
  /\ pc \in {"idle", "down", "up"}
  /\ period \in Nat
  /\ pc = "idle" => chain = <<>> /\ pos = 0 /\ stack = <<>>
  /\ pc # "idle" => chain \in Chains /\ pos \in 0 .. Len(chain)
  /\ pc = "down" => /\ pos < Len(chain)
                    /\ stack # <<>>
                    /\ PathIn(nodes)[Here] = SubSeq(chain, 1, pos)

SumsInv ==
  failures = 0 => /\ SumsOK(nodes, Here, Pending, PendingHits)
                  /\ Branching(nodes, Root)

RootInv == SumFunction(appends) = nodes[Root].children_count + Pending

RestInv == max_depth \in Nat /\ appends \in [Chains -> Nat] /\ failures \in Nat

IInv == TreeInv /\ CursorInv /\ SumsInv /\ RootInv /\ RestInv

(* PathOf is PathIn() of the current nodes.                                *)
LEMMA PathOfIsPathIn == PathOf = PathIn(nodes)
BY DEF PathOf, PathIn, Follows

(* What holds while callchain_append() goes down the tree.                 *)
LEMMA GoingDown ==
  ASSUME IInv, pc = "down"
  PROVE  /\ Forest(nodes) /\ IsPath(PathIn(nodes), nodes)
         /\ StackIn(stack, nodes, PathIn(nodes)) /\ stack # <<>>
         /\ Here \in DOMAIN nodes
         /\ chain \in Chains /\ chain \in Seq(Entries) /\ Len(chain) \in Nat
         /\ pos \in Nat /\ pos < Len(chain) /\ pos \in 0 .. Len(chain)
         /\ PathIn(nodes)[Here] = SubSeq(chain, 1, pos)
         /\ period \in Nat
         /\ failures = 0 => SumsOK(nodes, Here, 0, 0) /\ Branching(nodes, Root)
<1>1. TreeInv /\ CursorInv /\ SumsInv
      BY DEF IInv
<1>2. IsPath(PathIn(nodes), nodes)
      BY <1>1, PathInIsPath DEF TreeInv
<1>3. Here \in DOMAIN nodes
      BY <1>1, StackPop DEF TreeInv, CursorInv, Here
<1>4. chain \in Chains
      BY <1>1 DEF CursorInv
<1>5. chain \in Seq(Entries) /\ Len(chain) \in Nat
      BY <1>4, ChainSeq
<1>6. Pending = 0 /\ PendingHits = 0
      BY DEF Pending, PendingHits
<1>7. failures = 0 => SumsOK(nodes, Here, 0, 0) /\ Branching(nodes, Root)
      BY <1>1, <1>6 DEF SumsInv
<1> QED BY <1>1, <1>2, <1>3, <1>4, <1>5, <1>7 DEF TreeInv, CursorInv

(* How a candidate matches the cursor: match_chain_order().                *)
LEMMA Matching ==
  ASSUME IInv, pc = "down", NEW c \in Candidates
  PROVE  /\ c \in Kids(nodes, Here) /\ c \in DOMAIN nodes \ {Root}
         /\ nodes[c].parent = Here
         /\ nodes[c].val \in Seq(Entries) /\ Len(nodes[c].val) \in Nat
         /\ Matches(c) \in 1 .. Len(nodes[c].val)
         /\ pos + Matches(c) <= Len(chain)
         /\ \/ Matches(c) = Len(nodes[c].val)
            \/ pos + Matches(c) = Len(chain)
            \/ nodes[c].val[Matches(c) + 1] # chain[pos + Matches(c) + 1]
         /\ PathIn(nodes)[Here] \o SubSeq(nodes[c].val, 1, Matches(c)) =
              SubSeq(chain, 1, pos + Matches(c))
<1> DEFINE val == nodes[c].val
           Is(m) == /\ pos + m <= Len(chain)
                    /\ \A i \in 1 .. m : val[i] = chain[pos + i]
                    /\ \/ m = Len(val)
                       \/ pos + m = Len(chain)
                       \/ val[m + 1] # chain[pos + m + 1]
<1>1. /\ Forest(nodes)
      /\ chain \in Seq(Entries) /\ Len(chain) \in Nat
      /\ pos \in Nat /\ pos < Len(chain) /\ pos \in 0 .. Len(chain)
      /\ PathIn(nodes)[Here] = SubSeq(chain, 1, pos)
      BY GoingDown
<1>2. c \in DOMAIN nodes \ {Root} /\ nodes[c].parent = Here
      /\ val[1] = chain[pos + 1]
      BY DEF Candidates, Children
<1>3. c \in Kids(nodes, Here)
      BY <1>2 DEF Kids
<1>4. val \in Seq(Entries) /\ val # <<>> /\ Len(val) \in Nat
      BY <1>1, <1>2, NodeFields DEF Forest
<1>5. \E m \in 1 .. Len(val) : Is(m)
  <2> DEFINE s == chain
             k == pos
  <2>1. /\ s \in Seq(Entries) /\ val \in Seq(Entries) /\ k \in Nat
        /\ k < Len(s) /\ val # <<>> /\ val[1] = s[k + 1]
        BY <1>1, <1>2, <1>4
  <2> HIDE DEF val, s, k
  <2>2. \E m \in 1 .. Len(val) :
          /\ k + m <= Len(s)
          /\ \A i \in 1 .. m : val[i] = s[k + i]
          /\ \/ m = Len(val)
             \/ k + m = Len(s)
             \/ val[m + 1] # s[k + m + 1]
        BY <2>1, LongestMatch
  <2> QED BY <2>2 DEF s, k
<1>6. Matches(c) = CHOOSE m \in 1 .. Len(val) : Is(m)
      BY DEF Matches
<1>7. Matches(c) \in 1 .. Len(val) /\ Is(Matches(c))
  <2> HIDE DEF Is, val
  <2> QED BY <1>5, <1>6
<1>8. SubSeq(chain, 1, pos) \o SubSeq(val, 1, Matches(c)) =
        SubSeq(chain, 1, pos + Matches(c))
  <2> DEFINE s == chain
             k == pos
             m == Matches(c)
  <2>1. /\ s \in Seq(Entries) /\ val \in Seq(Entries)
        /\ k \in 0 .. Len(s) /\ m \in 0 .. Len(val) /\ k + m <= Len(s)
        /\ \A i \in 1 .. m : val[i] = s[k + i]
        BY <1>1, <1>4, <1>7
  <2> HIDE DEF val, s, k, m
  <2>2. SubSeq(s, 1, k) \o SubSeq(val, 1, m) = SubSeq(s, 1, k + m)
        BY <2>1, PrefixGoesOn
  <2> QED BY <2>2 DEF s, k, m
<1> QED BY <1>1, <1>2, <1>3, <1>4, <1>7, <1>8

-----------------------------------------------------------------------------
(* What the handlers make of the nodes.                                    *)

(* The paths of M are prefixes of the chain and paths there were before.   *)
Spelled(Q, M) ==
  \A n \in DOMAIN M :
    \/ \E o \in DOMAIN nodes : Q[n] = PathIn(nodes)[o]
    \/ \E k \in 0 .. Len(chain) : Q[n] = SubSeq(chain, 1, k)

(* M has counted the sample of the cursor once, and the current node is    *)
(* the one that has to count it next.                                      *)
Recorded(M) ==
  \E Q : /\ Forest(M) /\ IsPath(Q, M) /\ Spelled(Q, M)
         /\ StackIn(stack, M, Q)
         /\ failures = 0 => SumsOK(M, Here, 1, period) /\ Branching(M, Root)
         /\ M[Root].children_count = nodes[Root].children_count
         /\ \A s, k, w : Counted(PathIn(nodes), nodes, s, k, w) =>
                        Counted(Q, M, s, IF s = chain THEN k + 1 ELSE k,
                                         IF s = chain THEN w + period ELSE w)

(* M has counted nothing.                                                  *)
Unrecorded(M) ==
  \E Q : /\ Forest(M) /\ IsPath(Q, M) /\ Spelled(Q, M)
         /\ M[Root].children_count = nodes[Root].children_count
         /\ \A s, k, w : Counted(PathIn(nodes), nodes, s, k, w) => Counted(Q, M, s, k, w)

(* add_child() records the sample: no node stood for the chain before.     *)
LEMMA AddChildRecorded ==
  ASSUME IInv, pc = "down", Candidates = {},
         NEW M, M = WithNodes([n \in {Fresh} |-> NewLeaf(Here, Remaining)])
  PROVE  Recorded(M)
<1> DEFINE N == nodes
           P == PathIn(nodes)
           h == Here
           val == Remaining
           new == New(N)
           Q == GrownPath(P, N, h, val)
<1>1. /\ Forest(N) /\ IsPath(P, N)
      /\ StackIn(stack, N, P) /\ stack # <<>>
      /\ h \in DOMAIN N
      /\ chain \in Seq(Entries) /\ Len(chain) \in Nat
      /\ pos \in Nat /\ pos < Len(chain) /\ pos \in 0 .. Len(chain)
      /\ P[h] = SubSeq(chain, 1, pos)
      /\ period \in Nat
      /\ failures = 0 => SumsOK(N, h, 0, 0) /\ Branching(N, Root)
      BY GoingDown
<1>2. /\ val \in Seq(Entries) /\ Len(val) = Len(chain) - pos
      /\ val[1] = chain[pos + 1]
      /\ P[h] \o val = chain
      BY <1>1, PrefixAndRest DEF Remaining
<1>3. val # <<>>
  <2>1. Len(val) # 0
    <3> HIDE DEF val
    <3> QED BY <1>1, <1>2
  <2> HIDE DEF val
  <2> QED BY <2>1, EmptySeq
<1>4. \A c \in DOMAIN N \ {Root} : N[c].parent = h => N[c].val[1] # val[1]
      BY <1>2 DEF Candidates, Children
<1>5. new \notin DOMAIN N
      BY <1>1, NewNumber DEF Forest
<1>6. /\ DOMAIN M = DOMAIN N \cup {new}
      /\ \A n \in DOMAIN N : M[n] = N[n]
      /\ M[new] = NewLeaf(h, val)
      BY <1>5 DEF WithNodes, Fresh, New
<1>7. /\ M[new] \in Fields(DOMAIN N)
      /\ M[new].parent = h /\ M[new].val = val
      /\ M[new].count = 1 /\ M[new].children_count = 0
      /\ M[new].hit = period /\ M[new].children_hit = 0
  <2> HIDE DEF val, h, new, N
  <2> QED BY <1>1, <1>2, <1>6 DEF NewLeaf, Fields
<1>8. Grown(N, M, h, val)
      BY <1>6, <1>7 DEF Grown
<1>9. Forest(M) /\ IsPath(Q, M)
  <2> HIDE DEF val, h, N, P
  <2> QED BY <1>1, <1>3, <1>4, <1>8, GrowForest
<1>10. StackIn(stack, M, Q)
  <2> HIDE DEF val, h, N, P
  <2> QED BY <1>1, <1>8, StackGrow
<1>11. /\ SumsOK(N, h, 0, 0) => SumsOK(M, h, 1, period)
       /\ Branching(N, h) => Branching(M, Root)
       /\ M[Root] = N[Root]
  <2> HIDE DEF val, h, N, P
  <2> QED BY <1>1, <1>7, <1>8, <1>9, GrowStep
<1>12. Branching(N, Root) => Branching(N, h)
  <2>1. \A n \in DOMAIN N \ {Root} : Cardinality(Kids(N, n)) \in Nat
        BY <1>1, KidsFinite, FS_CardinalityType DEF Forest
  <2> HIDE DEF h, N
  <2> QED BY <2>1 DEF Branching
<1>13. \A s, k, w : Counted(P, N, s, k, w) =>
                   Counted(Q, M, s, IF s = chain THEN k + 1 ELSE k,
                                    IF s = chain THEN w + period ELSE w)
  <2> SUFFICES ASSUME NEW s, NEW k, NEW w, Counted(P, N, s, k, w)
               PROVE  Counted(Q, M, s, IF s = chain THEN k + 1 ELSE k,
                                       IF s = chain THEN w + period ELSE w)
      OBVIOUS
  <2>1. Counted(Q, M, s, IF s = P[h] \o val THEN k + 1 ELSE k,
                         IF s = P[h] \o val THEN w + period ELSE w)
    <3>1. /\ M[New(N)].count = 1 /\ M[New(N)].hit = period
          /\ Q = GrownPath(P, N, h, val)
          BY <1>7
    <3>2. Forest(N) /\ h \in DOMAIN N /\ period \in Nat
          BY <1>1
    <3> HIDE DEF val, h, N, P, Q
    <3> QED BY <1>8, <1>9, <3>1, <3>2, GrowCounted
  <2> HIDE DEF P, Q, h, val
  <2> QED BY <1>2, <2>1
<1>14. Spelled(Q, M)
  <2>1. ASSUME NEW n \in DOMAIN M, n # new
        PROVE  n \in DOMAIN nodes /\ Q[n] = PathIn(nodes)[n]
        BY <1>6, <2>1 DEF GrownPath
  <2>2. Q[new] = chain
        BY <1>2 DEF GrownPath
  <2>3. chain = SubSeq(chain, 1, Len(chain)) /\ Len(chain) \in 0 .. Len(chain)
        BY <1>1, SubSeqFull
  <2> HIDE DEF Q, new, N, P
  <2> QED BY <2>1, <2>2, <2>3 DEF Spelled
<1> HIDE DEF Q
<1> QED BY <1>1, <1>9, <1>10, <1>11, <1>12, <1>13, <1>14 DEF Recorded

(* The nodes after a split, before anything is counted at c.               *)
Halves(c) == [SplitNodes(c, Matches(c), Fresh) EXCEPT ![c].hit = 0, ![c].count = 0]

(* SplitNodes() is a split, apart from the own counters of c.              *)
LEMMA HalvesSplit ==
  ASSUME IInv, pc = "down", NEW c \in Candidates,
         Matches(c) < Len(nodes[c].val),
         NEW H, H = Halves(c)
  PROVE  /\ Split(nodes, H, c, Matches(c))
         /\ \A n \in DOMAIN nodes \ {c} :
              /\ H[n].count = nodes[n].count /\ H[n].hit = nodes[n].hit
              /\ H[n].children_count = nodes[n].children_count
              /\ H[n].children_hit = nodes[n].children_hit
         /\ H[New(nodes)].count = nodes[c].count
         /\ H[New(nodes)].hit = nodes[c].hit
         /\ H[New(nodes)].children_count = nodes[c].children_count
         /\ H[New(nodes)].children_hit = nodes[c].children_hit
         /\ H[c].count = 0 /\ H[c].hit = 0
         /\ H[c].children_count = CumulCounts(nodes[c])
         /\ H[c].children_hit = CumulHits(nodes[c])
<1> DEFINE N == nodes
           D == DOMAIN nodes
           m == Matches(c)
           new == New(nodes)
           val == nodes[c].val
<1>1. /\ Forest(N)
      /\ c \in D \ {Root}
      /\ val \in Seq(Entries) /\ Len(val) \in Nat
      /\ m \in 1 .. Len(val) - 1
      BY GoingDown, Matching
<1>2. new \notin D /\ new # Root
      BY <1>1, NewNumber DEF Forest
<1>3. \A n \in D : N[n] \in Fields(D)
      BY <1>1 DEF Forest, Typed
<1>4. /\ SubSeq(val, 1, m) \in Seq(Entries)
      /\ SubSeq(val, m + 1, Len(val)) \in Seq(Entries)
  <2>1. m \in 0 .. Len(val)
        BY <1>1
  <2> HIDE DEF val, m
  <2> QED BY <1>1, <2>1, PrefixAndRest
<1>5. /\ DOMAIN H = D \cup {new}
      /\ H[new] = Lower(c, m)
      /\ H[c] = [Upper(c, m) EXCEPT !.hit = 0, !.count = 0]
      /\ \A n \in D \ {c} :
           H[n] = IF n \in Children(c) THEN [N[n] EXCEPT !.parent = new] ELSE N[n]
  <2> DEFINE S == SplitNodes(c, m, new)
  <2>1. /\ DOMAIN S = D \cup {new}
        /\ S[new] = Lower(c, m)
        /\ S[c] = Upper(c, m)
        /\ \A n \in D \ {c} :
             S[n] = IF n \in Children(c) THEN [N[n] EXCEPT !.parent = new] ELSE N[n]
    <3> HIDE DEF m, new
    <3> QED BY <1>1, <1>2 DEF SplitNodes
  <2>2. H = [S EXCEPT ![c].hit = 0, ![c].count = 0]
        BY DEF Halves, Fresh, New
  <2> HIDE DEF S, new, m
  <2> QED BY <1>1, <1>2, <2>1, <2>2
<1>6. \A n \in D : n \in Children(c) <=> n # Root /\ N[n].parent = c
      BY DEF Children
<1>7. /\ H[new] \in Fields(D) /\ H[new].parent = c
      /\ H[new].val = SubSeq(val, m + 1, Len(val))
      /\ H[new].count = N[c].count /\ H[new].hit = N[c].hit
      /\ H[new].children_count = N[c].children_count
      /\ H[new].children_hit = N[c].children_hit
  <2> HIDE DEF new, m
  <2> QED BY <1>1, <1>3, <1>4, <1>5 DEF Lower, Fields
<1>8. /\ H[c] \in Fields(D) /\ H[c].parent = N[c].parent
      /\ H[c].val = SubSeq(val, 1, m)
      /\ H[c].count = 0 /\ H[c].hit = 0
      /\ H[c].children_count = CumulCounts(N[c])
      /\ H[c].children_hit = CumulHits(N[c])
  <2>1. N[c] \in Fields(D)
        BY <1>1, <1>3
  <2>2. CumulCounts(N[c]) \in Nat /\ CumulHits(N[c]) \in Nat
    <3> HIDE DEF N
    <3> QED BY <2>1 DEF Fields, CumulCounts, CumulHits
  <2>3. H[c] = [N[c] EXCEPT !.val = SubSeq(val, 1, m),
                            !.children_hit = CumulHits(N[c]),
                            !.children_count = CumulCounts(N[c]),
                            !.hit = 0, !.count = 0]
    <3>1. N[c].val = val
          OBVIOUS
    <3> HIDE DEF new, m
    <3> QED BY <1>5, <2>1 DEF Upper, Fields
  <2> DEFINE r == N[c]
             v == SubSeq(val, 1, m)
             x == CumulCounts(r)
             y == CumulHits(r)
  <2>4. /\ r \in Fields(D) /\ x \in Nat /\ y \in Nat /\ v \in Seq(Entries)
        /\ H[c] = [r EXCEPT !.val = v, !.children_hit = y,
                            !.children_count = x, !.hit = 0, !.count = 0]
        BY <1>4, <2>1, <2>2, <2>3
  <2> HIDE DEF r, v, x, y, D
  <2>5. /\ H[c] \in Fields(D) /\ H[c].parent = r.parent /\ H[c].val = v
        /\ H[c].count = 0 /\ H[c].hit = 0
        /\ H[c].children_count = x /\ H[c].children_hit = y
    <3>1. H[c] = [parent |-> r.parent, val |-> v, count |-> 0,
                  children_count |-> x, hit |-> 0, children_hit |-> y]
      <4>1. r = [parent |-> r.parent, val |-> r.val, count |-> r.count,
                 children_count |-> r.children_count, hit |-> r.hit,
                 children_hit |-> r.children_hit]
            BY <2>4 DEF Fields
      <4> QED BY <2>4, <4>1
    <3>2. r.parent \in D
          BY <2>4 DEF Fields
    <3> QED BY <2>4, <3>1, <3>2 DEF Fields
  <2> QED BY <2>5 DEF r, v, x, y
<1>9. \A n \in D \ {c} :
        /\ H[n] \in Fields(D \cup {new})
        /\ H[n].val = N[n].val
        /\ H[n].parent = IF n # Root /\ N[n].parent = c THEN new ELSE N[n].parent
        /\ H[n].count = N[n].count /\ H[n].hit = N[n].hit
        /\ H[n].children_count = N[n].children_count
        /\ H[n].children_hit = N[n].children_hit
  <2> TAKE n \in D \ {c}
  <2> HIDE DEF new, m
  <2>1. CASE n \in Children(c)
        BY <1>3, <1>5, <1>6, <2>1 DEF Fields
  <2>2. CASE n \notin Children(c)
        BY <1>3, <1>5, <1>6, <2>2 DEF Fields
  <2> QED BY <2>1, <2>2
<1>10. Fields(D) \subseteq Fields(D \cup {new})
       BY DEF Fields
<1>11. Split(N, H, c, m)
  <2>1. \A n \in DOMAIN H : H[n] \in Fields(DOMAIN H)
    <3> HIDE DEF new, m
    <3> QED BY <1>5, <1>7, <1>8, <1>9, <1>10
  <2> HIDE DEF m
  <2> QED BY <1>5, <1>7, <1>8, <1>9, <2>1 DEF Split
<1> HIDE DEF m, D
<1> QED BY <1>7, <1>8, <1>9, <1>11 DEF m, D

(* A split changes the nodes, and nothing that they say.                   *)
LEMMA HalvesKept ==
  ASSUME IInv, pc = "down", NEW c \in Candidates,
         Matches(c) < Len(nodes[c].val),
         NEW H, H = Halves(c)
  PROVE  \E Q :
           /\ Forest(H) /\ IsPath(Q, H) /\ Spelled(Q, H)
           /\ StackIn(stack, H, Q)
           /\ failures = 0 => SumsOK(H, Here, 0, 0) /\ Branching(H, c)
           /\ H[Root].children_count = nodes[Root].children_count
           /\ \A s, k, w : Counted(PathIn(nodes), nodes, s, k, w) => Counted(Q, H, s, k, w)
           /\ Q[c] = SubSeq(chain, 1, pos + Matches(c))
           /\ c \in DOMAIN H \ {Root} /\ H[c].parent = Here
           /\ Here \in DOMAIN H
           /\ Kids(H, c) = {New(nodes)}
           /\ H[New(nodes)].val[1] = nodes[c].val[Matches(c) + 1]
<1> DEFINE N == nodes
           P == PathIn(nodes)
           h == Here
           m == Matches(c)
           new == New(N)
           val == nodes[c].val
           Q == SplitPath(P, N, c, m)
<1>1. /\ Forest(N) /\ IsPath(P, N)
      /\ StackIn(stack, N, P) /\ stack # <<>>
      /\ h \in DOMAIN N
      /\ failures = 0 => SumsOK(N, h, 0, 0) /\ Branching(N, Root)
      BY GoingDown
<1>2. /\ c \in Kids(N, h) /\ c \in DOMAIN N \ {Root} /\ N[c].parent = h
      /\ val \in Seq(Entries) /\ Len(val) \in Nat
      /\ m \in 1 .. Len(val) - 1
      /\ P[h] \o SubSeq(val, 1, m) = SubSeq(chain, 1, pos + m)
  <2>1. /\ c \in Kids(N, h) /\ c \in DOMAIN N \ {Root} /\ N[c].parent = h
        /\ val \in Seq(Entries) /\ Len(val) \in Nat
        /\ m \in 1 .. Len(val)
        /\ P[h] \o SubSeq(val, 1, m) = SubSeq(chain, 1, pos + m)
        BY Matching
  <2>2. m < Len(val)
        OBVIOUS
  <2>3. m \in 1 .. Len(val) - 1
    <3> HIDE DEF m, val
    <3> QED BY <2>1, <2>2
  <2> QED BY <2>1, <2>3
<1>3. /\ Split(N, H, c, m)
      /\ \A n \in DOMAIN N \ {c} :
           /\ H[n].count = N[n].count /\ H[n].hit = N[n].hit
           /\ H[n].children_count = N[n].children_count
           /\ H[n].children_hit = N[n].children_hit
      /\ H[New(N)].count = N[c].count
      /\ H[New(N)].hit = N[c].hit
      /\ H[New(N)].children_count = N[c].children_count
      /\ H[New(N)].children_hit = N[c].children_hit
      /\ H[c].count = 0 /\ H[c].hit = 0
      /\ H[c].children_count = CumulCounts(N[c])
      /\ H[c].children_hit = CumulHits(N[c])
      BY HalvesSplit
<1> HIDE DEF N, P, h, m
<1>4. Forest(H) /\ IsPath(Q, H)
      BY <1>1, <1>2, <1>3, SplitForest DEF N
<1>5. StackIn(stack, H, Q)
      BY <1>1, <1>2, <1>3, StackSplit DEF h, Here
<1>0. /\ SumsOK(N, h, 0, 0) => SumsOK(H, h, 0, 0)
      /\ Branching(N, Root) => Branching(H, c)
      /\ H[Root].children_count = N[Root].children_count
  <2>1. Forest(N) /\ c \in DOMAIN N \ {Root} /\ Split(N, H, c, m) /\ Forest(H)
        BY <1>1, <1>2, <1>3, <1>4
  <2> QED BY <1>3, <2>1, SplitStep
<1>6. failures = 0 => SumsOK(H, h, 0, 0) /\ Branching(H, c)
      BY <1>0, <1>1
<1>7. H[Root].children_count = N[Root].children_count
      BY <1>0
<1>8. ASSUME NEW s, NEW k, NEW w, Counted(P, N, s, k, w) PROVE Counted(Q, H, s, k, w)
  <2>1. Q = SplitPath(P, N, c, m)
        OBVIOUS
  <2> HIDE DEF Q
  <2> QED BY <1>1, <1>2, <1>3, <1>4, <1>8, <2>1, SplitCounted
<1>9. Q[c] = SubSeq(chain, 1, pos + m)
  <2>1. New(N) # c
        BY <1>1, <1>2, NewNumber DEF Forest
  <2>2. Q[c] = P[N[c].parent] \o SubSeq(N[c].val, 1, m)
        BY <1>2, <2>1 DEF SplitPath
  <2> QED BY <1>2, <2>2 DEF N
<1>10. Kids(H, c) = {New(N)}
       BY <1>1, <1>2, <1>3, NotOwnParent, SplitKids
<1>11. /\ c \in DOMAIN H \ {Root} /\ H[c].parent = h
       /\ h \in DOMAIN H
       /\ H[new].val = SubSeq(N[c].val, m + 1, Len(N[c].val))
       BY <1>1, <1>2, <1>3 DEF Split
<1>12. H[new].val[1] = val[m + 1]
  <2>1. m \in 0 .. Len(val) /\ m < Len(val)
        BY <1>2
  <2>2. N[c].val = val
        BY DEF N
  <2> HIDE DEF val
  <2> QED BY <1>2, <1>11, <2>1, <2>2, PrefixAndRest
<1>13. Spelled(Q, H)
  <2>1. DOMAIN H = DOMAIN N \cup {New(N)}
        BY <1>3 DEF Split
  <2>2. ASSUME NEW n \in DOMAIN H, n # c
        PROVE  \E o \in DOMAIN N : Q[n] = P[o]
        BY <1>2, <2>1, <2>2 DEF SplitPath
  <2>3. pos + m \in 0 .. Len(chain)
        BY Matching, GoingDown DEF m
  <2> HIDE DEF Q
  <2> QED BY <1>9, <2>2, <2>3 DEF Spelled, N, P
<1> HIDE DEF Q
<1> QED BY <1>4, <1>5, <1>6, <1>7, <1>8, <1>9, <1>10, <1>11, <1>12, <1>13 DEF N, P, h, m

SetOwn(S, c, x, y) == [S EXCEPT ![c].hit = y, ![c].count = x]
SetAll(S, c, e) ==
  [S EXCEPT ![c].hit = 0, ![c].children_hit = @ + e,
            ![c].count = 0, ![c].children_count = @ + 1]

(* The upper part is counted once, after a split that left it uncounted.   *)
LEMMA SetTwice ==
  ASSUME NEW S, NEW c \in DOMAIN S, S[c] \in Fields(DOMAIN S), NEW e \in Nat,
         NEW H, H = SetOwn(S, c, 0, 0), Forest(H),
         NEW M, M = SetOwn(S, c, 1, e)
  PROVE  /\ SameShape(H, M)
         /\ \A n \in DOMAIN H \ {c} : M[n] = H[n]
         /\ M[c].count = H[c].count + 1 /\ M[c].hit = H[c].hit + e
         /\ M[c].children_count = H[c].children_count
         /\ M[c].children_hit = H[c].children_hit
<1>1. /\ DOMAIN H = DOMAIN S
      /\ \A n \in DOMAIN S \ {c} : H[n] = S[n]
      /\ H[c] = [S[c] EXCEPT !.hit = 0, !.count = 0]
      BY DEF SetOwn
<1>4. /\ DOMAIN M = DOMAIN S
      /\ \A n \in DOMAIN S \ {c} : M[n] = S[n]
      /\ M[c] = [S[c] EXCEPT !.hit = e, !.count = 1]
      BY DEF SetOwn
<1> DEFINE r == S[c]
           D == DOMAIN S
<1>2. r \in Fields(D)
      OBVIOUS
<1>0. H[c] = [r EXCEPT !.hit = 0, !.count = 0]
      /\ M[c] = [r EXCEPT !.hit = e, !.count = 1]
      BY <1>1, <1>4
<1> HIDE DEF r, D
<1>3. /\ H[c].parent = r.parent /\ H[c].val = r.val
      /\ H[c].count = 0 /\ H[c].hit = 0
      /\ H[c].children_count = r.children_count
      /\ H[c].children_hit = r.children_hit
      BY <1>0, <1>2 DEF Fields
<1>5. /\ M[c] \in Fields(D)
      /\ M[c].parent = r.parent /\ M[c].val = r.val
  <2>1. r = [parent |-> r.parent, val |-> r.val, count |-> r.count,
             children_count |-> r.children_count, hit |-> r.hit,
             children_hit |-> r.children_hit]
        BY <1>2 DEF Fields
  <2>2. M[c] = [parent |-> r.parent, val |-> r.val, count |-> 1,
                children_count |-> r.children_count, hit |-> e,
                children_hit |-> r.children_hit]
        BY <1>0, <2>1
  <2>3. /\ r.parent \in D /\ r.val \in Seq(Entries)
        /\ r.children_count \in Nat /\ r.children_hit \in Nat
        BY <1>2 DEF Fields
  <2> QED BY <2>2, <2>3 DEF Fields
<1>6. /\ M[c].count = 1 /\ M[c].hit = e
      /\ M[c].children_count = r.children_count
      /\ M[c].children_hit = r.children_hit
      BY <1>0, <1>2 DEF Fields
<1>7. \A n \in DOMAIN H : H[n] \in Fields(DOMAIN H)
      BY DEF Forest, Typed
<1>8. SameShape(H, M)
      BY <1>1, <1>3, <1>4, <1>5, <1>7 DEF SameShape, D
<1> QED BY <1>1, <1>3, <1>4, <1>6, <1>8

(* The node that is split is still there, with the fields of a node.       *)
LEMMA SplitNodesFields ==
  ASSUME IInv, pc = "down", NEW c \in Candidates,
         Matches(c) < Len(nodes[c].val),
         NEW S, S = SplitNodes(c, Matches(c), Fresh)
  PROVE  /\ DOMAIN S = DOMAIN nodes \cup {New(nodes)}
         /\ c \in DOMAIN S
         /\ S[c] \in Fields(DOMAIN nodes)
<1> DEFINE m == Matches(c)
           val == nodes[c].val
<1>1. /\ Forest(nodes)
      /\ c \in DOMAIN nodes \ {Root}
      /\ val \in Seq(Entries) /\ Len(val) \in Nat
      /\ m \in 1 .. Len(val)
      BY GoingDown, Matching
<1>2. New(nodes) \notin DOMAIN nodes
      BY <1>1, NewNumber DEF Forest
<1>3. SubSeq(val, 1, m) \in Seq(Entries)
  <2>1. m \in 0 .. Len(val)
        BY <1>1
  <2> HIDE DEF val, m
  <2> QED BY <1>1, <2>1, PrefixOf
<1>4. DOMAIN S = DOMAIN nodes \cup {New(nodes)} /\ S[c] = Upper(c, m)
  <2> HIDE DEF m
  <2> QED BY <1>1, <1>2 DEF SplitNodes, Fresh, New, m
<1>5. nodes[c] \in Fields(DOMAIN nodes)
      BY <1>1 DEF Forest, Typed
<1>6. CumulCounts(nodes[c]) \in Nat /\ CumulHits(nodes[c]) \in Nat
      BY <1>5 DEF Fields, CumulCounts, CumulHits
<1>7. Upper(c, m) \in Fields(DOMAIN nodes)
  <2> DEFINE r == nodes[c]
             v == SubSeq(val, 1, m)
             x == CumulCounts(nodes[c])
             y == CumulHits(nodes[c])
             D == DOMAIN nodes
  <2>1. /\ Upper(c, m) = [r EXCEPT !.val = v, !.children_hit = y, !.children_count = x]
        /\ r \in Fields(D) /\ v \in Seq(Entries) /\ x \in Nat /\ y \in Nat
        BY <1>3, <1>5, <1>6 DEF Upper
  <2> HIDE DEF r, v, x, y, D, m
  <2>2. Upper(c, m) \in Fields(D)
        BY <2>1 DEF Fields
  <2> QED BY <2>2 DEF D
<1> QED BY <1>1, <1>4, <1>7

(* append_chain() records the sample when the chain ends at the split.     *)
LEMMA SplitAtEndRecorded ==
  ASSUME IInv, pc = "down", NEW c \in Candidates,
         Matches(c) < Len(nodes[c].val), pos + Matches(c) = Len(chain),
         NEW M, M = SetOwn(SplitNodes(c, Matches(c), Fresh), c, 1, period)
  PROVE  Recorded(M)
<1> DEFINE H == Halves(c)
           S == SplitNodes(c, Matches(c), Fresh)
           h == Here
           P == PathIn(nodes)
<1>1. PICK Q :
           /\ Forest(H) /\ IsPath(Q, H) /\ Spelled(Q, H)
           /\ StackIn(stack, H, Q)
           /\ failures = 0 => SumsOK(H, h, 0, 0) /\ Branching(H, c)
           /\ H[Root].children_count = nodes[Root].children_count
           /\ \A s, k, w : Counted(P, nodes, s, k, w) => Counted(Q, H, s, k, w)
           /\ Q[c] = SubSeq(chain, 1, pos + Matches(c))
           /\ c \in DOMAIN H \ {Root} /\ H[c].parent = h
           /\ h \in DOMAIN H
      BY HalvesKept
<1>2. /\ c \in DOMAIN S /\ S[c] \in Fields(DOMAIN nodes)
      /\ DOMAIN nodes \subseteq DOMAIN S
      BY SplitNodesFields
<1>3. period \in Nat /\ chain \in Seq(Entries)
      BY GoingDown
<1>4. M = SetOwn(S, c, 1, period) /\ H = SetOwn(S, c, 0, 0)
      BY DEF Halves, SetOwn
<1>16. Forest(H) /\ IsPath(Q, H) /\ h \in DOMAIN H /\ c \in DOMAIN H
      BY <1>1
<1>5. S[c] \in Fields(DOMAIN S)
      BY <1>2 DEF Fields
<1> HIDE DEF S, H, h, P
<1>8. SameShape(H, M)
      BY <1>2, <1>3, <1>4, <1>5, <1>16, SetTwice
<1>9. /\ \A n \in DOMAIN H \ {c} : M[n] = H[n]
      /\ M[c].count = H[c].count + 1 /\ M[c].hit = H[c].hit + period
      /\ M[c].children_count = H[c].children_count
      /\ M[c].children_hit = H[c].children_hit
      BY <1>2, <1>3, <1>4, <1>5, <1>16, SetTwice
<1>10. Forest(M) /\ IsPath(Q, M)
       BY <1>1, <1>8, CountersForest
<1>11. StackIn(stack, M, Q)
       BY <1>1, <1>8, StackCounters
<1>12. c \in Kids(H, h)
       BY <1>1 DEF Kids
<1>13. /\ SumsOK(H, h, 0, 0) => SumsOK(M, h, 1, period)
       /\ Branching(H, c) => Branching(M, Root)
       /\ M[Root] = H[Root]
       BY <1>3, <1>8, <1>9, <1>10, <1>12, <1>16, BumpStep
<1>14. Q[c] = chain
       BY <1>1, <1>3, SubSeqFull
<1>15. ASSUME NEW s, NEW k, NEW w, Counted(P, nodes, s, k, w)
       PROVE  Counted(Q, M, s, IF s = chain THEN k + 1 ELSE k,
                               IF s = chain THEN w + period ELSE w)
  <2>1. Counted(Q, H, s, k, w)
        BY <1>1, <1>15
  <2>2. Counted(Q, M, s, IF s = Q[c] THEN k + 1 ELSE k,
                         IF s = Q[c] THEN w + period ELSE w)
    <3>1. \A n \in DOMAIN H \ {c} : M[n].count = H[n].count /\ M[n].hit = H[n].hit
          BY <1>9
    <3> QED BY <1>3, <1>8, <1>9, <1>16, <2>1, <3>1, BumpCounted
  <2> QED BY <1>14, <2>2
<1>17. Spelled(Q, M)
       BY <1>1, <1>8 DEF Spelled, SameShape
<1> QED BY <1>1, <1>10, <1>11, <1>13, <1>15, <1>17 DEF Recorded, h, P

(* The upper part counts a sample below it, after a split that did not.    *)
LEMMA SetBelow ==
  ASSUME NEW S, NEW c \in DOMAIN S, S[c] \in Fields(DOMAIN S), NEW e \in Nat,
         NEW H, H = SetOwn(S, c, 0, 0), Forest(H),
         NEW T, T = SetAll(S, c, e)
  PROVE  /\ SameShape(H, T)
         /\ \A n \in DOMAIN H \ {c} : T[n] = H[n]
         /\ T[c].count = H[c].count /\ T[c].hit = H[c].hit
         /\ T[c].children_count = H[c].children_count + 1
         /\ T[c].children_hit = H[c].children_hit + e
<1>1. /\ DOMAIN H = DOMAIN S
      /\ \A n \in DOMAIN S \ {c} : H[n] = S[n]
      /\ H[c] = [S[c] EXCEPT !.hit = 0, !.count = 0]
      BY DEF SetOwn
<1>2. /\ DOMAIN T = DOMAIN S
      /\ \A n \in DOMAIN S \ {c} : T[n] = S[n]
      BY DEF SetAll
<1> DEFINE r == S[c]
           D == DOMAIN S
<1>3. /\ r \in Fields(D)
      /\ T[c] = [r EXCEPT !.hit = 0, !.children_hit = @ + e,
                          !.count = 0, !.children_count = @ + 1]
      BY DEF SetAll
<1>4. H[c] = [r EXCEPT !.hit = 0, !.count = 0]
      BY <1>1
<1> HIDE DEF r, D
<1>5. r = [parent |-> r.parent, val |-> r.val, count |-> r.count,
           children_count |-> r.children_count, hit |-> r.hit,
           children_hit |-> r.children_hit]
      BY <1>3 DEF Fields
<1>6. T[c] = [parent |-> r.parent, val |-> r.val, count |-> 0,
              children_count |-> r.children_count + 1, hit |-> 0,
              children_hit |-> r.children_hit + e]
      BY <1>3, <1>5
<1>7. /\ r.parent \in D /\ r.val \in Seq(Entries)
      /\ r.children_count + 1 \in Nat /\ r.children_hit + e \in Nat
      BY <1>3 DEF Fields
<1>8. /\ T[c] \in Fields(D)
      /\ T[c].parent = r.parent /\ T[c].val = r.val
  <2>1. T[c] \in Fields(D)
        BY <1>6, <1>7 DEF Fields
  <2> QED BY <1>6, <2>1
<1>9. /\ T[c].count = 0 /\ T[c].hit = 0
      /\ T[c].children_count = r.children_count + 1
      /\ T[c].children_hit = r.children_hit + e
      BY <1>6
<1>10. /\ H[c].parent = r.parent /\ H[c].val = r.val
       /\ H[c].count = 0 /\ H[c].hit = 0
       /\ H[c].children_count = r.children_count
       /\ H[c].children_hit = r.children_hit
       BY <1>3, <1>4 DEF Fields
<1>11. \A n \in DOMAIN H : H[n] \in Fields(DOMAIN H)
       BY DEF Forest, Typed
<1>12. SameShape(H, T)
       BY <1>1, <1>2, <1>8, <1>10, <1>11 DEF SameShape, D
<1> QED BY <1>1, <1>2, <1>9, <1>10, <1>12

(* A sample counted at a node.                                             *)
AddOwn(S, c, e) == [S EXCEPT ![c].hit = @ + e, ![c].count = @ + 1]

(* Adding to the own counters of one node changes nothing else.            *)
LEMMA AddOwnShape ==
  ASSUME NEW S, NEW c \in DOMAIN S, Forest(S), NEW e \in Nat,
         NEW M, M = AddOwn(S, c, e)
  PROVE  /\ SameShape(S, M)
         /\ \A n \in DOMAIN S \ {c} : M[n] = S[n]
         /\ M[c].count = S[c].count + 1 /\ M[c].hit = S[c].hit + e
         /\ M[c].children_count = S[c].children_count
         /\ M[c].children_hit = S[c].children_hit
<1> DEFINE r == S[c]
           D == DOMAIN S
<1>1. /\ DOMAIN M = D
      /\ \A n \in D \ {c} : M[n] = S[n]
      /\ M[c] = [r EXCEPT !.hit = @ + e, !.count = @ + 1]
      BY DEF AddOwn
<1>2. \A n \in D : S[n] \in Fields(D)
      BY DEF Forest, Typed
<1>3. r \in Fields(D)
      BY <1>2
<1> HIDE DEF r, D
<1>4. r = [parent |-> r.parent, val |-> r.val, count |-> r.count,
           children_count |-> r.children_count, hit |-> r.hit,
           children_hit |-> r.children_hit]
      BY <1>3 DEF Fields
<1>5. M[c] = [parent |-> r.parent, val |-> r.val, count |-> r.count + 1,
              children_count |-> r.children_count, hit |-> r.hit + e,
              children_hit |-> r.children_hit]
      BY <1>1, <1>4
<1>6. /\ r.parent \in D /\ r.val \in Seq(Entries)
      /\ r.count + 1 \in Nat /\ r.hit + e \in Nat
      /\ r.children_count \in Nat /\ r.children_hit \in Nat
      BY <1>3 DEF Fields
<1>7. M[c] \in Fields(D)
      BY <1>5, <1>6 DEF Fields
<1>8. SameShape(S, M)
      BY <1>1, <1>2, <1>5, <1>7 DEF SameShape, D, r
<1> QED BY <1>1, <1>5, <1>8 DEF r, D

(* A sample counted below a node.                                          *)
AddBelow(S, c, e) ==
  [S EXCEPT ![c].children_hit = @ + e, ![c].children_count = @ + 1]

(* Nor does adding to the counters it keeps for its children.              *)
LEMMA AddBelowShape ==
  ASSUME NEW S, NEW c \in DOMAIN S, Forest(S), NEW e \in Nat,
         NEW M, M = AddBelow(S, c, e)
  PROVE  /\ SameShape(S, M)
         /\ \A n \in DOMAIN S \ {c} : M[n] = S[n]
         /\ M[c].count = S[c].count /\ M[c].hit = S[c].hit
         /\ M[c].children_count = S[c].children_count + 1
         /\ M[c].children_hit = S[c].children_hit + e
<1> DEFINE r == S[c]
           D == DOMAIN S
<1>1. /\ DOMAIN M = D
      /\ \A n \in D \ {c} : M[n] = S[n]
      /\ M[c] = [r EXCEPT !.children_hit = @ + e, !.children_count = @ + 1]
      BY DEF AddBelow
<1>2. \A n \in D : S[n] \in Fields(D)
      BY DEF Forest, Typed
<1>3. r \in Fields(D)
      BY <1>2
<1> HIDE DEF r, D
<1>4. r = [parent |-> r.parent, val |-> r.val, count |-> r.count,
           children_count |-> r.children_count, hit |-> r.hit,
           children_hit |-> r.children_hit]
      BY <1>3 DEF Fields
<1>5. M[c] = [parent |-> r.parent, val |-> r.val, count |-> r.count,
              children_count |-> r.children_count + 1, hit |-> r.hit,
              children_hit |-> r.children_hit + e]
      BY <1>1, <1>4
<1>6. /\ r.parent \in D /\ r.val \in Seq(Entries)
      /\ r.children_count + 1 \in Nat /\ r.children_hit + e \in Nat
      /\ r.count \in Nat /\ r.hit \in Nat
      BY <1>3 DEF Fields
<1>7. M[c] \in Fields(D)
      BY <1>5, <1>6 DEF Fields
<1>8. SameShape(S, M)
      BY <1>1, <1>2, <1>5, <1>7 DEF SameShape, D, r
<1> QED BY <1>1, <1>5, <1>8 DEF r, D

(* When nobody waits it does not matter who it is, and a tree that         *)
(* branches everywhere branches everywhere but at h.                       *)
LEMMA NobodyWaits ==
  ASSUME NEW N, Forest(N), NEW h, NEW g
  PROVE  /\ SumsOK(N, h, 0, 0) => SumsOK(N, g, 0, 0)
         /\ Branching(N, Root) => Branching(N, h)
<1>1. SumsOK(N, h, 0, 0) => SumsOK(N, g, 0, 0)
      BY DEF SumsOK, Adds
<1>2. \A n \in DOMAIN N \ {Root} : Cardinality(Kids(N, n)) \in Nat
      BY KidsFinite, FS_CardinalityType DEF Forest
<1>3. Branching(N, Root) => Branching(N, h)
      BY <1>2 DEF Branching
<1> QED BY <1>1, <1>3

(* Only the own counters of the nodes are those of callchains.             *)
LEMMA SameCounted ==
  ASSUME NEW N, NEW M, DOMAIN M = DOMAIN N,
         \A n \in DOMAIN N : M[n].count = N[n].count /\ M[n].hit = N[n].hit,
         NEW P, NEW s, NEW k, NEW w, Counted(P, N, s, k, w)
  PROVE  Counted(P, M, s, k, w)
BY DEF Counted

(* append_chain() records the sample when node and chain match fully.      *)
LEMMA FullMatchRecorded ==
  ASSUME IInv, pc = "down", NEW c \in Candidates,
         Matches(c) = Len(nodes[c].val), pos + Matches(c) = Len(chain),
         NEW M, M = AddOwn(nodes, c, period)
  PROVE  Recorded(M)
<1> DEFINE N == nodes
           P == PathIn(nodes)
           h == Here
           val == nodes[c].val
<1>1. /\ Forest(N) /\ IsPath(P, N)
      /\ StackIn(stack, N, P)
      /\ h \in DOMAIN N
      /\ period \in Nat /\ chain \in Seq(Entries)
      /\ failures = 0 => SumsOK(N, h, 0, 0) /\ Branching(N, Root)
      BY GoingDown
<1>2. /\ c \in Kids(N, h) /\ c \in DOMAIN N /\ c \in DOMAIN N \ {Root}
      /\ N[c].parent = h
      /\ val \in Seq(Entries)
      /\ P[h] \o SubSeq(val, 1, Matches(c)) = SubSeq(chain, 1, pos + Matches(c))
      BY Matching
<1>3. P[c] = chain
  <2>1. P[c] = P[h] \o val
        BY <1>1, <1>2 DEF IsPath
  <2>2. SubSeq(val, 1, Len(val)) = val
        BY <1>2, SubSeqFull
  <2>3. SubSeq(chain, 1, Len(chain)) = chain
        BY <1>1, SubSeqFull
  <2>4. P[h] \o SubSeq(val, 1, Len(val)) = SubSeq(chain, 1, Len(chain))
        BY <1>2
  <2> QED BY <2>1, <2>2, <2>3, <2>4
<1>0. M = AddOwn(N, c, period)
      OBVIOUS
<1> HIDE DEF N, P, h, val
<1>4. /\ SameShape(N, M)
      /\ \A n \in DOMAIN N \ {c} : M[n] = N[n]
      /\ M[c].count = N[c].count + 1 /\ M[c].hit = N[c].hit + period
      /\ M[c].children_count = N[c].children_count
      /\ M[c].children_hit = N[c].children_hit
      BY <1>0, <1>1, <1>2, AddOwnShape
<1>5. Forest(M) /\ IsPath(P, M)
      BY <1>1, <1>4, CountersForest
<1>6. StackIn(stack, M, P)
      BY <1>1, <1>4, StackCounters
<1>7. /\ SumsOK(N, h, 0, 0) => SumsOK(M, h, 1, period)
      /\ Branching(N, c) => Branching(M, Root)
      /\ M[Root] = N[Root]
      BY <1>1, <1>2, <1>4, <1>5, BumpStep
<1>8. Branching(N, Root) => Branching(N, c)
      BY <1>1, NobodyWaits
<1>9. ASSUME NEW s, NEW k, NEW w, Counted(P, N, s, k, w)
      PROVE  Counted(P, M, s, IF s = chain THEN k + 1 ELSE k,
                              IF s = chain THEN w + period ELSE w)
  <2>1. \A n \in DOMAIN N \ {c} : M[n].count = N[n].count /\ M[n].hit = N[n].hit
        BY <1>4
  <2>2. Counted(P, M, s, IF s = P[c] THEN k + 1 ELSE k,
                         IF s = P[c] THEN w + period ELSE w)
        BY <1>1, <1>2, <1>4, <1>9, <2>1, BumpCounted
  <2> QED BY <1>3, <2>2
<1>10. Spelled(P, M)
       BY <1>4 DEF Spelled, SameShape, N, P
<1> QED BY <1>1, <1>5, <1>6, <1>7, <1>8, <1>9, <1>10 DEF Recorded, N, P, h

(* The second child cannot be allocated: the node stays split.             *)
LEMMA HalfSplitUnrecorded ==
  ASSUME IInv, pc = "down", NEW c \in Candidates,
         Matches(c) < Len(nodes[c].val),
         NEW T, T = SetAll(SplitNodes(c, Matches(c), Fresh), c, period)
  PROVE  Unrecorded(T)
<1> DEFINE H == Halves(c)
           S == SplitNodes(c, Matches(c), Fresh)
           P == PathIn(nodes)
<1>1. PICK Q :
           /\ Forest(H) /\ IsPath(Q, H) /\ Spelled(Q, H)
           /\ H[Root].children_count = nodes[Root].children_count
           /\ \A s, k, w : Counted(P, nodes, s, k, w) => Counted(Q, H, s, k, w)
           /\ c \in DOMAIN H \ {Root}
      BY HalvesKept
<1>2. /\ c \in DOMAIN S /\ S[c] \in Fields(DOMAIN nodes)
      /\ DOMAIN nodes \subseteq DOMAIN S
      BY SplitNodesFields
<1>3. period \in Nat
      BY GoingDown
<1>4. T = SetAll(S, c, period) /\ H = SetOwn(S, c, 0, 0)
      BY DEF Halves, SetOwn
<1>5. S[c] \in Fields(DOMAIN S)
      BY <1>2 DEF Fields
<1> HIDE DEF S, H, P
<1>6. /\ SameShape(H, T)
      /\ \A n \in DOMAIN H \ {c} : T[n] = H[n]
      /\ T[c].count = H[c].count /\ T[c].hit = H[c].hit
      BY <1>1, <1>2, <1>3, <1>4, <1>5, SetBelow
<1>7. Forest(T) /\ IsPath(Q, T)
      BY <1>1, <1>6, CountersForest
<1>8. T[Root] = H[Root]
      BY <1>1, <1>6, NodeFields DEF Forest
<1>9. ASSUME NEW s, NEW k, NEW w, Counted(P, nodes, s, k, w)
      PROVE  Counted(Q, T, s, k, w)
  <2>1. /\ DOMAIN T = DOMAIN H
        /\ \A n \in DOMAIN H : T[n].count = H[n].count /\ T[n].hit = H[n].hit
        BY <1>6 DEF SameShape
  <2>2. Counted(Q, H, s, k, w)
        BY <1>1, <1>9
  <2> QED BY <2>1, <2>2, SameCounted
<1>10. Spelled(Q, T)
       BY <1>1, <1>6 DEF Spelled, SameShape
<1> QED BY <1>1, <1>7, <1>8, <1>9, <1>10 DEF Unrecorded, P

(* The nodes N with one more.                                              *)
WithLeaf(N, new, leaf) ==
  [n \in DOMAIN N \cup {new} |-> IF n = new THEN leaf ELSE N[n]]

(* Adding the second child and counting at the upper part commute.         *)
LEMMA LeafAndCounters ==
  ASSUME NEW H, NEW T, SameShape(H, T), NEW c \in DOMAIN H,
         \A n \in DOMAIN H \ {c} : T[n] = H[n],
         NEW new, new \notin DOMAIN H, NEW leaf,
         NEW G, G = WithLeaf(H, new, leaf), Forest(G),
         NEW M, M = WithLeaf(T, new, leaf)
  PROVE  /\ SameShape(G, M)
         /\ \A n \in DOMAIN G \ {c} : M[n] = G[n]
         /\ M[c] = T[c] /\ G[c] = H[c]
<1>1. /\ DOMAIN G = DOMAIN H \cup {new} /\ DOMAIN M = DOMAIN G
      /\ G[new] = leaf /\ M[new] = leaf
      /\ \A n \in DOMAIN H : G[n] = H[n] /\ M[n] = T[n]
      BY DEF WithLeaf, SameShape
<1>2. \A n \in DOMAIN G : G[n] \in Fields(DOMAIN G)
      BY DEF Forest, Typed
<1>3. \A n \in DOMAIN G \ {c} : M[n] = G[n]
      BY <1>1
<1>4. /\ T[c] \in Fields(DOMAIN H)
      /\ T[c].parent = H[c].parent /\ T[c].val = H[c].val
      BY DEF SameShape
<1>5. Fields(DOMAIN H) \subseteq Fields(DOMAIN G)
      BY <1>1 DEF Fields
<1>6. SameShape(G, M)
  <2> SUFFICES ASSUME NEW n \in DOMAIN G
               PROVE  /\ M[n] \in Fields(DOMAIN G)
                      /\ M[n].parent = G[n].parent /\ M[n].val = G[n].val
      BY <1>1 DEF SameShape
  <2>1. CASE n = c
        BY <1>1, <1>4, <1>5, <2>1
  <2>2. CASE n # c
        BY <1>2, <1>3, <2>2
  <2> QED BY <2>1, <2>2
<1> QED BY <1>1, <1>3, <1>6

(* append_chain() records the sample when the chain goes on behind the     *)
(* split: the two halves, the leaf for the rest and the counters of the    *)
(* node it hangs from.                                                     *)
LEMMA SplitAndBranchRecorded ==
  ASSUME IInv, pc = "down", NEW c \in Candidates,
         Matches(c) < Len(nodes[c].val), pos + Matches(c) < Len(chain),
         NEW M,
         M = WithLeaf(SetAll(SplitNodes(c, Matches(c), Fresh), c, period), Fresh + 1,
                      NewLeaf(c, SubSeq(chain, pos + Matches(c) + 1, Len(chain))))
  PROVE  Recorded(M)
<1> DEFINE H == Halves(c)
           S == SplitNodes(c, Matches(c), Fresh)
           T == SetAll(S, c, period)
           h == Here
           P == PathIn(nodes)
           p == pos + Matches(c)
           rest == SubSeq(chain, p + 1, Len(chain))
           leaf == NewLeaf(c, rest)
           new == New(H)
           G == WithLeaf(H, new, leaf)
<1>1. PICK Q :
           /\ Forest(H) /\ IsPath(Q, H) /\ Spelled(Q, H)
           /\ StackIn(stack, H, Q)
           /\ failures = 0 => SumsOK(H, h, 0, 0) /\ Branching(H, c)
           /\ H[Root].children_count = nodes[Root].children_count
           /\ \A s, k, w : Counted(P, nodes, s, k, w) => Counted(Q, H, s, k, w)
           /\ Q[c] = SubSeq(chain, 1, p)
           /\ c \in DOMAIN H \ {Root} /\ H[c].parent = h
           /\ h \in DOMAIN H
           /\ Kids(H, c) = {New(nodes)}
           /\ H[New(nodes)].val[1] = nodes[c].val[Matches(c) + 1]
      BY HalvesKept
<1>2. /\ c \in DOMAIN S /\ S[c] \in Fields(DOMAIN nodes)
      /\ DOMAIN S = DOMAIN nodes \cup {New(nodes)}
      BY SplitNodesFields
<1>3. /\ period \in Nat /\ chain \in Seq(Entries) /\ Len(chain) \in Nat
      /\ Forest(nodes)
      BY GoingDown
<1>4. T = SetAll(S, c, period) /\ H = SetOwn(S, c, 0, 0)
      BY DEF Halves, SetOwn
<1>5. S[c] \in Fields(DOMAIN S)
      BY <1>2 DEF Fields
<1>6. p \in 0 .. Len(chain) /\ p < Len(chain)
      BY <1>3, GoingDown, Matching
<1>7. nodes[c].val[Matches(c) + 1] # chain[p + 1]
  <2>1. \/ Matches(c) = Len(nodes[c].val)
        \/ pos + Matches(c) = Len(chain)
        \/ nodes[c].val[Matches(c) + 1] # chain[pos + Matches(c) + 1]
        BY Matching
  <2>2. Matches(c) # Len(nodes[c].val) /\ pos + Matches(c) # Len(chain)
    <3>1. /\ Len(nodes[c].val) \in Nat /\ Matches(c) \in Nat
          /\ pos \in Nat
          BY GoingDown, Matching
    <3> QED BY <1>3, <3>1
  <2> QED BY <2>1, <2>2
<1>8. /\ rest \in Seq(Entries) /\ Len(rest) = Len(chain) - p
      /\ rest[1] = chain[p + 1]
      /\ SubSeq(chain, 1, p) \o rest = chain
  <2> HIDE DEF p
  <2> QED BY <1>3, <1>6, PrefixAndRest
<1>9. rest # <<>>
  <2>1. Len(rest) # 0
    <3> HIDE DEF rest, p
    <3> QED BY <1>3, <1>6, <1>8
  <2> HIDE DEF rest
  <2> QED BY <2>1, EmptySeq
<1>10. new = Fresh + 1
  <2>1. IsFiniteSet(DOMAIN nodes) /\ New(nodes) \notin DOMAIN nodes
        BY <1>3, NewNumber DEF Forest
  <2>2. DOMAIN H = DOMAIN S
    <3> HIDE DEF S, H
    <3> QED BY <1>4 DEF SetOwn
  <2>3. DOMAIN H = DOMAIN nodes \cup {New(nodes)}
        BY <1>2, <2>2
  <2>4. Cardinality(DOMAIN H) = Cardinality(DOMAIN nodes) + 1
    <3> HIDE DEF H
    <3> QED BY <2>1, <2>3, FS_AddElement
  <2> QED BY <2>4 DEF New, Fresh
<1>0. M = WithLeaf(T, new, leaf)
      BY <1>10
<1>11. leaf = [parent |-> c, val |-> rest, count |-> 1, children_count |-> 0,
               hit |-> period, children_hit |-> 0]
       BY DEF NewLeaf
<1> HIDE DEF S, H, T, h, P, p, rest, leaf, new, G
<1>12. /\ SameShape(H, T)
       /\ \A n \in DOMAIN H \ {c} : T[n] = H[n]
       /\ T[c].count = H[c].count /\ T[c].hit = H[c].hit
       /\ T[c].children_count = H[c].children_count + 1
       /\ T[c].children_hit = H[c].children_hit + period
       BY <1>1, <1>2, <1>3, <1>4, <1>5, SetBelow
<1>13. new \notin DOMAIN H /\ New(H) = new
       BY <1>1, NewNumber DEF Forest, new
<1>14. /\ DOMAIN G = DOMAIN H \cup {new}
       /\ \A n \in DOMAIN H : G[n] = H[n]
       /\ G[new] = leaf
       BY <1>13 DEF G, WithLeaf
<1>15. leaf \in Fields(DOMAIN H)
       BY <1>1, <1>3, <1>8, <1>11 DEF Fields
<1>16. /\ G[new].parent = c /\ G[new].val = rest
       /\ G[new].count = 1 /\ G[new].children_count = 0
       /\ G[new].hit = period /\ G[new].children_hit = 0
       BY <1>11, <1>14
<1>17. Grown(H, G, c, rest)
       BY <1>13, <1>14, <1>15, <1>16 DEF Grown
<1>18. \A d \in DOMAIN H \ {Root} : H[d].parent = c => H[d].val[1] # rest[1]
  <2> SUFFICES ASSUME NEW d \in DOMAIN H \ {Root}, H[d].parent = c
               PROVE  H[d].val[1] # rest[1]
      OBVIOUS
  <2>1. d \in Kids(H, c)
        BY DEF Kids
  <2> QED BY <1>1, <1>7, <1>8, <2>1
<1> DEFINE R == GrownPath(Q, H, c, rest)
<1>19. Forest(G) /\ IsPath(R, G)
       BY <1>1, <1>9, <1>17, <1>18, GrowForest
<1>20. /\ SameShape(G, M)
       /\ \A n \in DOMAIN G \ {c} : M[n] = G[n]
       /\ M[c] = T[c] /\ G[c] = H[c]
       BY <1>0, <1>1, <1>12, <1>13, <1>19, LeafAndCounters DEF G
<1>21. Forest(M) /\ IsPath(R, M)
       BY <1>19, <1>20, CountersForest
<1>22. StackIn(stack, M, R)
  <2>1. StackIn(stack, G, R)
        BY <1>1, <1>17, StackGrow
  <2> QED BY <1>20, <2>1, StackCounters
<1>23. /\ SumsOK(H, c, 0, 0) => SumsOK(G, c, 1, period)
       /\ Branching(H, c) => Branching(G, Root)
       /\ G[Root] = H[Root]
  <2>1. /\ G[New(H)].count = 1 /\ G[New(H)].children_count = 0
        /\ G[New(H)].hit = period /\ G[New(H)].children_hit = 0
        BY <1>13, <1>16
  <2>2. Forest(H) /\ c \in DOMAIN H
        BY <1>1
  <2> QED BY <1>3, <1>17, <1>19, <2>1, <2>2, GrowStep
<1>24. /\ SumsOK(G, c, 1, period) => SumsOK(M, h, 1, period)
       /\ Branching(G, Root) => Branching(M, Root)
  <2>1. /\ c \in DOMAIN G /\ c # Root /\ h = G[c].parent
        BY <1>1, <1>14, <1>20
  <2>2. CountsOneMore(G, M, c, period)
        BY <1>12, <1>20 DEF CountsOneMore
  <2>3. WaitsNext(G, c, 1, h, 1) /\ WaitsNext(G, c, period, h, period)
        BY <2>1 DEF WaitsNext
  <2>4. period \in Nat /\ Forest(G) /\ Forest(M) /\ SameShape(G, M)
        BY <1>3, <1>19, <1>20, <1>21
  <2> QED BY <2>1, <2>2, <2>3, <2>4, UpStep
<1>25. failures = 0 => SumsOK(M, h, 1, period) /\ Branching(M, Root)
  <2>1. SumsOK(H, h, 0, 0) => SumsOK(H, c, 0, 0)
        BY <1>1, NobodyWaits
  <2> QED BY <1>1, <1>23, <1>24, <2>1
<1>26. M[Root].children_count = nodes[Root].children_count
  <2>1. Root \in DOMAIN G /\ c # Root
        BY <1>1, <1>19, NodeFields DEF Forest
  <2> QED BY <1>1, <1>20, <1>23, <2>1
<1>27. ASSUME NEW s, NEW k, NEW w, Counted(P, nodes, s, k, w)
       PROVE  Counted(R, M, s, IF s = chain THEN k + 1 ELSE k,
                               IF s = chain THEN w + period ELSE w)
  <2>1. Counted(Q, H, s, k, w)
        BY <1>1, <1>27
  <2>2. Counted(R, G, s, IF s = Q[c] \o rest THEN k + 1 ELSE k,
                         IF s = Q[c] \o rest THEN w + period ELSE w)
    <3>1. /\ R = GrownPath(Q, H, c, rest)
          /\ G[New(H)].count = 1 /\ G[New(H)].hit = period
          /\ Forest(H) /\ c \in DOMAIN H
          BY <1>1, <1>13, <1>16
    <3> HIDE DEF R
    <3> QED BY <1>3, <1>17, <1>19, <2>1, <3>1, GrowCounted
  <2>3. Q[c] \o rest = chain
        BY <1>1, <1>8
  <2>4. /\ DOMAIN M = DOMAIN G
        /\ \A n \in DOMAIN G : M[n].count = G[n].count /\ M[n].hit = G[n].hit
        BY <1>12, <1>20 DEF SameShape
  <2> HIDE DEF R
  <2> QED BY <2>2, <2>3, <2>4, SameCounted
<1>28. Spelled(R, M)
  <2>1. DOMAIN M = DOMAIN H \cup {new}
        BY <1>14, <1>20 DEF SameShape
  <2>2. ASSUME NEW n \in DOMAIN M, n # new
        PROVE  n \in DOMAIN H /\ R[n] = Q[n]
        BY <1>13, <2>1, <2>2 DEF GrownPath
  <2>3. R[new] = chain
        BY <1>1, <1>8, <1>13 DEF GrownPath
  <2>4. chain = SubSeq(chain, 1, Len(chain)) /\ Len(chain) \in 0 .. Len(chain)
        BY <1>3, SubSeqFull
  <2> HIDE DEF R
  <2> QED BY <1>1, <2>2, <2>3, <2>4 DEF Spelled
<1> HIDE DEF R
<1> QED BY <1>21, <1>22, <1>25, <1>26, <1>27, <1>28 DEF Recorded, h, P

-----------------------------------------------------------------------------
(* The steps.                                                              *)

(* The table of counts that the tree implements.                           *)
Table == [s \in Chains |-> CountAt(s)]

(* The weights of the callchains stay, or that of the appended one grows.  *)
SameHits == \A s : HitIn(nodes', s) = HitIn(nodes, s)
MoreHits ==
  \A s : HitIn(nodes', s) = IF s = chain THEN HitIn(nodes, s) + period
                                         ELSE HitIn(nodes, s)

(* The counts of the table are those that CountIn() reads off the nodes.   *)
LEMMA TableIsCountIn ==
  /\ Table = [s \in Chains |-> CountIn(nodes, s)]
  /\ Table' = [s \in Chains |-> CountIn(nodes', s)]
<1>1. /\ PathOf = PathIn(nodes)
      /\ PathOf' = PathIn(nodes')
      BY DEF PathOf, PathIn, Follows
<1>2. \A s : /\ CountAt(s) = CountIn(nodes, s)
             /\ CountAt(s)' = CountIn(nodes', s)
      BY <1>1 DEF CountAt, CountIn
<1>3. /\ Table = [s \in Chains |-> CountAt(s)]
      /\ Table' = [s \in Chains |-> CountAt(s)']
      BY DEF Table
<1> QED BY <1>2, <1>3

(* The nodes count what they counted before: an allocation failed, or the  *)
(* call goes on.                                                           *)
Quiet ==
  /\ Table' = Table /\ SameHits
  /\ \/ Fail
     \/ UNCHANGED <<pc, chain, period, appends, failures>>

(* The callchain in the cursor is counted once more.                       *)
Counts ==
  /\ pc = "down" /\ Found /\ chain \in Chains
  /\ Table' = [Table EXCEPT ![chain] = @ + 1] /\ MoreHits

(* A handler that has found or made the node of the chain.                 *)
LEMMA FoundStep ==
  ASSUME IInv, pc = "down", Recorded(nodes'), Found
  PROVE  /\ IInv'
         /\ Spelled(PathIn(nodes'), nodes')
         /\ chain \in Chains
         /\ Table' = [Table EXCEPT ![chain] = @ + 1]
         /\ appends' = [appends EXCEPT ![chain] = @ + 1]
         /\ MoreHits
<1> DEFINE M == nodes'
<1>1. PICK Q :
        /\ Forest(M) /\ IsPath(Q, M) /\ Spelled(Q, M)
        /\ StackIn(stack, M, Q)
        /\ failures = 0 => SumsOK(M, Here, 1, period) /\ Branching(M, Root)
        /\ M[Root].children_count = nodes[Root].children_count
        /\ \A s, k, w : Counted(PathIn(nodes), nodes, s, k, w) =>
                       Counted(Q, M, s, IF s = chain THEN k + 1 ELSE k,
                                        IF s = chain THEN w + period ELSE w)
      BY DEF Recorded
<1>2. PathIn(M) = Q
      BY <1>1, PathInOnly
<1>3. /\ pc' = "up" /\ chain' = chain /\ pos' = pos /\ period' = period
      /\ stack' = stack /\ failures' = failures /\ max_depth' = max_depth
      /\ appends' = [appends EXCEPT ![chain] = @ + 1]
      BY DEF Found
<1>4. /\ chain \in Chains /\ pos \in 0 .. Len(chain)
      /\ stack # <<>> /\ period \in Nat /\ Forest(nodes)
      BY GoingDown
<1>5. RestInv /\ RootInv
      BY DEF IInv
<1>6. TreeInv'
      BY <1>1, <1>2, <1>3 DEF TreeInv
<1>7. CursorInv'
      BY <1>3, <1>4 DEF CursorInv
<1>8. SumsInv'
  <2>1. Pending' = 1 /\ PendingHits' = period /\ Here' = Here
        BY <1>3, <1>4 DEF Pending, PendingHits, Here
  <2> QED BY <1>1, <1>3, <2>1 DEF SumsInv
<1>9. RootInv'
  <2>1. SumFunction(appends') = SumFunction(appends) + 1
    <3> DEFINE f == appends
               g == appends'
    <3>1. /\ IsFiniteSet(Chains) /\ DOMAIN f = Chains /\ DOMAIN g = Chains
          /\ \A x \in Chains : f[x] \in Nat
          /\ g[chain] = f[chain] + 1 /\ g[chain] \in Nat
          /\ \A x \in Chains \ {chain} : g[x] = f[x]
          BY <1>3, <1>4, <1>5, ChainsAssumption DEF RestInv
    <3> HIDE DEF f, g
    <3>2. SumFunctionOnSet(g, Chains) + f[chain] =
            SumFunctionOnSet(f, Chains) + g[chain]
          BY <1>4, <3>1, SumChange
    <3>3. \A x \in Chains : g[x] \in Nat
          BY <1>4, <3>1
    <3>4. /\ SumFunctionOnSet(g, Chains) \in Nat
          /\ SumFunctionOnSet(f, Chains) \in Nat
          BY <3>1, <3>3, SumType
    <3>5. SumFunctionOnSet(g, Chains) = SumFunctionOnSet(f, Chains) + 1
          BY <1>4, <3>1, <3>2, <3>4
    <3> QED BY <3>1, <3>5 DEF SumFunction, f, g
  <2>2. Pending = 0 /\ Pending' = 1
        BY <1>3, <1>4 DEF Pending
  <2>3. nodes[Root].children_count \in Nat
        BY <1>4, NodeFields DEF Forest
  <2> QED BY <1>1, <1>5, <2>1, <2>2, <2>3 DEF RootInv
<1>10. RestInv'
       BY <1>3, <1>4, <1>5 DEF RestInv
<1>12. ASSUME NEW s
       PROVE  /\ CountIn(M, s) = IF s = chain THEN CountIn(nodes, s) + 1
                                              ELSE CountIn(nodes, s)
              /\ HitIn(M, s) = IF s = chain THEN HitIn(nodes, s) + period
                                            ELSE HitIn(nodes, s)
  <2> DEFINE k == CountIn(nodes, s)
             w == HitIn(nodes, s)
  <2>1. Counted(PathIn(nodes), nodes, s, k, w)
        BY <1>4, CountInCounted
  <2>2. Counted(Q, M, s, CountIn(M, s), HitIn(M, s))
        BY <1>1, <1>2, CountInCounted
  <2> HIDE DEF M, k, w
  <2>3. Counted(Q, M, s, IF s = chain THEN k + 1 ELSE k,
                         IF s = chain THEN w + period ELSE w)
        BY <1>1, <2>1
  <2>4. /\ CountIn(M, s) = IF s = chain THEN k + 1 ELSE k
        /\ HitIn(M, s) = IF s = chain THEN w + period ELSE w
        BY <2>2, <2>3, CountedOnce
  <2> QED BY <2>4 DEF k, w
<1>11. Table' = [Table EXCEPT ![chain] = @ + 1]
  <2> HIDE DEF M
  <2> QED BY <1>4, <1>12, TableIsCountIn DEF M
<1>13. MoreHits
  <2> HIDE DEF M
  <2> QED BY <1>12 DEF MoreHits, M
<1> QED BY <1>1, <1>2, <1>3, <1>4, <1>6, <1>7, <1>8, <1>9, <1>10, <1>11, <1>13 DEF IInv

(* A handler whose allocation failed.                                      *)
LEMMA FailStep ==
  ASSUME IInv, pc = "down", Unrecorded(nodes'), Fail
  PROVE  /\ IInv' /\ Table' = Table /\ appends' = appends /\ SameHits
         /\ Spelled(PathIn(nodes'), nodes')
<1> DEFINE M == nodes'
<1>1. PICK Q :
        /\ Forest(M) /\ IsPath(Q, M) /\ Spelled(Q, M)
        /\ M[Root].children_count = nodes[Root].children_count
        /\ \A s, k, w : Counted(PathIn(nodes), nodes, s, k, w) => Counted(Q, M, s, k, w)
      BY DEF Unrecorded
<1>2. PathIn(M) = Q
      BY <1>1, PathInOnly
<1>3. /\ pc' = "idle" /\ chain' = <<>> /\ pos' = 0 /\ period' = 0
      /\ stack' = <<>> /\ failures' = failures + 1 /\ max_depth' = max_depth
      /\ appends' = appends
      BY DEF Fail
<1>4. Forest(nodes)
      BY GoingDown
<1>5. RestInv /\ RootInv
      BY DEF IInv
<1>6. TreeInv'
  <2>1. StackIn(<<>>, M, PathIn(M))
    <3>1. <<>> \in Seq(DOMAIN M) /\ Len(<<>>) = 0
          BY EmptySeq
    <3> QED BY <3>1 DEF StackIn
  <2> QED BY <1>1, <1>3, <2>1 DEF TreeInv
<1>7. CursorInv'
      BY <1>3 DEF CursorInv
<1>8. SumsInv'
      BY <1>3, <1>5 DEF SumsInv, RestInv
<1>9. RootInv'
  <2>1. Pending = 0 /\ Pending' = 0
        BY <1>3 DEF Pending
  <2> QED BY <1>1, <1>3, <1>5, <2>1 DEF RootInv
<1>10. RestInv'
       BY <1>3, <1>5 DEF RestInv
<1>12. ASSUME NEW s
       PROVE  CountIn(M, s) = CountIn(nodes, s) /\ HitIn(M, s) = HitIn(nodes, s)
  <2>1. Counted(PathIn(nodes), nodes, s, CountIn(nodes, s), HitIn(nodes, s))
        BY <1>4, CountInCounted
  <2>2. Counted(Q, M, s, CountIn(nodes, s), HitIn(nodes, s))
        BY <1>1, <2>1
  <2>3. Counted(Q, M, s, CountIn(M, s), HitIn(M, s))
        BY <1>1, <1>2, CountInCounted
  <2> QED BY <2>2, <2>3, CountedOnce
<1>11. Table' = Table
  <2> HIDE DEF M
  <2> QED BY <1>12, TableIsCountIn DEF M
<1>13. SameHits
  <2> HIDE DEF M
  <2> QED BY <1>12 DEF SameHits, M
<1> QED BY <1>1, <1>2, <1>3, <1>6, <1>7, <1>8, <1>9, <1>10, <1>11, <1>13 DEF IInv

(* A failed allocation that leaves the nodes alone.                        *)
LEMMA UnchangedUnrecorded ==
  ASSUME IInv, pc = "down", nodes' = nodes
  PROVE  Unrecorded(nodes')
<1>1. Forest(nodes) /\ IsPath(PathIn(nodes), nodes)
      BY GoingDown
<1>2. Spelled(PathIn(nodes), nodes)
      BY DEF Spelled
<1> QED BY <1>1, <1>2 DEF Unrecorded

(* The steps of callchain_append(), one by one.                            *)
LEMMA AddChildStep ==
  ASSUME IInv, AddChild
  PROVE  /\ IInv' /\ Spelled(PathIn(nodes'), nodes')
         /\ Quiet \/ Counts
<1>1. pc = "down" /\ Candidates = {}
      BY DEF AddChild
<1>2. CASE /\ nodes' = WithNodes([n \in {Fresh} |-> NewLeaf(Here, Remaining)])
           /\ Found
  <2>1. Recorded(nodes')
        BY <1>1, <1>2, AddChildRecorded
  <2> QED BY <1>1, <1>2, <2>1, FoundStep DEF Counts
<1>3. CASE Fail /\ UNCHANGED nodes
      BY <1>1, <1>3, UnchangedUnrecorded, FailStep DEF Quiet
<1> QED BY <1>2, <1>3 DEF AddChild

(* The split at the end of the chain, or its failed allocation.            *)
LEMMA SplitAtEndStep ==
  ASSUME IInv, pc = "down", NEW c \in Candidates, SplitAtEnd(c)
  PROVE  /\ IInv' /\ Spelled(PathIn(nodes'), nodes')
         /\ Quiet \/ Counts
<1>1. Matches(c) < Len(nodes[c].val) /\ pos + Matches(c) = Len(chain)
      BY DEF SplitAtEnd
<1>2. CASE /\ nodes' = [SplitNodes(c, Matches(c), Fresh) EXCEPT
                          ![c].hit = period, ![c].count = 1]
           /\ Found
  <2>1. nodes' = SetOwn(SplitNodes(c, Matches(c), Fresh), c, 1, period)
        BY <1>2 DEF SetOwn
  <2>2. Recorded(nodes')
        BY <1>1, <2>1, SplitAtEndRecorded
  <2> QED BY <1>2, <2>2, FoundStep DEF Counts
<1>3. CASE Fail /\ UNCHANGED nodes
      BY <1>3, UnchangedUnrecorded, FailStep DEF Quiet
<1> QED BY <1>2, <1>3 DEF SplitAtEnd

(* The split with a second child; one of the two allocations may fail.     *)
LEMMA SplitAndBranchStep ==
  ASSUME IInv, pc = "down", NEW c \in Candidates, SplitAndBranch(c)
  PROVE  /\ IInv' /\ Spelled(PathIn(nodes'), nodes')
         /\ Quiet \/ Counts
<1> DEFINE split == [SplitNodes(c, Matches(c), Fresh) EXCEPT
                       ![c].hit = 0, ![c].children_hit = @ + period,
                       ![c].count = 0, ![c].children_count = @ + 1]
           leaf == NewLeaf(c, SubSeq(chain, pos + Matches(c) + 1, Len(chain)))
<1>1. Matches(c) < Len(nodes[c].val) /\ pos + Matches(c) < Len(chain)
      BY DEF SplitAndBranch
<1>2. split = SetAll(SplitNodes(c, Matches(c), Fresh), c, period)
      BY DEF SetAll
<1>3. CASE /\ nodes' = [n \in DOMAIN split \cup {Fresh + 1} |->
                          IF n = Fresh + 1 THEN leaf ELSE split[n]]
           /\ Found
  <2>1. nodes' = WithLeaf(split, Fresh + 1, leaf)
    <3> HIDE DEF split, leaf
    <3> QED BY <1>3 DEF WithLeaf
  <2>2. Recorded(nodes')
    <3> HIDE DEF split
    <3> QED BY <1>1, <1>2, <2>1, SplitAndBranchRecorded
  <2> QED BY <1>3, <2>2, FoundStep DEF Counts
<1>4. CASE Fail /\ UNCHANGED nodes
      BY <1>4, UnchangedUnrecorded, FailStep DEF Quiet
<1>5. CASE Fail /\ nodes' = split
  <2>1. Unrecorded(nodes')
    <3> HIDE DEF split
    <3> QED BY <1>1, <1>2, <1>5, HalfSplitUnrecorded
  <2> QED BY <1>5, <2>1, FailStep DEF Quiet
<1> QED BY <1>3, <1>4, <1>5 DEF SplitAndBranch

(* The full match allocates nothing.                                       *)
LEMMA FullMatchStep ==
  ASSUME IInv, pc = "down", NEW c \in Candidates, FullMatch(c)
  PROVE  IInv' /\ Counts /\ Spelled(PathIn(nodes'), nodes')
<1>1. /\ Matches(c) = Len(nodes[c].val) /\ pos + Matches(c) = Len(chain)
      /\ Found
      BY DEF FullMatch
<1>2. nodes' = AddOwn(nodes, c, period)
      BY DEF FullMatch, AddOwn
<1>3. Recorded(nodes')
      BY <1>1, <1>2, FullMatchRecorded
<1> QED BY <1>1, <1>3, FoundStep DEF Counts

(* The call for the matching child.                                        *)
LEMMA DescendStep ==
  ASSUME IInv, pc = "down", NEW c \in Candidates, Descend(c)
  PROVE  /\ IInv' /\ Quiet
         /\ Spelled(PathIn(nodes'), nodes')
<1> DEFINE P == PathIn(nodes)
           val == nodes[c].val
<1>1. /\ Matches(c) = Len(val)
      /\ pos + Matches(c) < Len(chain)
      /\ pos' = pos + Matches(c)
      /\ stack' = Append(stack, c)
      /\ nodes' = nodes /\ max_depth' = max_depth /\ pc' = pc /\ chain' = chain
      /\ period' = period /\ appends' = appends /\ failures' = failures
      BY DEF Descend
<1>2. /\ Forest(nodes) /\ IsPath(P, nodes)
      /\ StackIn(stack, nodes, P) /\ stack # <<>>
      /\ chain \in Chains /\ Len(chain) \in Nat /\ pos \in Nat
      /\ period \in Nat
      /\ failures = 0 => SumsOK(nodes, Here, 0, 0) /\ Branching(nodes, Root)
      BY GoingDown
<1>3. /\ c \in Kids(nodes, Last(stack)) /\ c \in DOMAIN nodes \ {Root}
      /\ nodes[c].parent = Here
      /\ val \in Seq(Entries) /\ Len(val) \in Nat
      /\ P[Here] \o SubSeq(val, 1, Matches(c)) = SubSeq(chain, 1, pos + Matches(c))
      BY Matching DEF Here
<1>4. StackIn(stack', nodes', P) /\ Here' = c /\ stack' # <<>>
      BY <1>1, <1>2, <1>3, StackPush DEF Here
<1>5. P[c] = SubSeq(chain, 1, pos + Matches(c))
  <2>1. P[c] = P[Here] \o val
        BY <1>2, <1>3 DEF IsPath
  <2>2. SubSeq(val, 1, Len(val)) = val
        BY <1>3, SubSeqFull
  <2> QED BY <1>1, <1>3, <2>1, <2>2
<1>6. TreeInv'
      BY <1>1, <1>2, <1>4 DEF TreeInv
<1>7. CursorInv'
  <2>1. pos' \in Nat /\ pos' < Len(chain) /\ pos' \in 0 .. Len(chain)
    <3> HIDE DEF val
    <3> QED BY <1>1, <1>2, <1>3
  <2>2. PathIn(nodes)[Here'] = SubSeq(chain, 1, pos')
        BY <1>1, <1>4, <1>5
  <2> QED BY <1>1, <1>2, <1>4, <2>1, <2>2 DEF CursorInv
<1>8. SumsInv'
  <2>1. Pending' = 0 /\ PendingHits' = 0
        BY <1>1 DEF Pending, PendingHits
  <2>2. SumsOK(nodes, Here, 0, 0) => SumsOK(nodes, c, 0, 0)
        BY <1>2, NobodyWaits
  <2> QED BY <1>1, <1>2, <1>4, <2>1, <2>2 DEF SumsInv
<1>9. RootInv'
  <2>1. Pending' = 0 /\ Pending = 0
        BY <1>1 DEF Pending
  <2> QED BY <1>1, <2>1 DEF IInv, RootInv
<1>10. RestInv'
       BY <1>1 DEF IInv, RestInv
<1>11. Table' = Table
       BY <1>1, TableIsCountIn
<1>12. Spelled(PathIn(nodes'), nodes')
       BY <1>1 DEF Spelled
<1>13. Quiet
       BY <1>1, <1>11 DEF Quiet, SameHits
<1> QED BY <1>6, <1>7, <1>8, <1>9, <1>10, <1>12, <1>13 DEF IInv

(* The return of the innermost call, which counts the sample.              *)
LEMMA UnwindStep ==
  ASSUME IInv, Unwind
  PROVE  /\ IInv' /\ Quiet
         /\ Spelled(PathIn(nodes'), nodes')
<1> DEFINE N == nodes
           M == nodes'
           P == PathIn(nodes)
           h == Here
<1>1. /\ pc = "up" /\ stack # <<>>
      /\ stack' = Front(stack)
      /\ max_depth' = max_depth /\ pc' = pc /\ chain' = chain /\ pos' = pos
      /\ period' = period /\ appends' = appends /\ failures' = failures
      BY DEF Unwind
<1>2. TreeInv /\ CursorInv /\ SumsInv /\ RootInv /\ RestInv
      BY DEF IInv
<1>3. /\ Forest(N) /\ IsPath(P, N) /\ StackIn(stack, N, P)
      /\ chain \in Chains /\ pos \in 0 .. Len(chain) /\ period \in Nat
      BY <1>1, <1>2, PathInIsPath DEF TreeInv, CursorInv
<1>4. /\ StackIn(stack', N, P)
      /\ h \in DOMAIN N
      /\ stack' = <<>> <=> h = Root
      /\ h # Root => Here' = N[h].parent
      BY <1>1, <1>3, StackPop DEF Here
<1>5. M = AddBelow(N, h, period)
      BY DEF Unwind, AddBelow
<1>6. Pending = 1 /\ PendingHits = period
      BY <1>1 DEF Pending, PendingHits
<1>7. /\ Pending' = IF h = Root THEN 0 ELSE 1
      /\ PendingHits' = IF h = Root THEN 0 ELSE period
      BY <1>1, <1>4 DEF Pending, PendingHits
<1>8. failures = 0 => SumsOK(N, h, 1, period) /\ Branching(N, Root)
      BY <1>2, <1>6 DEF SumsInv
<1> HIDE DEF N, M, P, h
<1>9. /\ SameShape(N, M)
      /\ \A n \in DOMAIN N \ {h} : M[n] = N[n]
      /\ M[h].count = N[h].count /\ M[h].hit = N[h].hit
      /\ M[h].children_count = N[h].children_count + 1
      /\ M[h].children_hit = N[h].children_hit + period
      BY <1>3, <1>4, <1>5, AddBelowShape
<1>10. Forest(M) /\ IsPath(P, M)
       BY <1>3, <1>9, CountersForest
<1>11. PathIn(M) = P
       BY <1>10, PathInOnly
<1>12. TreeInv'
  <2>1. StackIn(stack', M, P)
        BY <1>4, <1>9, StackCounters
  <2> QED BY <1>10, <1>11, <2>1 DEF TreeInv, M
<1>13. CursorInv'
       BY <1>1, <1>3 DEF CursorInv
<1>14. SumsInv'
  <2> DEFINE up == Here'
             x == Pending'
             y == PendingHits'
  <2>1. /\ h # Root => up = N[h].parent
        /\ x = IF h = Root THEN 0 ELSE 1
        /\ y = IF h = Root THEN 0 ELSE period
        BY <1>4, <1>7
  <2> HIDE DEF up, x, y
  <2>2. /\ SumsOK(N, h, 1, period) => SumsOK(M, up, x, y)
        /\ Branching(N, Root) => Branching(M, Root)
    <3>1. /\ Forest(N) /\ Forest(M) /\ SameShape(N, M)
          /\ h \in DOMAIN N /\ period \in Nat
          BY <1>3, <1>4, <1>9, <1>10
    <3>2. CountsOneMore(N, M, h, period)
          BY <1>9 DEF CountsOneMore
    <3>3. WaitsNext(N, h, 1, up, x) /\ WaitsNext(N, h, period, up, y)
          BY <2>1 DEF WaitsNext
    <3> QED BY <3>1, <3>2, <3>3, UpStep
  <2>3. failures = 0 => SumsOK(M, up, x, y) /\ Branching(M, Root)
        BY <1>8, <2>2
  <2> QED BY <1>1, <2>3 DEF SumsInv, M, up, x, y
<1>15. RootInv'
  <2>1. Root \in DOMAIN N /\ N[Root].children_count \in Nat
        BY <1>3, NodeFields DEF Forest
  <2>2. SumFunction(appends) = N[Root].children_count + 1
        BY <1>2, <1>6 DEF RootInv, N
  <2>3. SumFunction(appends') = M[Root].children_count + Pending'
    <3>1. CASE h = Root
          BY <1>1, <1>7, <1>9, <2>1, <2>2, <3>1
    <3>2. CASE h # Root
          BY <1>1, <1>7, <1>9, <2>1, <2>2, <3>2
    <3> QED BY <3>1, <3>2
  <2> QED BY <2>3 DEF RootInv, M
<1>16. RestInv'
       BY <1>1, <1>2 DEF RestInv
<1>19. ASSUME NEW s
       PROVE  CountIn(M, s) = CountIn(N, s) /\ HitIn(M, s) = HitIn(N, s)
  <2>1. Counted(P, N, s, CountIn(N, s), HitIn(N, s))
        BY <1>3, CountInCounted DEF P, N
  <2>2. /\ DOMAIN M = DOMAIN N
        /\ \A n \in DOMAIN N : M[n].count = N[n].count /\ M[n].hit = N[n].hit
        BY <1>9 DEF SameShape
  <2>3. Counted(P, M, s, CountIn(N, s), HitIn(N, s))
        BY <2>1, <2>2, SameCounted
  <2>4. Counted(P, M, s, CountIn(M, s), HitIn(M, s))
        BY <1>10, <1>11, CountInCounted
  <2> QED BY <2>3, <2>4, CountedOnce
<1>17. Table' = Table
  <2> QED BY <1>19, TableIsCountIn DEF M, N
<1>20. SameHits
       BY <1>19 DEF SameHits, M, N
<1>18. Spelled(PathIn(M), M)
       BY <1>9, <1>11 DEF Spelled, SameShape, N, P
<1>21. Quiet
       BY <1>1, <1>17, <1>20 DEF Quiet
<1> QED BY <1>12, <1>13, <1>14, <1>15, <1>16, <1>18, <1>21 DEF IInv, M

(* All calls have returned: the cursor is done with.                       *)
LEMMA EndStep ==
  ASSUME IInv, pc = "up", stack = <<>>, max_depth' \in Nat,
         pc' = "idle", chain' = <<>>, pos' = 0, period' = 0,
         UNCHANGED <<nodes, stack, appends, failures>>
  PROVE  IInv' /\ Table' = Table /\ appends' = appends
<1>1. /\ nodes' = nodes /\ stack' = stack /\ appends' = appends
      /\ failures' = failures
      OBVIOUS
<1>2. TreeInv /\ CursorInv /\ SumsInv /\ RootInv /\ RestInv
      BY DEF IInv
<1>3. Pending = 0 /\ Pending' = 0 /\ PendingHits = 0 /\ PendingHits' = 0
      BY <1>1 DEF Pending, PendingHits
<1>5. TreeInv'
      BY <1>1, <1>2 DEF TreeInv
<1>6. CursorInv'
      BY <1>1 DEF CursorInv
<1>7. SumsInv'
  <2>1. Here' = Here
        BY <1>1 DEF Here
  <2> QED BY <1>1, <1>2, <1>3, <2>1 DEF SumsInv
<1>8. RootInv'
      BY <1>1, <1>2, <1>3 DEF RootInv
<1>9. RestInv'
      BY <1>1, <1>2 DEF RestInv
<1>10. Table' = Table
       BY <1>1, TableIsCountIn
<1> QED BY <1>1, <1>5, <1>6, <1>7, <1>8, <1>9, <1>10 DEF IInv

(* The end of callchain_append().                                          *)
LEMMA ReturnStep ==
  ASSUME IInv, Return
  PROVE  IInv' /\ Table' = Table /\ appends' = appends
<1>1. pc = "up" /\ max_depth \in Nat /\ chain \in Chains
      BY DEF Return, IInv, RestInv, CursorInv
<1>2. max_depth' \in Nat
      BY <1>1, ChainSeq DEF Return
<1> QED BY <1>2, EndStep DEF Return

(* The cursor is committed, and the first call is made.                    *)
LEMMA CommitStep ==
  ASSUME IInv, NEW c \in Chains, NEW p \in Nat,
         pc = "idle", pc' = "down", chain' = c, period' = p, pos' = 0,
         stack' = <<Root>>, UNCHANGED <<nodes, max_depth, appends, failures>>
  PROVE  IInv' /\ Table' = Table /\ appends' = appends
<1>1. /\ nodes' = nodes /\ max_depth' = max_depth /\ appends' = appends
      /\ failures' = failures
      OBVIOUS
<1>2. TreeInv /\ CursorInv /\ SumsInv /\ RootInv /\ RestInv
      BY DEF IInv
<1>3. /\ Forest(nodes) /\ IsPath(PathIn(nodes), nodes) /\ Root \in DOMAIN nodes
      BY <1>2, PathInIsPath, NodeFields DEF TreeInv, Forest
<1>4. Pending = 0 /\ Pending' = 0 /\ PendingHits = 0 /\ PendingHits' = 0
      BY <1>1 DEF Pending, PendingHits
<1>5. /\ stack' \in Seq(DOMAIN nodes) /\ Len(stack') = 1 /\ stack'[1] = Root
      /\ stack' # <<>> /\ Here' = Root
      BY <1>1, <1>3 DEF Here, Last
<1>6. TreeInv'
  <2>1. Len(PathIn(nodes)[Root]) \in Nat
        BY <1>3, EmptySeq DEF IsPath
  <2>2. StackIn(stack', nodes, PathIn(nodes))
        BY <1>5, <2>1 DEF StackIn
  <2> QED BY <1>1, <1>3, <2>2 DEF TreeInv
<1>7. CursorInv'
  <2>1. Len(c) \in Nat \ {0}
        BY ChainSeq
  <2>2. SubSeq(c, 1, 0) = <<>>
        BY SubSeqEmpty
  <2>3. PathIn(nodes)[Root] = <<>>
        BY <1>3 DEF IsPath
  <2>4. PathIn(nodes')[Here'] = SubSeq(chain', 1, pos')
        BY <1>1, <1>5, <2>2, <2>3
  <2> QED BY <1>1, <1>5, <2>1, <2>4 DEF CursorInv
<1>8. SumsInv'
  <2>1. SumsOK(nodes, Here, 0, 0) => SumsOK(nodes, Root, 0, 0)
        BY <1>3, NobodyWaits
  <2> QED BY <1>1, <1>2, <1>4, <1>5, <2>1 DEF SumsInv
<1>9. RootInv'
      BY <1>1, <1>2, <1>4 DEF RootInv
<1>10. RestInv'
       BY <1>1, <1>2 DEF RestInv
<1>11. Table' = Table
       BY <1>1, TableIsCountIn
<1> QED BY <1>1, <1>6, <1>7, <1>8, <1>9, <1>10, <1>11 DEF IInv

(* append_chain() and append_chain_children() one step further.            *)
LEMMA RunStep ==
  ASSUME IInv, AddChild \/ AppendChain \/ Unwind
  PROVE  /\ IInv' /\ Spelled(PathIn(nodes'), nodes')
         /\ Quiet \/ Counts
<1>1. CASE AddChild
      BY <1>1, AddChildStep
<1>2. CASE AppendChain
  <2>1. PICK c \in Candidates :
          SplitAtEnd(c) \/ SplitAndBranch(c) \/ FullMatch(c) \/ Descend(c)
        BY <1>2 DEF AppendChain
  <2>2. pc = "down"
        BY <1>2 DEF AppendChain
  <2>3. CASE SplitAtEnd(c)
        BY <2>2, <2>3, SplitAtEndStep
  <2>4. CASE SplitAndBranch(c)
        BY <2>2, <2>4, SplitAndBranchStep
  <2>5. CASE FullMatch(c)
        BY <2>2, <2>5, FullMatchStep
  <2>6. CASE Descend(c)
        BY <2>2, <2>6, DescendStep
  <2> QED BY <2>1, <2>3, <2>4, <2>5, <2>6
<1>3. CASE Unwind
      BY <1>3, UnwindStep
<1> QED BY <1>1, <1>2, <1>3

(* callchain_append() begins.                                              *)
LEMMA StartStep ==
  ASSUME IInv, NEW c \in Chains, NEW p \in Periods, Start(c, p)
  PROVE  IInv' /\ Table' = Table /\ appends' = appends
<1>1. p \in Nat
      BY ChainsAssumption
<1> QED BY <1>1, CommitStep DEF Start

(* A step preserves the invariant, and is a step of the table of counts or *)
(* leaves it alone.                                                        *)
LEMMA NextStep ==
  ASSUME IInv, Next
  PROVE  IInv' /\ (\/ Table' = Table /\ appends' = appends
                   \/ Abs!Next)
<1>1. CASE \E c \in Chains, p \in Periods : Start(c, p)
      BY <1>1, StartStep
<1>2. CASE AddChild \/ AppendChain \/ Unwind
  <2>1. IInv' /\ (Quiet \/ Counts)
        BY <1>2, RunStep
  <2>2. Quiet => Table' = Table /\ appends' = appends
        BY DEF Quiet, Fail
  <2>3. Counts => Abs!Next
        BY DEF Counts, Found, Abs!Next, Abs!Insert, Table
  <2> QED BY <2>1, <2>2, <2>3
<1>3. CASE Return
      BY <1>3, ReturnStep
<1> QED BY <1>1, <1>2, <1>3 DEF Next, Step

(* callchain_init() leaves a tree that counts nothing.                     *)
LEMMA InitStep ==
  ASSUME Init
  PROVE  /\ IInv /\ Abs!Init
         /\ \A s : CountIn(nodes, s) = 0 /\ HitIn(nodes, s) = 0
<1>1. /\ DOMAIN nodes = {Root} /\ nodes[Root] = NoNode
      /\ max_depth = 0 /\ pc = "idle"
      /\ chain = <<>> /\ pos = 0 /\ period = 0 /\ stack = <<>>
      /\ appends = [c \in Chains |-> 0]
      /\ failures = 0
      BY DEF Init
<1>2. /\ nodes[Root].parent = Root /\ nodes[Root].val = <<>>
      /\ nodes[Root].count = 0 /\ nodes[Root].children_count = 0
      /\ nodes[Root].hit = 0 /\ nodes[Root].children_hit = 0
      BY <1>1 DEF NoNode
<1> DEFINE P == [n \in {Root} |-> <<>>]
<1>3. IsPath(P, nodes)
      BY <1>1, EmptySeq DEF IsPath
<1>4. Forest(nodes)
  <2>1. Numbered(nodes)
        BY <1>1, 0 .. 0 = {0} DEF Numbered, Root
  <2>2. nodes[Root] \in Fields(DOMAIN nodes)
        BY <1>1, EmptySeq DEF NoNode, Fields
  <2>3. Typed(nodes)
        BY <1>1, <1>2, <2>2 DEF Typed
  <2>4. SiblingsApart(nodes)
        BY <1>1 DEF SiblingsApart
  <2> QED BY <1>3, <2>1, <2>3, <2>4 DEF Forest
<1>5. PathIn(nodes) = P
      BY <1>3, <1>4, PathInOnly
<1>6. TreeInv
  <2>1. StackIn(stack, nodes, PathIn(nodes))
    <3>1. stack \in Seq(DOMAIN nodes) /\ Len(stack) = 0
          BY <1>1, EmptySeq
    <3> QED BY <1>1, <3>1 DEF StackIn
  <2> QED BY <1>4, <2>1 DEF TreeInv
<1>7. Pending = 0 /\ PendingHits = 0
      BY <1>1 DEF Pending, PendingHits
<1>8. CursorInv
      BY <1>1 DEF CursorInv
<1>9. SumsInv
  <2>1. \A n : Kids(nodes, n) = {}
        BY <1>1 DEF Kids
  <2>2. SumsOK(nodes, Here, 0, 0)
    <3>1. /\ CountsBelow(nodes)[Root] = 0 /\ HitsBelow(nodes)[Root] = 0
          BY <1>1, <1>2 DEF CountsBelow, HitsBelow
    <3>2. \A weight, h : /\ Adds(nodes, weight, CountsBelow(nodes), h, 0)
                         /\ Adds(nodes, weight, HitsBelow(nodes), h, 0)
      <4>1. \A n, weight : SumFunctionOnSet(weight, Kids(nodes, n)) = 0
            BY <2>1, SumEmpty
      <4> QED BY <1>1, <3>1, <4>1 DEF Adds
    <3> QED BY <3>2 DEF SumsOK
  <2>3. Branching(nodes, Root)
        BY <1>1 DEF Branching
  <2> QED BY <1>7, <2>2, <2>3 DEF SumsInv
<1>10. RootInv
  <2>1. /\ \A c \in Chains : appends[c] = 0
        /\ DOMAIN appends = Chains
        BY <1>1
  <2>2. SumFunctionOnSet(appends, Chains) = 0
        BY <2>1, SumZero, ChainsAssumption
  <2>3. SumFunction(appends) = 0
        BY <2>1, <2>2 DEF SumFunction
  <2> QED BY <1>2, <1>7, <2>3 DEF RootInv
<1>11. RestInv
       BY <1>1 DEF RestInv
<1>12. \A s : CountIn(nodes, s) = 0 /\ HitIn(nodes, s) = 0
  <2>1. TAKE s
  <2>2. Counted(PathIn(nodes), nodes, s, CountIn(nodes, s), HitIn(nodes, s))
        BY <1>4, CountInCounted
  <2>3. Root \in DOMAIN nodes
        BY <1>1
  <2>4. Counted(PathIn(nodes), nodes, s, 0, 0)
        BY <1>1, <1>2 DEF Counted
  <2> QED BY <2>2, <2>4, CountedOnce
<1>13. [s \in Chains |-> CountAt(s)] = [s \in Chains |-> 0]
       BY <1>12, TableIsCountIn DEF Table
<1>14. Abs!Init
       BY <1>1, <1>13 DEF Abs!Init
<1> QED BY <1>6, <1>8, <1>9, <1>10, <1>11, <1>12, <1>14 DEF IInv

(* A step that changes nothing.                                            *)
LEMMA StutterStep ==
  ASSUME IInv, UNCHANGED vars
  PROVE  IInv' /\ Table' = Table /\ appends' = appends
<1>1. /\ nodes' = nodes /\ max_depth' = max_depth /\ pc' = pc
      /\ chain' = chain /\ pos' = pos /\ period' = period
      /\ stack' = stack /\ appends' = appends /\ failures' = failures
      BY DEF vars
<1>2. Here' = Here /\ Pending' = Pending /\ PendingHits' = PendingHits
      BY <1>1 DEF Here, Pending, PendingHits
<1>3. IInv'
      BY <1>1, <1>2
      DEF IInv, TreeInv, CursorInv, SumsInv, RootInv, RestInv
<1>4. Table' = Table
      BY <1>1, TableIsCountIn
<1> QED BY <1>1, <1>3, <1>4

-----------------------------------------------------------------------------
(* The theorems.                                                           *)

(* The tree is well formed, the cursor and the running calls belong to it, *)
(* and its counters are those of the samples that were appended.           *)
THEOREM IInvAlways == Spec => []IInv
<1>1. Init => IInv
      BY InitStep
<1>2. IInv /\ [Next]_vars => IInv'
      BY NextStep, StutterStep
<1> QED BY <1>1, <1>2, PTL DEF Spec

(* What the invariant says of the tree, in the words of the checked        *)
(* properties.                                                             *)
LEMMA IInvTree ==
  ASSUME IInv
  PROVE  /\ Forest(nodes)
         /\ \A n : Children(n) = Kids(nodes, n)
         /\ \A n \in DOMAIN nodes :
              Kids(nodes, n) \subseteq DOMAIN nodes /\ IsFiniteSet(Kids(nodes, n))
<1>1. Forest(nodes)
      BY DEF IInv, TreeInv
<1>2. \A n : Children(n) = Kids(nodes, n)
      BY DEF Children, Kids
<1> QED BY <1>1, <1>2, KidsFinite DEF Forest

(* The invariant has the types in it.                                      *)
LEMMA TypeFollows ==
  ASSUME IInv
  PROVE  TypeOK
<1>1. /\ Forest(nodes) /\ StackIn(stack, nodes, PathIn(nodes))
      /\ CursorInv /\ RestInv
      BY DEF IInv, TreeInv
<1>2. DOMAIN nodes = 0 .. Cardinality(DOMAIN nodes) - 1
      BY <1>1, NewNumber DEF Forest, New
<1>3. \A n \in DOMAIN nodes :
        /\ nodes[n] \in [parent : DOMAIN nodes, val : Seq(Entries),
                         count : Nat, children_count : Nat,
                         hit : Nat, children_hit : Nat]
        /\ (nodes[n].val = <<>>) = (n = Root)
      BY <1>1 DEF Forest, Typed, Fields
<1>4. stack \in Seq(DOMAIN nodes)
      BY <1>1 DEF StackIn
<1>5. pos \in 0 .. Len(chain)
  <2>1. CASE pc = "idle"
        BY <1>1, <2>1, Len(<<>>) = 0 DEF CursorInv
  <2>2. CASE pc # "idle"
        BY <1>1, <2>2 DEF CursorInv
  <2> QED BY <2>1, <2>2
<1>6. /\ max_depth \in Nat /\ pc \in {"idle", "down", "up"}
      /\ chain \in Chains \cup {<<>>} /\ period \in Nat
      /\ appends \in [Chains -> Nat] /\ failures \in Nat
      BY <1>1 DEF CursorInv, RestInv
<1> QED BY <1>2, <1>3, <1>4, <1>5, <1>6 DEF TypeOK

(* callchain_append() keeps the nodes well formed, the cursor inside the   *)
(* chain and the stack of calls inside the tree.                           *)
THEOREM TypeCorrect == Spec => []TypeOK
<1>1. IInv => TypeOK
      BY TypeFollows
<1> QED BY <1>1, IInvAlways, PTL

(* The invariant keeps siblings apart.                                     *)
LEMMA SiblingsFollow ==
  ASSUME IInv
  PROVE  DistinctSiblings
BY DEF IInv, TreeInv, Forest, SiblingsApart, DistinctSiblings

(* Siblings start with different entries, however often split_add_child()  *)
(* splits a node and moves its children.                                   *)
THEOREM SiblingsStayDistinct == Spec => []DistinctSiblings
<1>1. IInv => DistinctSiblings
      BY SiblingsFollow
<1> QED BY <1>1, IInvAlways, PTL

(* The invariant has the path of the running calls.                        *)
LEMMA StackFollows ==
  ASSUME IInv
  PROVE  StackIsPath
<1>1. StackIn(stack, nodes, PathIn(nodes)) /\ CursorInv
      BY DEF IInv, TreeInv
<1>2. PathOf = PathIn(nodes)
      BY PathOfIsPathIn
<1> QED BY <1>1, <1>2 DEF StackIn, CursorInv, StackIsPath

(* The running calls of append_chain_children() are on a path from the     *)
(* root that spells the entries the cursor has passed.                     *)
THEOREM StackStaysPath == Spec => []StackIsPath
<1>1. IInv => StackIsPath
      BY StackFollows
<1> QED BY <1>1, IInvAlways, PTL

(* The invariant has the children of every split node.                     *)
LEMMA CompressedFollows ==
  ASSUME IInv
  PROVE  Compressed
<1> SUFFICES ASSUME failures = 0, NEW n \in DOMAIN nodes \ {Root},
                    nodes[n].count = 0
             PROVE  Cardinality(Children(n)) > 1
    BY DEF Compressed
<1>1. Branching(nodes, Root) /\ Children(n) = Kids(nodes, n)
      BY IInvTree DEF IInv, SumsInv
<1> QED BY <1>1 DEF Branching

(* As long as no allocation failed, a node that no chain ended at has two  *)
(* children at least.                                                      *)
THEOREM TreeStaysCompressed == Spec => []Compressed
<1>1. IInv => Compressed
      BY CompressedFollows
<1> QED BY <1>1, IInvAlways, PTL

(* The invariant has the sums over the children of every node.             *)
LEMMA CountersFollow ==
  ASSUME IInv
  PROVE  CountersAddUp
<1> SUFFICES ASSUME failures = 0, NEW n \in DOMAIN nodes
             PROVE  LET below   == Children(n)
                        pending == IF pc = "up" /\ stack # <<>> /\ n = Here
                                   THEN 1 ELSE 0
                    IN  /\ SumFunction([c \in below |-> CumulCounts(nodes[c])]) =
                             nodes[n].children_count + pending
                        /\ SumFunction([c \in below |-> CumulHits(nodes[c])]) =
                             nodes[n].children_hit + pending * period
    BY DEF CountersAddUp
<1> DEFINE below == Children(n)
           pending == IF pc = "up" /\ stack # <<>> /\ n = Here THEN 1 ELSE 0
           counts == [c \in below |-> CumulCounts(nodes[c])]
           hits == [c \in below |-> CumulHits(nodes[c])]
<1>1. /\ SumsOK(nodes, Here, Pending, PendingHits)
      /\ below = Kids(nodes, n) /\ below \subseteq DOMAIN nodes
      /\ IsFiniteSet(below)
      BY IInvTree DEF IInv, SumsInv
<1>2. /\ SumFunctionOnSet(CountsOf(nodes), below) =
           CountsBelow(nodes)[n] + (IF n = Here THEN Pending ELSE 0)
      /\ SumFunctionOnSet(HitsOf(nodes), below) =
           HitsBelow(nodes)[n] + (IF n = Here THEN PendingHits ELSE 0)
      BY <1>1 DEF SumsOK, Adds
<1>3. /\ CountsBelow(nodes)[n] = nodes[n].children_count
      /\ HitsBelow(nodes)[n] = nodes[n].children_hit
      BY DEF CountsBelow, HitsBelow
<1>4. /\ \A c \in below : counts[c] = CountsOf(nodes)[c]
      /\ \A c \in below : hits[c] = HitsOf(nodes)[c]
      BY <1>1 DEF CountsOf, HitsOf
<1>5. SumFunction(counts) = SumFunctionOnSet(counts, below)
      BY DOMAIN counts = below DEF SumFunction
<1>6. SumFunction(hits) = SumFunctionOnSet(hits, below)
      BY DOMAIN hits = below DEF SumFunction
<1>7. period \in Nat
      BY DEF IInv, CursorInv
<1>8. /\ (IF n = Here THEN Pending ELSE 0) = pending
      /\ (IF n = Here THEN PendingHits ELSE 0) = pending * period
      BY <1>7 DEF Pending, PendingHits
<1> HIDE DEF below, pending, counts, hits
<1>9. SumFunction(counts) = nodes[n].children_count + pending
      BY <1>1, <1>2, <1>3, <1>4, <1>5, <1>8, SumSame
<1>10. SumFunction(hits) = nodes[n].children_hit + pending * period
      BY <1>1, <1>2, <1>3, <1>4, <1>6, <1>8, SumSame
<1> QED BY <1>9, <1>10 DEF below, pending, counts, hits

(* The children counters of every node are the sums over its children, but *)
(* for the sample that is still on its way up to it.                       *)
THEOREM CountersStaySums == Spec => []CountersAddUp
<1>1. IInv => CountersAddUp
      BY CountersFollow
<1> QED BY <1>1, IInvAlways, PTL

(* The invariant has the count of all samples.                             *)
LEMMA SamplesFollow ==
  ASSUME IInv
  PROVE  AllSamplesCounted
<1> SUFFICES ASSUME pc = "idle"
             PROVE  nodes[Root].children_count = SumFunction(appends)
    BY DEF AllSamplesCounted
<1>1. Pending = 0
      BY DEF Pending
<1>2. nodes[Root].children_count \in Nat
      BY IInvTree, NodeFields DEF Forest
<1> QED BY <1>1, <1>2 DEF IInv, RootInv

(* Between two appends root->children_count is the number of the samples   *)
(* that callchain_append() accepted, whatever it was interrupted by.       *)
THEOREM SamplesStayCounted == Spec => []AllSamplesCounted
<1>1. IInv => AllSamplesCounted
      BY SamplesFollow
<1> QED BY <1>1, IInvAlways, PTL

(* The tree implements the table of counts: every append counts its chain  *)
(* once, and splitting nodes changes no count, even when it fails halfway. *)
THEOREM TreeImplementsCounts == Spec => ImplementsStackCounts
<1>1. Init => Abs!Init
      BY InitStep
<1>2. IInv /\ [Next]_vars => [Abs!Next]_<<[s \in Chains |-> CountAt(s)], appends>>
  <2>1. ASSUME IInv, [Next]_vars
        PROVE  \/ Abs!Next
               \/ Table' = Table /\ appends' = appends
        BY <2>1, NextStep, StutterStep
  <2> QED BY <2>1 DEF Table
<1> QED BY <1>1, <1>2, IInvAlways, PTL DEF Spec, ImplementsStackCounts, Abs!Spec

=============================================================================
