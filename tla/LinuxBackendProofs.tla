------------------------- MODULE LinuxBackendProofs -------------------------
(***************************************************************************)
(* The linux backend is correct around its callchain tree: the cursor that *)
(* all trees and all merges share holds what the running call put there,   *)
(* and every tree stays a callchain tree.                                  *)
(***************************************************************************)
EXTENDS LinuxBackend, CallchainProofs

Callchains == Chains \cup {<<>>}

-----------------------------------------------------------------------------
(* The inductive invariant.                                                *)

(* Every node stands for a callchain.                                      *)
PathsIn(N) == \A n \in DOMAIN N : PathIn(N)[n] \in Callchains

(* A tree that no call is working on.                                      *)
WholeTree(t) ==
  /\ Forest(t.nodes) /\ PathsIn(t.nodes)
  /\ failures = 0 => SumsOK(t.nodes, Root, 0, 0) /\ Branching(t.nodes, Root)
  /\ SumFunction(t.appends) = t.nodes[Root].children_count
  /\ t.appends \in [Chains -> Nat] /\ t.max_depth \in Nat

OtherInv ==
  /\ other = [nodes |-> other.nodes, max_depth |-> other.max_depth,
              appends |-> other.appends, weights |-> other.weights]
  /\ phase \notin {"merge", "merged"} => WholeTree(other)

CellsInv ==
  /\ cursor.cells \in Seq(Entries)
  /\ cursor.nr \in 0 .. Len(cursor.cells)
  /\ cursor.last = cursor.nr + 1
  /\ cursor = [cells |-> cursor.cells, nr |-> cursor.nr, last |-> cursor.last]

PhaseInv ==
  /\ phase \in {"idle", "fill", "append", "merge", "merged"}
  /\ phase \in {"idle", "fill", "merged"} => pc = "idle"
  /\ phase = "append" => pc # "idle"
  /\ pc # "idle" => chain = Read
  /\ frames # <<>> <=> phase = "merge"
  /\ i \in 0 .. MaxStackEntries + 1
  /\ missed \in SUBSET (1 .. MaxStackEntries)

(* K may stand for p: what continues p to a callchain does so for K.       *)
Covers(K, p) ==
  \A w \in Seq(Entries) : p \o w \in Callchains => K \o w \in Callchains

(* The cursor holds the entries of the callstack before i.                 *)
FillInv ==
  phase = "fill" =>
    /\ input \in Inputs
    /\ i \in 1 .. MaxStackEntries + 1
    /\ \A j \in 1 .. i - 1 : input[j] # 0
    /\ missed \subseteq 1 .. i - 1
    /\ Covers(Read, SubSeq(input, 1, i - 1))
    /\ Read = KeptOf(input, missed)[i - 1]

FrameType == [node : Nat, old_pos : Nat, old_last : Nat, tried : BOOLEAN,
              path : Seq(Entries)]

(* The running merge_chain_branch() calls go down the tree that is         *)
(* drained, and their saved positions go up in the cursor.                 *)
FramesIn(fr, N, c) ==
  /\ fr \in Seq(FrameType) /\ fr # <<>> /\ fr[1].node = Root
  /\ DOMAIN N \subseteq Nat
  /\ \A f \in 1 .. Len(fr) :
       /\ fr[f].node \in DOMAIN N
       /\ fr[f].old_last = fr[f].old_pos + 1
       /\ fr[f].old_pos <= c.nr
  /\ \A f, g \in 1 .. Len(fr) :
       f < g => fr[f].node # fr[g].node /\ fr[f].old_pos <= fr[g].old_pos
  /\ \A f \in 1 .. Len(fr) - 1 :
       N[fr[f + 1].node].parent = fr[f].node /\ N[fr[f].node].val = <<>>

(* What the cursor holds for a running call: the entries that were there   *)
(* when it called the next one, or those that it is still moving.          *)
Held(fr, N, c, f) ==
  IF f = Len(fr) THEN SubSeq(c.cells, 1, c.nr) \o N[fr[f].node].val
  ELSE SubSeq(c.cells, 1, fr[f + 1].old_pos)

HeldIn(fr, N, c, failed) ==
  \A f \in 1 .. Len(fr) :
    /\ Covers(Held(fr, N, c, f), fr[f].path)
    /\ failed = 0 => Held(fr, N, c, f) = fr[f].path

(* P gives the paths that the branches had before they were drained.       *)
Drained(P, fr, N) ==
  /\ \A n \in DOMAIN N : P[n] \in Callchains /\ N[n] \in Fields(Nat)
  /\ \A f \in 1 .. Len(fr) : P[fr[f].node] = fr[f].path
  /\ \A n \in DOMAIN N :
       (\A f \in 1 .. Len(fr) : fr[f].node # n) =>
         P[n] = P[N[n].parent] \o N[n].val

Draining(fr, N, c, failed) ==
  /\ FramesIn(fr, N, c)
  /\ HeldIn(fr, N, c, failed)
  /\ \E P : Drained(P, fr, N)

MergeInv ==
  phase = "merge" => Draining(frames, other.nodes, cursor, failures)

BInv ==
  /\ IInv /\ PathsIn(nodes) /\ OtherInv
  /\ CellsInv /\ PhaseInv /\ FillInv /\ MergeInv

-----------------------------------------------------------------------------
(* Callchains and what is left of them.                                    *)

(* A callchain is a sequence of entries.                                   *)
LEMMA CallchainSeq ==
  ASSUME NEW c \in Callchains
  PROVE  c \in Seq(Entries)
BY ChainSeq, EmptySeq DEF Callchains

(* What the loop of insert() reads is a callchain.                         *)
LEMMA InputPrefix ==
  ASSUME NEW s \in Inputs, NEW k \in 0 .. MaxStackEntries,
         \A j \in 1 .. k : s[j] # 0
  PROVE  /\ SubSeq(s, 1, k) \in Callchains
         /\ SubSeq(s, 1, k) \in Seq(Entries)
         /\ k > 0 => s[k] \in Entries
<1>1. MaxStackEntries \in Nat
      BY InputsAssumption
<1>2. CASE k = 0
  <2>1. SubSeq(s, 1, k) = <<>>
        BY <1>2, SubSeqEmpty
  <2> QED BY <1>2, <2>1, EmptySeq DEF Callchains
<1>3. CASE k > 0
  <2>1. k \in 1 .. MaxStackEntries /\ k \in Nat
        BY <1>1, <1>3
  <2>2. SubSeq(s, 1, k) \in Chains
        BY <2>1, CallchainsAssumption
  <2>3. SubSeq(s, 1, k) \in Seq(Entries)
        BY <2>2, ChainSeq
  <2>4. \A j \in 1 .. k : s[j] \in Nat
    <3>1. s \in [1 .. MaxStackEntries -> Nat]
          BY InputsAssumption
    <3> QED BY <1>1, <2>1, <3>1
  <2>5. Len(SubSeq(s, 1, k)) = k /\ SubSeq(s, 1, k)[k] = s[k]
        BY <2>1, <2>4, SubSeqProperties
  <2>6. SubSeq(s, 1, k)[k] \in Entries
    <3> DEFINE t == SubSeq(s, 1, k)
    <3>1. t \in Seq(Entries) /\ k \in 1 .. Len(t)
          BY <2>1, <2>3, <2>5
    <3> HIDE DEF t
    <3>2. t[k] \in Entries
          BY <3>1, ElementOfSeq
    <3> QED BY <3>2 DEF t
  <2> QED BY <2>2, <2>3, <2>5, <2>6 DEF Callchains
<1> QED BY <1>2, <1>3

(* A callchain without one of its entries is a callchain.                  *)
LEMMA OneLess ==
  ASSUME NEW s \in Seq(Entries), NEW t \in Seq(Entries), NEW e \in Entries,
         (s \o <<e>>) \o t \in Callchains
  PROVE  s \o t \in Callchains
<1> DEFINE c == (s \o <<e>>) \o t
           j == Len(s) + 1
<1>1. Len(s) \in Nat /\ Len(t) \in Nat
      BY LenProperties
<1>2. /\ s \o <<e>> \in Seq(Entries) /\ Len(s \o <<e>>) = j
      /\ \A k \in 1 .. Len(s) : (s \o <<e>>)[k] = s[k]
  <2>1. <<e>> \in Seq(Entries) /\ Len(<<e>>) = 1
        OBVIOUS
  <2> QED BY <1>1, <2>1, ConcatProperties
<1>3. /\ c \in Seq(Entries) /\ Len(c) = j + Len(t)
      /\ \A k \in 1 .. Len(s) : c[k] = s[k]
      /\ \A k \in 1 .. Len(t) : c[j + k] = t[k]
  <2> DEFINE a == s \o <<e>>
  <2>1. /\ a \in Seq(Entries) /\ Len(a) = j /\ j \in Nat
        /\ \A k \in 1 .. Len(s) : a[k] = s[k]
        BY <1>1, <1>2
  <2>2. c = a \o t
        OBVIOUS
  <2> HIDE DEF a, c, j
  <2>3. /\ c \in Seq(Entries) /\ Len(c) = j + Len(t)
        /\ \A k \in 1 .. j + Len(t) : c[k] = IF k <= j THEN a[k] ELSE t[k - j]
        BY <2>1, <2>2, ConcatProperties
  <2>4. ASSUME NEW k \in 1 .. Len(s)
        PROVE  c[k] = s[k]
        BY <1>1, <2>1, <2>3 DEF j
  <2>5. ASSUME NEW k \in 1 .. Len(t)
        PROVE  c[j + k] = t[k]
    <3>1. /\ j + k \in 1 .. j + Len(t) /\ ~ (j + k <= j) /\ (j + k) - j = k
          BY <1>1, <2>1
    <3> QED BY <2>3, <3>1
  <2> QED BY <2>3, <2>4, <2>5
<1>4. c \in Chains /\ j \in 1 .. Len(c)
  <2>1. c # <<>>
    <3> HIDE DEF c
    <3> QED BY <1>1, <1>3, EmptySeq
  <2> HIDE DEF c
  <2> QED BY <1>1, <1>3, <2>1 DEF Callchains, c
<1> HIDE DEF c
<1>5. /\ SubSeq(c, 1, j - 1) = s
      /\ SubSeq(c, j + 1, Len(c)) = t
  <2>1. /\ \A k \in 1 .. j - 1 : c[k] \in Entries
        /\ \A k \in j + 1 .. Len(c) : c[k] \in Entries
        BY <1>1, <1>3, ElementOfSeq
  <2>2. /\ SubSeq(c, 1, j - 1) \in Seq(Entries)
        /\ Len(SubSeq(c, 1, j - 1)) = Len(s)
        /\ \A k \in 1 .. Len(s) : SubSeq(c, 1, j - 1)[k] = c[k]
        BY <1>1, <2>1, SubSeqProperties
  <2>3. /\ SubSeq(c, j + 1, Len(c)) \in Seq(Entries)
        /\ Len(SubSeq(c, j + 1, Len(c))) = Len(t)
        /\ \A k \in 1 .. Len(t) : SubSeq(c, j + 1, Len(c))[k] = c[j + k]
        BY <1>1, <1>3, <2>1, SubSeqProperties
  <2>4. SubSeq(c, 1, j - 1) = s
        BY <1>3, <2>2, SeqEqual
  <2>5. SubSeq(c, j + 1, Len(c)) = t
        BY <1>3, <2>3, SeqEqual
  <2> QED BY <2>4, <2>5
<1>6. RemoveAt(c, j) = s \o t
      BY <1>5 DEF RemoveAt
<1>7. RemoveAt(c, j) \in Chains \cup {<<>>}
      BY <1>4, CallchainsAssumption
<1> QED BY <1>6, <1>7 DEF Callchains

(* A prefix of a callchain is a callchain.                                 *)
LEMMA PrefixIsCallchain ==
  ASSUME NEW c \in Callchains, NEW k \in 0 .. Len(c)
  PROVE  SubSeq(c, 1, k) \in Callchains
<1>1. c \in Seq(Entries) /\ Len(c) \in Nat
      BY CallchainSeq, LenProperties
<1> DEFINE Good == {d \in Nat : d <= Len(c) => SubSeq(c, 1, Len(c) - d) \in Callchains}
<1>2. 0 \in Good
  <2>1. SubSeq(c, 1, Len(c)) = c /\ Len(c) - 0 = Len(c)
        BY <1>1, SubSeqFull
  <2> QED BY <2>1
<1>3. ASSUME NEW d \in Nat, d \in Good
      PROVE  d + 1 \in Good
  <2> SUFFICES ASSUME d + 1 <= Len(c)
               PROVE  SubSeq(c, 1, Len(c) - (d + 1)) \in Callchains
      OBVIOUS
  <2> DEFINE n == Len(c) - d
             s == SubSeq(c, 1, n - 1)
  <2>1. /\ n \in 1 .. Len(c) /\ 1 \in 1 .. Len(c) /\ n \in Nat
        /\ n - 1 \in 0 .. Len(c) /\ n - 1 = Len(c) - (d + 1)
        BY <1>1
  <2>2. SubSeq(c, 1, n) \in Callchains
        BY <1>1, <1>3
  <2>3. SubSeq(c, 1, n) = s \o <<c[n]>>
    <3> HIDE DEF n
    <3>1. n \in 1 .. Len(c)
          BY <2>1
    <3> QED BY <1>1, <2>1, <3>1, SubSeqRecursiveSecond
  <2>4. s \in Seq(Entries) /\ c[n] \in Entries
    <3> HIDE DEF n
    <3> QED BY <1>1, <2>1, PrefixOf, ElementOfSeq
  <2> HIDE DEF s, n
  <2>5. (s \o <<c[n]>>) \o <<>> = s \o <<c[n]>> /\ <<>> \in Seq(Entries)
        /\ s \o <<>> = s
    <3>1. <<c[n]>> \in Seq(Entries)
          BY <2>4
    <3>2. s \o <<c[n]>> \in Seq(Entries)
          BY <2>4, <3>1, ConcatProperties
    <3> QED BY <2>4, <3>2, ConcatEmptySeq, EmptySeq
  <2>6. s \in Callchains
    <3> DEFINE t == <<>>
               e == c[n]
    <3>1. t \in Seq(Entries) /\ e \in Entries /\ s \o t = s
          BY <2>4, <2>5
    <3>2. (s \o <<e>>) \o t \in Callchains
          BY <2>2, <2>3, <2>5
    <3> HIDE DEF t, e
    <3> QED BY <2>4, <3>1, <3>2, OneLess
  <2> QED BY <2>1, <2>6 DEF s
<1>4. Len(c) - k \in Good
  <2> HIDE DEF Good
  <2>1. Len(c) - k \in Nat
        BY <1>1
  <2> QED BY <1>2, <1>3, <2>1, NatSetInduction
<1>5. SubSeq(c, 1, Len(c) - (Len(c) - k)) \in Callchains
      BY <1>1, <1>4
<1>6. Len(c) - (Len(c) - k) = k
      BY <1>1
<1> QED BY <1>5, <1>6

(* The same entries may follow on both sides.                              *)
LEMMA CoversMore ==
  ASSUME NEW K \in Seq(Entries), NEW p \in Seq(Entries), Covers(K, p),
         NEW v \in Seq(Entries)
  PROVE  Covers(K \o v, p \o v)
<1> SUFFICES ASSUME NEW w \in Seq(Entries), (p \o v) \o w \in Callchains
             PROVE  (K \o v) \o w \in Callchains
    BY DEF Covers
<1>1. (p \o v) \o w = p \o (v \o w)
      BY Regroup, Zenon
<1>3. (K \o v) \o w = K \o (v \o w)
      BY Regroup, Zenon
<1>2. v \o w \in Seq(Entries)
      BY ConcatProperties
<1> QED BY <1>1, <1>2, <1>3 DEF Covers

(* One entry may be lost.                                                  *)
LEMMA CoversLess ==
  ASSUME NEW K \in Seq(Entries), NEW p, NEW e \in Entries,
         NEW v \in Seq(Entries), Covers((K \o <<e>>) \o v, p)
  PROVE  Covers(K \o v, p)
<1> SUFFICES ASSUME NEW w \in Seq(Entries), p \o w \in Callchains
             PROVE  (K \o v) \o w \in Callchains
    BY DEF Covers
<1>0. <<e>> \in Seq(Entries)
      OBVIOUS
<1>1. K \o <<e>> \in Seq(Entries) /\ v \o w \in Seq(Entries)
      BY <1>0, ConcatProperties
<1>2. ((K \o <<e>>) \o v) \o w \in Callchains
      BY DEF Covers
<1>3. ((K \o <<e>>) \o v) \o w = (K \o <<e>>) \o (v \o w)
  <2>1. PICK head : head = K \o <<e>>
        OBVIOUS
  <2>2. head \in Seq(Entries)
        BY <1>1, <2>1
  <2>3. (head \o v) \o w = head \o (v \o w)
        BY <2>2, Regroup, Zenon
  <2> QED BY <2>1, <2>3
<1>4. K \o (v \o w) \in Callchains
      BY <1>1, <1>2, <1>3, OneLess
<1>5. (K \o v) \o w = K \o (v \o w)
      BY Regroup, Zenon
<1> QED BY <1>4, <1>5

(* What covers a callchain is one.                                         *)
LEMMA CoversItself ==
  ASSUME NEW K \in Seq(Entries), NEW p \in Callchains, Covers(K, p)
  PROVE  K \in Callchains
<1>1. <<>> \in Seq(Entries) /\ p \in Seq(Entries)
      BY EmptySeq, CallchainSeq
<1>2. p \o <<>> = p /\ K \o <<>> = K
      BY <1>1, ConcatEmptySeq
<1> QED BY <1>1, <1>2 DEF Covers

-----------------------------------------------------------------------------
(* The cursor.                                                             *)

(* What the cursor holds is a sequence of entries.                         *)
LEMMA ReadSeq ==
  ASSUME CellsInv
  PROVE  /\ Read \in Seq(Entries) /\ Len(Read) = cursor.nr
         /\ \A k \in 0 .. cursor.nr : SubSeq(cursor.cells, 1, k) \in Seq(Entries)
         /\ cursor.nr \in Nat /\ Len(cursor.cells) \in Nat
<1>1. /\ cursor.cells \in Seq(Entries) /\ Len(cursor.cells) \in Nat
      /\ cursor.nr \in 0 .. Len(cursor.cells)
      BY LenProperties DEF CellsInv
<1>2. cursor.nr \in Nat /\ 0 .. cursor.nr \subseteq 0 .. Len(cursor.cells)
      BY <1>1
<1>3. Read \in Seq(Entries) /\ Len(Read) = cursor.nr
      BY <1>1, PrefixOf DEF Read
<1>4. \A k \in 0 .. cursor.nr : SubSeq(cursor.cells, 1, k) \in Seq(Entries)
      BY <1>1, <1>2, PrefixOf
<1> QED BY <1>1, <1>2, <1>3, <1>4

(* An entry that is appended follows those that are there.                 *)
LEMMA AppendRead ==
  ASSUME CellsInv, NEW e \in Entries, CursorAppend(e)
  PROVE  /\ CellsInv' /\ failures' = failures
         /\ Read' = Read \o <<e>> /\ cursor'.nr = cursor.nr + 1
         /\ \A k \in 0 .. cursor.nr :
              SubSeq(cursor'.cells, 1, k) = SubSeq(cursor.cells, 1, k)
<1> DEFINE s == cursor.cells
           t == cursor'.cells
           n == cursor.nr
<1>1. /\ s \in Seq(Entries) /\ Len(s) \in Nat /\ n \in Nat /\ n <= Len(s)
      /\ cursor.last = n + 1
      BY LenProperties DEF CellsInv
<1>2. /\ t = IF n + 1 <= Len(s) THEN [s EXCEPT ![n + 1] = e] ELSE Append(s, e)
      /\ cursor'.nr = n + 1 /\ cursor'.last = (n + 1) + 1
      /\ cursor' = [cells |-> t, nr |-> cursor'.nr, last |-> cursor'.last]
      /\ failures' = failures
      BY <1>1 DEF CursorAppend
<1> HIDE DEF s, t, n
<1>3. /\ t \in Seq(Entries) /\ Len(t) \in Nat /\ n + 1 <= Len(t)
      /\ t[n + 1] = e /\ \A k \in 1 .. n : t[k] = s[k]
  <2>1. CASE n + 1 <= Len(s)
    <3>1. t = [s EXCEPT ![n + 1] = e] /\ n + 1 \in 1 .. Len(s)
          BY <1>1, <1>2, <2>1
    <3>2. t \in Seq(Entries) /\ Len(t) = Len(s)
          BY <1>1, <3>1, ExceptSeq
    <3>3. t[n + 1] = e /\ \A k \in 1 .. n : t[k] = s[k]
          BY <1>1, <3>1, ExceptSeq
    <3> QED BY <1>1, <2>1, <3>2, <3>3
  <2>2. CASE ~ (n + 1 <= Len(s))
    <3>1. t = Append(s, e) /\ Len(s) = n
          BY <1>1, <1>2, <2>2
    <3>2. /\ t \in Seq(Entries) /\ Len(t) = Len(s) + 1
          /\ \A k \in 1 .. Len(s) : t[k] = s[k]
          /\ t[Len(s) + 1] = e
          BY <1>1, <3>1, AppendProperties
    <3> QED BY <1>1, <3>1, <3>2
  <2> QED BY <2>1, <2>2
<1>4. ASSUME NEW k \in 0 .. n
      PROVE  SubSeq(t, 1, k) = SubSeq(s, 1, k)
  <2>1. k \in 0 .. Len(s) /\ k \in 0 .. Len(t) /\ k \in Nat
        BY <1>1, <1>3
  <2>2. /\ SubSeq(t, 1, k) \in Seq(Entries) /\ Len(SubSeq(t, 1, k)) = k
        /\ \A j \in 1 .. k : SubSeq(t, 1, k)[j] = t[j]
        BY <1>3, <2>1, PrefixOf
  <2>3. /\ SubSeq(s, 1, k) \in Seq(Entries) /\ Len(SubSeq(s, 1, k)) = k
        /\ \A j \in 1 .. k : SubSeq(s, 1, k)[j] = s[j]
        BY <1>1, <2>1, PrefixOf
  <2>4. \A j \in 1 .. k : SubSeq(t, 1, k)[j] = SubSeq(s, 1, k)[j]
        BY <1>1, <1>3, <2>1, <2>2, <2>3
  <2> QED BY <2>2, <2>3, <2>4, SeqEqual
<1>5. SubSeq(t, 1, n + 1) = SubSeq(s, 1, n) \o <<e>>
  <2> DEFINE m == n + 1
  <2>1. /\ m \in 1 .. Len(t) /\ 1 \in 1 .. Len(t) /\ m - 1 = n
        /\ m - 1 \in 0 .. n /\ t[m] = e
        BY <1>1, <1>3
  <2> HIDE DEF m
  <2>2. SubSeq(t, 1, m) = SubSeq(t, 1, m - 1) \o <<t[m]>>
        BY <1>3, <2>1, SubSeqRecursiveSecond
  <2> QED BY <1>4, <2>1, <2>2 DEF m
<1>6. Read' = Read \o <<e>>
      BY <1>2, <1>5 DEF Read, s, t, n
<1>7. CellsInv'
  <2>1. n + 1 \in 0 .. Len(t)
        BY <1>1, <1>3
  <2> QED BY <1>2, <1>3, <2>1 DEF CellsInv, t
<1> QED BY <1>2, <1>4, <1>6, <1>7 DEF s, t, n

(* An entry that is lost changes nothing but the count of failures.        *)
LEMMA AppendReadFails ==
  ASSUME CellsInv, failures \in Nat, CursorAppendFails
  PROVE  CellsInv' /\ Read' = Read /\ cursor' = cursor
         /\ failures' \in Nat /\ failures' # 0
BY DEF CellsInv, Read, CursorAppendFails

(* A cursor that is reset is empty and keeps its nodes, or has none.       *)
LEMMA ResetRead ==
  ASSUME CellsInv, cursor' = CursorReset \/ cursor' = NoCursor
  PROVE  CellsInv' /\ Read' = <<>> /\ cursor'.nr = 0
<1>1. /\ cursor.cells \in Seq(Entries) /\ Len(cursor.cells) \in Nat
      BY LenProperties DEF CellsInv
<1>2. /\ cursor'.cells \in Seq(Entries) /\ cursor'.nr = 0 /\ cursor'.last = 1
      /\ cursor' = [cells |-> cursor'.cells, nr |-> cursor'.nr, last |-> cursor'.last]
  <2>1. CASE cursor' = CursorReset
    <3>1. cursor' = [cells |-> cursor.cells, nr |-> 0, last |-> 1]
          BY <2>1 DEF CellsInv, CursorReset
    <3> QED BY <1>1, <3>1
  <2>2. CASE cursor' = NoCursor
        BY <2>2, EmptySeq DEF NoCursor
  <2> QED BY <2>1, <2>2
<1>3. Len(cursor'.cells) \in Nat
      BY <1>2, LenProperties
<1>4. CellsInv'
      BY <1>2, <1>3 DEF CellsInv
<1> QED BY <1>2, <1>4, SubSeqEmpty DEF Read

-----------------------------------------------------------------------------
(* What is left of a callstack.                                            *)

(* The values of KeptOf up to n.                                           *)
KeptUpTo(f, n, entries, lost) ==
  f = [j \in 0 .. n |->
         IF j = 0 THEN <<>>
         ELSE IF j \in lost THEN f[j - 1]
         ELSE Append(f[j - 1], entries[j])]

(* The equations of KeptOf have a solution.                                *)
LEMMA KeptExists ==
  ASSUME NEW entries, NEW lost, NEW n \in Nat
  PROVE  \E f : KeptUpTo(f, n, entries, lost)
<1> DEFINE Good == {m \in Nat : \E f : KeptUpTo(f, m, entries, lost)}
<1>1. 0 \in Good
  <2>1. KeptUpTo([j \in 0 .. 0 |-> <<>>], 0, entries, lost)
        BY DEF KeptUpTo
  <2> QED BY <2>1
<1>2. ASSUME NEW m \in Nat, m \in Good
      PROVE  m + 1 \in Good
  <2>1. PICK f : KeptUpTo(f, m, entries, lost)
        BY <1>2
  <2> DEFINE last == IF m + 1 \in lost THEN f[m] ELSE Append(f[m], entries[m + 1])
             g == [j \in 0 .. m + 1 |-> IF j = m + 1 THEN last ELSE f[j]]
  <2>2. \A j \in 0 .. m : g[j] = f[j]
        BY <1>2
  <2>3. ASSUME NEW j \in 0 .. m + 1
        PROVE  g[j] = IF j = 0 THEN <<>>
                      ELSE IF j \in lost THEN g[j - 1]
                      ELSE Append(g[j - 1], entries[j])
    <3>1. CASE j = m + 1
      <4>1. j # 0 /\ j - 1 = m /\ g[j] = last
            BY <1>2, <3>1
      <4>2. g[m] = f[m]
            BY <1>2, <2>2
      <4> HIDE DEF g
      <4> QED BY <3>1, <4>1, <4>2
    <3>2. CASE j # m + 1
      <4>1. j \in 0 .. m /\ (j # 0 => j - 1 \in 0 .. m)
            BY <1>2, <3>2
      <4>2. g[j] = f[j] /\ (j # 0 => g[j - 1] = f[j - 1])
            BY <2>2, <4>1
      <4>3. f[j] = IF j = 0 THEN <<>>
                   ELSE IF j \in lost THEN f[j - 1]
                   ELSE Append(f[j - 1], entries[j])
            BY <2>1, <4>1 DEF KeptUpTo
      <4> HIDE DEF g
      <4> QED BY <4>2, <4>3
    <3> QED BY <3>1, <3>2
  <2>4. g = [j \in 0 .. m + 1 |-> g[j]]
        OBVIOUS
  <2> HIDE DEF g
  <2>5. KeptUpTo(g, m + 1, entries, lost)
        BY <2>3, <2>4 DEF KeptUpTo
  <2> QED BY <1>2, <2>5
<1> HIDE DEF Good
<1>3. n \in Good
      BY <1>1, <1>2, NatSetInduction
<1> QED BY <1>3 DEF Good

(* KeptOf solves them.                                                     *)
LEMMA KeptStep ==
  ASSUME NEW entries, NEW lost
  PROVE  /\ KeptOf(entries, lost)[0] = <<>>
         /\ \A j \in 1 .. MaxStackEntries :
              /\ j \in lost =>
                   KeptOf(entries, lost)[j] = KeptOf(entries, lost)[j - 1]
              /\ j \notin lost =>
                   KeptOf(entries, lost)[j] =
                     Append(KeptOf(entries, lost)[j - 1], entries[j])
<1>1. MaxStackEntries \in Nat
      BY InputsAssumption
<1>2. \E f : KeptUpTo(f, MaxStackEntries, entries, lost)
      BY <1>1, KeptExists
<1>3. KeptOf(entries, lost) = CHOOSE f : KeptUpTo(f, MaxStackEntries, entries, lost)
      BY DEF KeptOf, KeptUpTo
<1>4. KeptUpTo(KeptOf(entries, lost), MaxStackEntries, entries, lost)
      BY <1>2, <1>3
<1> DEFINE K == KeptOf(entries, lost)
<1> HIDE DEF K
<1>5. K = [j \in 0 .. MaxStackEntries |->
             IF j = 0 THEN <<>>
             ELSE IF j \in lost THEN K[j - 1]
             ELSE Append(K[j - 1], entries[j])]
      BY <1>4 DEF KeptUpTo, K
<1>6. /\ 0 \in 0 .. MaxStackEntries
      /\ \A j \in 1 .. MaxStackEntries : j \in 0 .. MaxStackEntries /\ j # 0
      BY <1>1
<1>7. K[0] = <<>>
      BY <1>5, <1>6
<1>8. ASSUME NEW j \in 1 .. MaxStackEntries
      PROVE  /\ j \in lost => K[j] = K[j - 1]
             /\ j \notin lost => K[j] = Append(K[j - 1], entries[j])
      BY <1>5, <1>6
<1> QED BY <1>7, <1>8 DEF K

(* What is lost later does not matter.                                     *)
LEMMA KeptBefore ==
  ASSUME NEW entries, NEW lost, NEW k \in 1 .. MaxStackEntries
  PROVE  KeptOf(entries, lost \cup {k})[k - 1] = KeptOf(entries, lost)[k - 1]
<1> DEFINE K == KeptOf(entries, lost)
           L == KeptOf(entries, lost \cup {k})
           Good == {j \in Nat : j < k => L[j] = K[j]}
<1>1. MaxStackEntries \in Nat /\ k \in Nat
      BY InputsAssumption
<1>2. 0 \in Good
      BY KeptStep
<1>3. ASSUME NEW j \in Nat, j \in Good
      PROVE  j + 1 \in Good
  <2> SUFFICES ASSUME j + 1 < k
               PROVE  L[j + 1] = K[j + 1]
      OBVIOUS
  <2>1. /\ j + 1 \in 1 .. MaxStackEntries /\ j < k /\ (j + 1) - 1 = j
        /\ (j + 1 \in lost \cup {k}) = (j + 1 \in lost)
        BY <1>1
  <2>2. L[j] = K[j]
        BY <1>3, <2>1
  <2>3. /\ j + 1 \in lost => K[j + 1] = K[(j + 1) - 1]
        /\ j + 1 \notin lost => K[j + 1] = Append(K[(j + 1) - 1], entries[j + 1])
        BY <2>1, KeptStep
  <2>4. /\ j + 1 \in lost \cup {k} => L[j + 1] = L[(j + 1) - 1]
        /\ j + 1 \notin lost \cup {k} =>
             L[j + 1] = Append(L[(j + 1) - 1], entries[j + 1])
        BY <2>1, KeptStep
  <2> HIDE DEF K, L
  <2> QED BY <2>1, <2>2, <2>3, <2>4
<1>4. k - 1 \in Good
  <2> HIDE DEF Good
  <2>1. k - 1 \in Nat
        BY <1>1
  <2> QED BY <1>2, <1>3, <2>1, NatSetInduction
<1> HIDE DEF K, L
<1>5. k - 1 < k
      BY <1>1
<1> QED BY <1>4, <1>5 DEF K, L

-----------------------------------------------------------------------------
(* What the steps have in common.                                          *)

(* A call that appends keeps its callchain until it returns, and an        *)
(* allocation that fails is counted.                                       *)
LEMMA CallFrame ==
  ASSUME IInv, Step
  PROVE  /\ pc # "idle"
         /\ pc' # "idle" => chain' = chain
         /\ failures \in Nat
         /\ failures' = failures \/ (failures' \in Nat /\ failures' # 0)
<1>1. failures \in Nat
      BY DEF IInv, RestInv
<1>2. Found => /\ chain' = chain /\ failures' = failures
      BY DEF Found
<1>3. Fail => /\ pc' = "idle" /\ failures' = failures + 1
      BY DEF Fail
<1>4. CASE AddChild
      BY <1>1, <1>2, <1>3, <1>4 DEF AddChild
<1>5. CASE AppendChain
  <2>1. pc = "down"
        BY <1>5 DEF AppendChain
  <2>2. PICK c \in Candidates :
          SplitAtEnd(c) \/ SplitAndBranch(c) \/ FullMatch(c) \/ Descend(c)
        BY <1>5 DEF AppendChain
  <2>3. SplitAtEnd(c) => Found \/ Fail
        BY DEF SplitAtEnd
  <2>4. SplitAndBranch(c) => Found \/ Fail
        BY DEF SplitAndBranch
  <2>5. FullMatch(c) => Found
        BY DEF FullMatch
  <2>6. Descend(c) => chain' = chain /\ failures' = failures
        BY DEF Descend
  <2> QED BY <1>1, <1>2, <1>3, <2>1, <2>2, <2>3, <2>4, <2>5, <2>6
<1>6. CASE Unwind
      BY <1>1, <1>6 DEF Unwind
<1>7. CASE Return
      BY <1>1, <1>7 DEF Return
<1> QED BY <1>4, <1>5, <1>6, <1>7 DEF Step

(* The nodes that an append leaves stand for callchains.                   *)
LEMMA SpelledPaths ==
  ASSUME PathsIn(nodes), chain \in Callchains, Spelled(PathIn(nodes'), nodes')
  PROVE  PathsIn(nodes')
<1> SUFFICES ASSUME NEW n \in DOMAIN nodes'
             PROVE  PathIn(nodes')[n] \in Callchains
    BY DEF PathsIn
<1>1. CASE \E o \in DOMAIN nodes : PathIn(nodes')[n] = PathIn(nodes)[o]
      BY <1>1 DEF PathsIn
<1>2. CASE \E k \in 0 .. Len(chain) : PathIn(nodes')[n] = SubSeq(chain, 1, k)
      BY <1>2, PrefixIsCallchain
<1> QED BY <1>1, <1>2 DEF Spelled

(* The other tree stays as it is while no merge drains it.                 *)
LEMMA OtherStays ==
  ASSUME OtherInv, other' = other,
         failures' = failures \/ failures' # 0,
         phase' \in {"merge", "merged"} \/ phase \notin {"merge", "merged"}
  PROVE  OtherInv'
BY DEF OtherInv, WholeTree

(* The tree at hand stays as it is.                                        *)
LEMMA TreeStays ==
  ASSUME IInv, PathsIn(nodes), UNCHANGED vars
  PROVE  /\ IInv' /\ PathsIn(nodes') /\ failures' = failures /\ failures \in Nat
         /\ pc' = pc /\ chain' = chain
<1>1. IInv'
      BY StutterStep
<1> QED BY <1>1 DEF vars, IInv, RestInv

(* An allocation that fails for the cursor does not concern the tree.      *)
LEMMA TreeStaysFailing ==
  ASSUME IInv, PathsIn(nodes), failures' \in Nat,
         failures' = failures \/ failures' # 0,
         UNCHANGED <<nodes, max_depth, pc, chain, pos, period, stack, appends>>
  PROVE  IInv' /\ PathsIn(nodes')
<1>1. /\ nodes' = nodes /\ max_depth' = max_depth /\ pc' = pc
      /\ chain' = chain /\ pos' = pos /\ period' = period
      /\ stack' = stack /\ appends' = appends
      OBVIOUS
<1>2. Here' = Here /\ Pending' = Pending /\ PendingHits' = PendingHits
      BY <1>1 DEF Here, Pending, PendingHits
<1>3. IInv'
      BY <1>1, <1>2
      DEF IInv, TreeInv, CursorInv, SumsInv, RootInv, RestInv
<1> QED BY <1>1, <1>3

-----------------------------------------------------------------------------
(* insert() keeps the invariant.                                           *)

(* insert() begins with an empty cursor.                                   *)
LEMMA InsertStep ==
  ASSUME BInv, NEW s \in Inputs, Insert(s)
  PROVE  BInv'
<1>1. IInv /\ PathsIn(nodes) /\ OtherInv /\ CellsInv /\ PhaseInv
      BY DEF BInv
<1>2. /\ phase = "idle" /\ phase' = "fill" /\ input' = s /\ i' = 1
      /\ missed' = {} /\ cursor' = CursorReset
      /\ UNCHANGED vars /\ other' = other /\ frames' = frames
      BY DEF Insert
<1>3. IInv' /\ PathsIn(nodes)' /\ failures' = failures /\ pc' = pc
      BY <1>1, <1>2, TreeStays
<1>4. CellsInv' /\ Read' = <<>>
      BY <1>1, <1>2, ResetRead
<1>5. OtherInv'
      BY <1>1, <1>2, <1>3, OtherStays
<1>6. PhaseInv'
  <2>1. 1 \in 0 .. MaxStackEntries + 1
        BY InputsAssumption
  <2> QED BY <1>1, <1>2, <1>3, <2>1 DEF PhaseInv
<1>7. FillInv'
  <2>1. 1 \in 1 .. MaxStackEntries + 1 /\ 1 - 1 = 0
        BY InputsAssumption
  <2>2. SubSeq(s, 1, 0) = <<>>
        BY SubSeqEmpty
  <2>3. Covers(<<>>, <<>>)
        BY DEF Covers
  <2>4. <<>> = KeptOf(s, {})[0]
        BY KeptStep
  <2>5. i' - 1 = 0 /\ i' \in 1 .. MaxStackEntries + 1
        BY <1>2, <2>1
  <2>6. Covers(Read', SubSeq(input', 1, i' - 1))
        BY <1>2, <1>4, <2>2, <2>3, <2>5, Zenon
  <2>7. Read' = KeptOf(input', missed')[i' - 1]
        BY <1>2, <1>4, <2>4, <2>5, Zenon
  <2>8. \A j \in 1 .. i' - 1 : input'[j] # 0
        BY <2>5
  <2>9. input' \in Inputs /\ missed' \subseteq 1 .. i' - 1
        BY <1>2
  <2> QED BY <2>5, <2>6, <2>7, <2>8, <2>9 DEF FillInv
<1>8. MergeInv'
      BY <1>2 DEF MergeInv
<1> QED BY <1>3, <1>4, <1>5, <1>6, <1>7, <1>8 DEF BInv

(* A callstack grows in the loop of insert() by one entry.                 *)
LEMMA InputGrows ==
  ASSUME BInv, phase = "fill", More
  PROVE  /\ i \in 1 .. MaxStackEntries /\ i \in Nat
         /\ input[i] \in Entries
         /\ SubSeq(input, 1, i - 1) \in Seq(Entries)
         /\ SubSeq(input, 1, i) = SubSeq(input, 1, i - 1) \o <<input[i]>>
         /\ \A j \in 1 .. i : input[j] # 0
<1>1. /\ input \in Inputs /\ i \in 1 .. MaxStackEntries + 1
      /\ \A j \in 1 .. i - 1 : input[j] # 0
      BY DEF BInv, FillInv
<1>2. i <= MaxStackEntries /\ input[i] # 0
      BY DEF More
<1>3. MaxStackEntries \in Nat
      BY InputsAssumption
<1>4. /\ i \in 1 .. MaxStackEntries /\ i \in Nat
      /\ i \in 0 .. MaxStackEntries /\ i - 1 \in 0 .. MaxStackEntries
      /\ \A j \in 1 .. i : input[j] # 0
      BY <1>1, <1>2, <1>3
<1>5. i > 0 /\ input[i] \in Entries
      BY <1>1, <1>4, InputPrefix
<1>6. SubSeq(input, 1, i - 1) \in Seq(Entries)
      BY <1>1, <1>4, InputPrefix
<1>7. input \in Seq(Nat) /\ Len(input) = MaxStackEntries
  <2>1. input \in [1 .. MaxStackEntries -> Nat]
        BY <1>1, InputsAssumption
  <2> QED BY <1>3, <2>1
<1>8. SubSeq(input, 1, i) = SubSeq(input, 1, i - 1) \o <<input[i]>>
  <2>1. 1 \in 1 .. Len(input) /\ i \in 1 .. Len(input)
        BY <1>4, <1>7
  <2> QED BY <1>7, <2>1, SubSeqRecursiveSecond
<1> QED BY <1>4, <1>5, <1>6, <1>8

(* Where an entry was lost, the callchain covers one that has it.          *)
LEMMA CoversLost ==
  ASSUME NEW K, NEW p \in Seq(Entries), NEW e \in Entries, Covers(K, p)
  PROVE  Covers(K, p \o <<e>>)
<1> SUFFICES ASSUME NEW w \in Seq(Entries), (p \o <<e>>) \o w \in Callchains
             PROVE  K \o w \in Callchains
    BY DEF Covers
<1>1. p \o w \in Callchains
      BY OneLess
<1> QED BY <1>1 DEF Covers

(* One round of the loop.                                                  *)
LEMMA FillEntryStep ==
  ASSUME BInv, FillEntry
  PROVE  BInv'
<1> DEFINE p == SubSeq(input, 1, i - 1)
<1>1. IInv /\ PathsIn(nodes) /\ OtherInv /\ CellsInv /\ PhaseInv /\ FillInv
      BY DEF BInv
<1>2. /\ phase = "fill" /\ More /\ phase' = phase /\ i' = i + 1
      /\ input' = input /\ other' = other /\ frames' = frames
      /\ UNCHANGED <<nodes, max_depth, pc, chain, pos, period, stack, appends>>
      BY DEF FillEntry
<1>3. /\ i \in 1 .. MaxStackEntries /\ i \in Nat /\ input[i] \in Entries
      /\ p \in Seq(Entries)
      /\ SubSeq(input, 1, i) = p \o <<input[i]>>
      /\ \A j \in 1 .. i : input[j] # 0
      BY <1>2, InputGrows
<1>4. /\ input \in Inputs /\ missed \subseteq 1 .. i - 1
      /\ Covers(Read, p) /\ Read = KeptOf(input, missed)[i - 1]
      BY <1>1, <1>2 DEF FillInv
<1>5. failures \in Nat /\ MaxStackEntries \in Nat
      BY <1>1, InputsAssumption DEF IInv, RestInv
<1>6. Read \in Seq(Entries)
      BY <1>1, ReadSeq
<1> HIDE DEF p
<1>7. /\ CellsInv' /\ failures' \in Nat /\ (failures' = failures \/ failures' # 0)
      /\ missed' \subseteq 1 .. i /\ Covers(Read', SubSeq(input, 1, i))
      /\ Read' = KeptOf(input, missed')[i]
  <2>1. CASE CursorAppend(input[i]) /\ UNCHANGED missed
    <3>1. CellsInv' /\ failures' = failures /\ Read' = Read \o <<input[i]>>
          BY <1>1, <1>3, <2>1, AppendRead
    <3>2. <<input[i]>> \in Seq(Entries)
          BY <1>3
    <3>3. Covers(Read \o <<input[i]>>, p \o <<input[i]>>)
          BY <1>3, <1>4, <1>6, <3>2, CoversMore
    <3>4. i \notin missed /\ missed \subseteq 1 .. i
          BY <1>3, <1>4
    <3>5. KeptOf(input, missed)[i] = Append(KeptOf(input, missed)[i - 1], input[i])
      <4>1. i \in 1 .. MaxStackEntries
            BY <1>3
      <4> QED BY <3>4, <4>1, KeptStep, Zenon
    <3>6. Append(Read, input[i]) = Read \o <<input[i]>>
          BY <1>3, <1>6, AppendIsConcat
    <3>7. missed' = missed
          BY <2>1
    <3> QED BY <1>3, <1>4, <1>5, <3>1, <3>3, <3>4, <3>5, <3>6, <3>7
  <2>2. CASE CursorAppendFails /\ missed' = missed \cup {i}
    <3>1. CellsInv' /\ Read' = Read /\ failures' \in Nat /\ failures' # 0
          BY <1>1, <1>5, <2>2, AppendReadFails
    <3>2. Covers(Read, p \o <<input[i]>>)
          BY <1>3, <1>4, CoversLost
    <3>3. missed' = missed \cup {i}
          BY <2>2
    <3>4. missed' \subseteq 1 .. i
          BY <1>3, <1>4, <3>3
    <3>5. i \in missed \cup {i}
          OBVIOUS
    <3>6. KeptOf(input, missed \cup {i})[i] = KeptOf(input, missed \cup {i})[i - 1]
          BY <1>3, <3>5, KeptStep
    <3>7. KeptOf(input, missed \cup {i})[i - 1] = KeptOf(input, missed)[i - 1]
          BY <1>3, KeptBefore
    <3> QED BY <1>3, <1>4, <3>1, <3>2, <3>3, <3>4, <3>6, <3>7
  <2> QED BY <2>1, <2>2 DEF FillEntry
<1>8. IInv' /\ PathsIn(nodes)'
      BY <1>1, <1>2, <1>7, TreeStaysFailing
<1>9. OtherInv'
      BY <1>1, <1>2, <1>7, OtherStays
<1>10. /\ i + 1 \in 1 .. MaxStackEntries + 1 /\ i + 1 \in 0 .. MaxStackEntries + 1
       /\ (i + 1) - 1 = i /\ 1 .. i \subseteq 1 .. MaxStackEntries
      BY <1>3, <1>5
<1>11. PhaseInv'
      BY <1>1, <1>2, <1>7, <1>10 DEF PhaseInv
<1>12. FillInv'
      BY <1>2, <1>3, <1>4, <1>7, <1>10 DEF FillInv
<1>13. MergeInv'
      BY <1>2 DEF MergeInv
<1> QED BY <1>7, <1>8, <1>9, <1>11, <1>12, <1>13 DEF BInv

(* Nothing was read, or all of it was lost.                                *)
LEMMA FillNothingStep ==
  ASSUME BInv, FillNothing
  PROVE  BInv'
<1>1. IInv /\ PathsIn(nodes) /\ OtherInv /\ CellsInv /\ PhaseInv
      BY DEF BInv
<1>2. /\ phase = "fill" /\ phase' = "idle" /\ i' = 0 /\ missed' = {}
      /\ UNCHANGED vars /\ other' = other /\ frames' = frames /\ cursor' = cursor
      BY DEF FillNothing, Filled, LoopOver
<1>3. IInv' /\ PathsIn(nodes)' /\ failures' = failures /\ pc' = pc
      BY <1>1, <1>2, TreeStays
<1>4. OtherInv'
      BY <1>1, <1>2, <1>3, OtherStays
<1>5. CellsInv'
      BY <1>1, <1>2 DEF CellsInv
<1>6. PhaseInv'
  <2>1. 0 \in 0 .. MaxStackEntries + 1
        BY InputsAssumption
  <2> QED BY <1>1, <1>2, <1>3, <2>1 DEF PhaseInv
<1>7. FillInv' /\ MergeInv'
      BY <1>2 DEF FillInv, MergeInv
<1> QED BY <1>3, <1>4, <1>5, <1>6, <1>7 DEF BInv

(* What insert() appends is a callchain.                                   *)
LEMMA FillEndStep ==
  ASSUME BInv, NEW p \in Periods, FillEnd(p)
  PROVE  BInv'
<1>1. IInv /\ PathsIn(nodes) /\ OtherInv /\ CellsInv /\ PhaseInv /\ FillInv
      BY DEF BInv
<1>2. /\ phase = "fill" /\ cursor.nr > 0 /\ phase' = "append"
      /\ i' = 0 /\ missed' = {}
      /\ other' = other /\ frames' = frames /\ cursor' = cursor
      BY DEF FillEnd, Filled, LoopOver
<1>3. /\ pc = "idle" /\ pc' = "down" /\ chain' = Read /\ period' = p /\ pos' = 0
      /\ stack' = <<Root>> /\ UNCHANGED <<nodes, max_depth, appends, failures>>
      BY DEF FillEnd, Start
<1>4. Read \in Chains
  <2>1. /\ input \in Inputs /\ i \in 1 .. MaxStackEntries + 1
        /\ \A j \in 1 .. i - 1 : input[j] # 0
        /\ Covers(Read, SubSeq(input, 1, i - 1))
        BY <1>1, <1>2 DEF FillInv
  <2>2. i - 1 \in 0 .. MaxStackEntries
        BY <2>1, InputsAssumption
  <2>3. SubSeq(input, 1, i - 1) \in Callchains
        BY <2>1, <2>2, InputPrefix
  <2>4. Read \in Seq(Entries) /\ Len(Read) = cursor.nr
        BY <1>1, ReadSeq
  <2>5. Read \in Callchains
        BY <2>1, <2>3, <2>4, CoversItself
  <2>6. Read # <<>>
        BY <1>2, <2>4
  <2> QED BY <2>5, <2>6 DEF Callchains
<1>5. p \in Nat
      BY ChainsAssumption
<1>6. IInv' /\ PathsIn(nodes)'
      BY <1>1, <1>3, <1>4, <1>5, CommitStep
<1>7. OtherInv'
      BY <1>1, <1>2, <1>3, OtherStays
<1>8. CellsInv' /\ Read' = Read
      BY <1>1, <1>2 DEF CellsInv, Read
<1>9. PhaseInv'
  <2>1. 0 \in 0 .. MaxStackEntries + 1
        BY InputsAssumption
  <2> QED BY <1>1, <1>2, <1>3, <1>8, <2>1 DEF PhaseInv
<1>10. FillInv' /\ MergeInv'
      BY <1>2 DEF FillInv, MergeInv
<1> QED BY <1>6, <1>7, <1>8, <1>9, <1>10 DEF BInv

(* callchain_append() is at work for insert().                             *)
LEMMA AppendStepKeeps ==
  ASSUME BInv, AppendStep
  PROVE  BInv'
<1>1. IInv /\ PathsIn(nodes) /\ OtherInv /\ CellsInv /\ PhaseInv
      BY DEF BInv
<1>2. /\ phase = "append" /\ Step
      /\ phase' = IF pc' = "idle" THEN "idle" ELSE "append"
      /\ i' = i /\ missed' = missed
      /\ other' = other /\ frames' = frames /\ cursor' = cursor
      BY DEF AppendStep
<1>3. /\ pc # "idle" /\ (pc' # "idle" => chain' = chain)
      /\ failures' = failures \/ failures' # 0
      BY <1>1, <1>2, CallFrame
<1>4. IInv' /\ PathsIn(nodes)'
  <2>1. CASE AddChild \/ AppendChain \/ Unwind
    <3>1. IInv' /\ Spelled(PathIn(nodes'), nodes')
          BY <1>1, <2>1, RunStep
    <3>2. chain \in Callchains
          BY <1>1, <1>3 DEF IInv, CursorInv, Callchains
    <3> QED BY <1>1, <3>1, <3>2, SpelledPaths
  <2>2. CASE Return
    <3>1. IInv'
          BY <1>1, <2>2, ReturnStep
    <3>2. nodes' = nodes
          BY <2>2 DEF Return
    <3> QED BY <1>1, <3>1, <3>2
  <2> QED BY <1>2, <2>1, <2>2 DEF Step
<1>5. OtherInv'
      BY <1>1, <1>2, <1>3, OtherStays
<1>6. CellsInv' /\ Read' = Read
      BY <1>1, <1>2 DEF CellsInv, Read
<1>7. PhaseInv'
      BY <1>1, <1>2, <1>3, <1>6 DEF PhaseInv
<1>8. FillInv' /\ MergeInv'
      BY <1>2 DEF FillInv, MergeInv
<1> QED BY <1>4, <1>5, <1>6, <1>7, <1>8 DEF BInv

(* The trees change places between two calls.                              *)
LEMMA SwitchStep ==
  ASSUME BInv, Switch
  PROVE  BInv'
<1>1. IInv /\ PathsIn(nodes) /\ OtherInv /\ CellsInv /\ PhaseInv
      BY DEF BInv
<1>2. /\ phase = "idle" /\ phase' = phase /\ i' = i /\ missed' = missed
      /\ nodes' = other.nodes /\ max_depth' = other.max_depth
      /\ appends' = other.appends
      /\ other' = [nodes |-> nodes, max_depth |-> max_depth, appends |-> appends,
                   weights |-> weights]
      /\ frames' = frames /\ cursor' = cursor
      /\ pc' = pc /\ chain' = chain /\ pos' = pos /\ period' = period
      /\ stack' = stack /\ failures' = failures
      BY DEF Switch
<1>3. WholeTree(other) /\ pc = "idle"
      BY <1>1, <1>2 DEF OtherInv, PhaseInv
<1>4. /\ Forest(nodes') /\ PathsIn(nodes')
      /\ failures = 0 => SumsOK(nodes', Root, 0, 0) /\ Branching(nodes', Root)
      /\ SumFunction(appends') = nodes'[Root].children_count
      /\ appends' \in [Chains -> Nat] /\ max_depth' \in Nat
      BY <1>2, <1>3 DEF WholeTree
<1>5. stack = <<>> /\ CursorInv
      BY <1>1, <1>3 DEF IInv, CursorInv
<1>6. Pending = 0 /\ PendingHits = 0 /\ Pending' = 0 /\ PendingHits' = 0
      BY <1>2, <1>3 DEF Pending, PendingHits
<1>7. IInv'
  <2>1. StackIn(stack', nodes', PathIn(nodes'))
    <3>1. stack' = <<>>
          BY <1>2, <1>5
    <3>2. Len(<<>>) = 0 /\ <<>> \in Seq(DOMAIN nodes')
          BY EmptySeq
    <3>3. 1 .. 0 - 1 = {} /\ 1 .. 0 = {}
          OBVIOUS
    <3> QED BY <3>1, <3>2, <3>3 DEF StackIn
  <2>2. TreeInv'
        BY <1>4, <2>1 DEF TreeInv
  <2>3. CursorInv'
        BY <1>2, <1>3, <1>5 DEF CursorInv
  <2>4. SumsInv'
    <3>1. failures' = 0 => SumsOK(nodes', Here', 0, 0) /\ Branching(nodes', Root)
          BY <1>2, <1>4, NobodyWaits
    <3> QED BY <1>6, <3>1 DEF SumsInv
  <2>5. RootInv'
    <3>1. nodes'[Root].children_count \in Nat
          BY <1>4, NodeFields DEF Forest
    <3> QED BY <1>4, <1>6, <3>1 DEF RootInv
  <2>6. RestInv'
        BY <1>1, <1>2, <1>4 DEF IInv, RestInv
  <2> QED BY <2>2, <2>3, <2>4, <2>5, <2>6 DEF IInv
<1>8. OtherInv'
  <2>1. /\ Forest(nodes) /\ SumFunction(appends) = nodes[Root].children_count + 0
        /\ appends \in [Chains -> Nat] /\ max_depth \in Nat
        /\ failures = 0 => SumsOK(nodes, Here, 0, 0) /\ Branching(nodes, Root)
        BY <1>1, <1>6 DEF IInv, TreeInv, RootInv, RestInv, SumsInv
  <2>2. failures = 0 => SumsOK(nodes, Root, 0, 0)
        BY <2>1, NobodyWaits
  <2>3. nodes[Root].children_count \in Nat
        BY <2>1, NodeFields DEF Forest
  <2>4. /\ other'.nodes = nodes /\ other'.appends = appends
        /\ other'.max_depth = max_depth /\ other'.weights = weights
        BY <1>2
  <2>5. WholeTree(other)'
        BY <1>1, <1>2, <2>1, <2>2, <2>3, <2>4 DEF WholeTree
  <2> QED BY <1>2, <2>4, <2>5 DEF OtherInv
<1>9. CellsInv' /\ Read' = Read
      BY <1>1, <1>2 DEF CellsInv, Read
<1>10. PhaseInv'
      BY <1>1, <1>2, <1>9 DEF PhaseInv
<1>11. FillInv' /\ MergeInv'
      BY <1>2 DEF FillInv, MergeInv
<1>12. PathsIn(nodes)'
      BY <1>4
<1> QED BY <1>7, <1>8, <1>9, <1>10, <1>11, <1>12 DEF BInv

-----------------------------------------------------------------------------
(* The frames of merge_chain_branch() as values.                           *)

(* The fields of the running calls, one by one.                            *)
LEMMA FrameFacts ==
  ASSUME NEW fr, NEW N, NEW c, FramesIn(fr, N, c)
  PROVE  /\ Len(fr) \in Nat \ {0} /\ Len(fr) \in 1 .. Len(fr) /\ 1 \in 1 .. Len(fr)
         /\ Last(fr) = fr[Len(fr)] /\ fr # <<>>
         /\ \A f \in 1 .. Len(fr) :
              /\ fr[f] \in FrameType
              /\ fr[f].node \in Nat /\ fr[f].old_pos \in Nat
              /\ fr[f].old_last \in Nat /\ fr[f].path \in Seq(Entries)
<1>1. fr \in Seq(FrameType) /\ fr # <<>>
      BY DEF FramesIn
<1>2. Len(fr) \in Nat \ {0} /\ \A f \in 1 .. Len(fr) : fr[f] \in FrameType
      BY <1>1, LenProperties, EmptySeq, ElementOfSeq
<1>3. Last(fr) = fr[Len(fr)]
      BY DEF Last
<1>4. ASSUME NEW f \in 1 .. Len(fr)
      PROVE  /\ fr[f].node \in Nat /\ fr[f].old_pos \in Nat
             /\ fr[f].old_last \in Nat /\ fr[f].path \in Seq(Entries)
      BY <1>2 DEF FrameType
<1>5. Len(fr) \in 1 .. Len(fr) /\ 1 \in 1 .. Len(fr)
      BY <1>2
<1> QED BY <1>1, <1>2, <1>3, <1>4, <1>5

(* The fields of a call that begins.                                       *)
LEMMA FrameFields ==
  ASSUME NEW n \in Nat, NEW c, c.nr \in Nat, c.last \in Nat,
         NEW p \in Seq(Entries)
  PROVE  /\ Frame(n, c, p) \in FrameType
         /\ Frame(n, c, p).node = n /\ Frame(n, c, p).path = p
         /\ Frame(n, c, p).old_pos = c.nr /\ Frame(n, c, p).old_last = c.last
<1> DEFINE x == c.nr
           y == c.last
           S == Seq(Entries)
<1>1. x \in Nat /\ y \in Nat /\ p \in S
      OBVIOUS
<1>2. Frame(n, c, p) =
        [node |-> n, old_pos |-> x, old_last |-> y, tried |-> FALSE, path |-> p]
      BY DEF Frame
<1>3. FrameType = [node : Nat, old_pos : Nat, old_last : Nat, tried : BOOLEAN,
                   path : S]
      BY DEF FrameType
<1> HIDE DEF x, y, S
<1>4. [node |-> n, old_pos |-> x, old_last |-> y, tried |-> FALSE, path |-> p]
        \in [node : Nat, old_pos : Nat, old_last : Nat, tried : BOOLEAN, path : S]
      BY <1>1
<1>5. Frame(n, c, p) \in FrameType
      BY <1>2, <1>3, <1>4, Zenon
<1> QED BY <1>2, <1>5 DEF x, y

(* The fields of a node that is drained.                                   *)
LEMMA DrainedFields ==
  ASSUME NEW fr, NEW N, NEW c, NEW fl, Draining(fr, N, c, fl), NEW n \in DOMAIN N
  PROVE  /\ N[n].val \in Seq(Entries) /\ N[n].hit \in Nat /\ N[n].parent \in Nat
         /\ N[n].count \in Nat
BY DEF Draining, Drained, Fields

(* That a branch was tried does not concern the others.                    *)
LEMMA DrainTried ==
  ASSUME NEW fr, NEW N, NEW c, NEW fl, Draining(fr, N, c, fl),
         NEW gr \in Seq(FrameType), Len(gr) = Len(fr),
         \A f \in 1 .. Len(fr) :
           /\ gr[f].node = fr[f].node /\ gr[f].path = fr[f].path
           /\ gr[f].old_pos = fr[f].old_pos /\ gr[f].old_last = fr[f].old_last
  PROVE  Draining(gr, N, c, fl)
<1>1. FramesIn(fr, N, c) /\ HeldIn(fr, N, c, fl) /\ \E P : Drained(P, fr, N)
      BY DEF Draining
<1>2. Len(fr) \in Nat \ {0}
      BY <1>1, FrameFacts
<1>3. FramesIn(gr, N, c)
  <2>1. gr # <<>> /\ gr[1].node = Root /\ DOMAIN N \subseteq Nat
        BY <1>1, <1>2, EmptySeq DEF FramesIn
  <2>2. \A f \in 1 .. Len(gr) :
          /\ gr[f].node \in DOMAIN N
          /\ gr[f].old_last = gr[f].old_pos + 1
          /\ gr[f].old_pos <= c.nr
        BY <1>1 DEF FramesIn
  <2>3. \A f, g \in 1 .. Len(gr) :
          f < g => gr[f].node # gr[g].node /\ gr[f].old_pos <= gr[g].old_pos
        BY <1>1 DEF FramesIn
  <2>4. \A f \in 1 .. Len(gr) - 1 :
          N[gr[f + 1].node].parent = gr[f].node /\ N[gr[f].node].val = <<>>
    <3> TAKE f \in 1 .. Len(gr) - 1
    <3>1. f \in 1 .. Len(fr) /\ f + 1 \in 1 .. Len(fr) /\ f \in 1 .. Len(fr) - 1
          BY <1>2
    <3>2. N[fr[f + 1].node].parent = fr[f].node /\ N[fr[f].node].val = <<>>
          BY <1>1, <3>1 DEF FramesIn
    <3> QED BY <3>1, <3>2
  <2> QED BY <2>1, <2>2, <2>3, <2>4 DEF FramesIn
<1>4. HeldIn(gr, N, c, fl)
  <2>1. ASSUME NEW f \in 1 .. Len(fr)
        PROVE  Held(gr, N, c, f) = Held(fr, N, c, f)
    <3>1. f # Len(fr) => f + 1 \in 1 .. Len(fr)
          BY <1>2
    <3> QED BY <3>1 DEF Held
  <2> QED BY <1>1, <2>1 DEF HeldIn
<1>5. PICK P : Drained(P, fr, N)
      BY <1>1
<1>6. Drained(P, gr, N)
  <2>1. \A n \in DOMAIN N : P[n] \in Callchains /\ N[n] \in Fields(Nat)
        BY <1>5 DEF Drained
  <2>2. \A f \in 1 .. Len(gr) : P[gr[f].node] = gr[f].path
        BY <1>5 DEF Drained
  <2>3. ASSUME NEW n \in DOMAIN N, \A f \in 1 .. Len(gr) : gr[f].node # n
        PROVE  P[n] = P[N[n].parent] \o N[n].val
    <3>1. \A f \in 1 .. Len(fr) : fr[f].node # n
          BY <2>3
    <3> QED BY <1>5, <3>1 DEF Drained
  <2> QED BY <2>1, <2>2, <2>3 DEF Drained
<1> QED BY <1>3, <1>4, <1>6 DEF Draining

(* A failure only takes from what is claimed.                              *)
LEMMA DrainFails ==
  ASSUME NEW fr, NEW N, NEW c, NEW fl, Draining(fr, N, c, fl),
         NEW gl, gl = fl \/ gl # 0
  PROVE  Draining(fr, N, c, gl)
BY DEF Draining, HeldIn

(* The node n of N loses its first entry.                                  *)
Shortened(N, M, n) ==
  N[n].val # <<>> /\ M = [N EXCEPT ![n].val = Tail(@)]

(* The cursor goes from c to d: it takes the entry e, or an allocation     *)
(* fails.                                                                  *)
Takes(c, d, e, fl, gl) ==
  /\ c.nr \in Nat /\ d.nr \in Nat /\ c.nr <= d.nr
  /\ \A k \in 0 .. c.nr : /\ SubSeq(c.cells, 1, k) \in Seq(Entries)
                          /\ SubSeq(d.cells, 1, k) = SubSeq(c.cells, 1, k)
  /\ \/ SubSeq(d.cells, 1, d.nr) = SubSeq(c.cells, 1, c.nr) \o <<e>> /\ gl = fl
     \/ SubSeq(d.cells, 1, d.nr) = SubSeq(c.cells, 1, c.nr) /\ gl # 0

(* The first entry of a branch moves to the cursor or is lost.             *)
LEMMA DrainEntry ==
  ASSUME NEW fr, NEW N, NEW c, NEW fl, Draining(fr, N, c, fl),
         NEW n, n = Last(fr).node,
         NEW M, Shortened(N, M, n),
         NEW d, NEW gl, Takes(c, d, N[n].val[1], fl, gl)
  PROVE  Draining(fr, M, d, gl)
<1> DEFINE L == Len(fr)
           v == N[n].val
           K == SubSeq(c.cells, 1, c.nr)
<1> N[n].val # <<>> /\ M = [N EXCEPT ![n].val = Tail(@)]
    BY DEF Shortened
<1> /\ c.nr \in Nat /\ d.nr \in Nat /\ c.nr <= d.nr
    /\ \A k \in 0 .. c.nr : /\ SubSeq(c.cells, 1, k) \in Seq(Entries)
                            /\ SubSeq(d.cells, 1, k) = SubSeq(c.cells, 1, k)
    /\ \/ SubSeq(d.cells, 1, d.nr) = K \o <<v[1]>> /\ gl = fl
       \/ SubSeq(d.cells, 1, d.nr) = K /\ gl # 0
    BY DEF Takes
<1>1. FramesIn(fr, N, c) /\ HeldIn(fr, N, c, fl) /\ \E P : Drained(P, fr, N)
      BY DEF Draining
<1>2. /\ L \in Nat \ {0} /\ L \in 1 .. L /\ n = fr[L].node /\ n \in DOMAIN N
      /\ \A f \in 1 .. L : fr[f].old_pos \in Nat
      BY <1>1, FrameFacts DEF FramesIn
<1>3. v \in Seq(Entries) /\ K \in Seq(Entries)
  <2>1. n \in DOMAIN N
        BY <1>2
  <2>2. N[n].val \in Seq(Entries)
        BY <2>1, DrainedFields
  <2>3. c.nr \in 0 .. c.nr
        OBVIOUS
  <2> QED BY <2>2, <2>3
<1>0. \/ SubSeq(d.cells, 1, d.nr) = K \o <<v[1]>> /\ gl = fl
      \/ SubSeq(d.cells, 1, d.nr) = K /\ gl # 0
      OBVIOUS
<1>4. /\ v[1] \in Entries /\ Tail(v) \in Seq(Entries) /\ v = <<v[1]>> \o Tail(v)
      /\ <<v[1]>> \in Seq(Entries)
  <2> HIDE DEF v
  <2>1. Len(v) \in Nat \ {0} /\ v # <<>>
        BY <1>3, LenProperties, EmptySeq DEF v
  <2>2. Tail(v) \in Seq(Entries) /\ v[1] \in Entries
        BY <1>3, <2>1, HeadTailProperties, ElementOfSeq
  <2>3. Tail(v) = SubSeq(v, 2, Len(v))
        BY <1>3, <2>1, TailIsSubSeq
  <2>4. SubSeq(v, 1, Len(v)) = <<v[1]>> \o SubSeq(v, 1 + 1, Len(v))
    <3>1. 1 \in 1 .. Len(v) /\ Len(v) \in 1 .. Len(v)
          BY <2>1
    <3> QED BY <1>3, <3>1, SubSeqRecursiveFirst
  <2>5. SubSeq(v, 1, Len(v)) = v /\ 1 + 1 = 2
        BY <1>3, SubSeqFull
  <2>6. <<v[1]>> \in Seq(Entries)
        BY <2>2
  <2> QED BY <2>2, <2>3, <2>4, <2>5, <2>6
<1>5. /\ DOMAIN M = DOMAIN N /\ \A m \in DOMAIN N \ {n} : M[m] = N[m]
      /\ M[n] = [N[n] EXCEPT !.val = Tail(v)]
      BY <1>2
<1>6. \A m \in DOMAIN N : N[m] \in Fields(Nat)
      BY <1>1 DEF Drained
<1>7. /\ M[n].val = Tail(v) /\ M[n].parent = N[n].parent
      /\ M[n] \in Fields(Nat)
  <2>1. N[n] \in Fields(Nat)
        BY <1>2, <1>6
  <2>2. Tail(v) \in Seq(Entries)
        BY <1>4
  <2> DEFINE r == N[n]
             t == Tail(v)
  <2> HIDE DEF r, t, v
  <2>3. [r EXCEPT !.val = t].val = t /\ [r EXCEPT !.val = t].parent = r.parent
        /\ [r EXCEPT !.val = t] \in Fields(Nat)
        BY <2>1, <2>2 DEF Fields, r, t
  <2> QED BY <1>5, <2>3 DEF r, t
<1> HIDE DEF L, v, K
<1>8. /\ \A f \in 1 .. L : fr[f].node \in DOMAIN N /\ fr[f].old_pos <= c.nr
                           /\ fr[f].old_last = fr[f].old_pos + 1
      /\ \A f \in 1 .. L : f # L => fr[f].node # n
  <2>1. \A f \in 1 .. L : f < L => fr[f].node # fr[L].node
        BY <1>1, <1>2 DEF FramesIn, L
  <2>2. \A f \in 1 .. L : f # L => f < L
        BY <1>2
  <2>3. \A f \in 1 .. L : fr[f].node \in DOMAIN N /\ fr[f].old_pos <= c.nr
                          /\ fr[f].old_last = fr[f].old_pos + 1
        BY <1>1 DEF FramesIn, L
  <2> QED BY <1>2, <2>1, <2>2, <2>3
<1>9. FramesIn(fr, M, d)
  <2>1. /\ fr \in Seq(FrameType) /\ fr # <<>> /\ fr[1].node = Root
        /\ DOMAIN M \subseteq Nat
        /\ \A f, g \in 1 .. Len(fr) :
             f < g => fr[f].node # fr[g].node /\ fr[f].old_pos <= fr[g].old_pos
        BY <1>1, <1>5 DEF FramesIn
  <2>2. \A f \in 1 .. L : fr[f].node \in DOMAIN M /\ fr[f].old_pos <= d.nr
        BY <1>2, <1>5, <1>8
  <2>3. \A f \in 1 .. L - 1 :
          M[fr[f + 1].node].parent = fr[f].node /\ M[fr[f].node].val = <<>>
    <3> TAKE f \in 1 .. L - 1
    <3>1. f \in 1 .. L /\ f + 1 \in 1 .. L /\ f # L
          BY <1>2
    <3>2. N[fr[f + 1].node].parent = fr[f].node /\ N[fr[f].node].val = <<>>
          BY <1>1 DEF FramesIn, L
    <3>3. M[fr[f].node] = N[fr[f].node]
          BY <1>5, <1>8, <3>1
    <3>4. M[fr[f + 1].node].parent = N[fr[f + 1].node].parent
          BY <1>5, <1>7, <1>8, <3>1
    <3> QED BY <3>2, <3>3, <3>4
  <2> QED BY <1>8, <2>1, <2>2, <2>3 DEF FramesIn, L
<1>10. HeldIn(fr, M, d, gl)
  <2> SUFFICES ASSUME NEW f \in 1 .. L
               PROVE  /\ Covers(Held(fr, M, d, f), fr[f].path)
                      /\ gl = 0 => Held(fr, M, d, f) = fr[f].path
      BY DEF HeldIn, L
  <2>1. /\ Covers(Held(fr, N, c, f), fr[f].path)
        /\ fl = 0 => Held(fr, N, c, f) = fr[f].path
        BY <1>1 DEF HeldIn, L
  <2>2. CASE f # L
    <3>1. f + 1 \in 1 .. L
          BY <1>2, <2>2
    <3>2. fr[f + 1].old_pos \in 0 .. c.nr
          BY <1>2, <1>8, <3>1
    <3>3. Held(fr, M, d, f) = Held(fr, N, c, f)
          BY <2>2, <3>2 DEF Held, L
    <3> QED BY <2>1, <3>3
  <2>3. CASE f = L
    <3>1. /\ Held(fr, N, c, f) = K \o v
          /\ Held(fr, M, d, f) = SubSeq(d.cells, 1, d.nr) \o Tail(v)
      <4>1. f = Len(fr) /\ fr[f].node = n
            BY <1>2, <2>3 DEF L
      <4>2. /\ Held(fr, N, c, f) = SubSeq(c.cells, 1, c.nr) \o N[n].val
            /\ Held(fr, M, d, f) = SubSeq(d.cells, 1, d.nr) \o M[n].val
            BY <4>1, Zenon DEF Held
      <4>3. M[n].val = Tail(v)
            BY <1>7
      <4> QED BY <4>2, <4>3, Zenon DEF K, v
    <3>2. K \o v = (K \o <<v[1]>>) \o Tail(v)
      <4>1. (K \o <<v[1]>>) \o Tail(v) = K \o (<<v[1]>> \o Tail(v))
        <5>1. /\ K \in Seq(Entries) /\ <<v[1]>> \in Seq(Entries)
              /\ Tail(v) \in Seq(Entries)
              BY <1>3, <1>4
        <5> QED BY <5>1, Regroup, Zenon
      <4> QED BY <1>4, <4>1
    <3>3. CASE SubSeq(d.cells, 1, d.nr) = K \o <<v[1]>> /\ gl = fl
      <4>1. Held(fr, M, d, f) = Held(fr, N, c, f)
            BY <3>1, <3>2, <3>3
      <4> QED BY <2>1, <3>3, <4>1
    <3>4. CASE SubSeq(d.cells, 1, d.nr) = K /\ gl # 0
      <4>1. Covers((K \o <<v[1]>>) \o Tail(v), fr[f].path)
            BY <2>1, <3>1, <3>2
      <4>2. Covers(K \o Tail(v), fr[f].path)
            BY <1>3, <1>4, <4>1, CoversLess
      <4> QED BY <3>1, <3>4, <4>2
    <3> QED BY <1>0, <3>3, <3>4
  <2> QED BY <2>2, <2>3
<1>11. PICK P : Drained(P, fr, N)
      BY <1>1
<1>12. Drained(P, fr, M)
  <2>1. \A m \in DOMAIN M : P[m] \in Callchains /\ M[m] \in Fields(Nat)
        BY <1>5, <1>6, <1>7, <1>11 DEF Drained
  <2>2. \A f \in 1 .. Len(fr) : P[fr[f].node] = fr[f].path
        BY <1>11 DEF Drained
  <2>3. ASSUME NEW m \in DOMAIN M, \A f \in 1 .. Len(fr) : fr[f].node # m
        PROVE  P[m] = P[M[m].parent] \o M[m].val
    <3>1. m # n /\ m \in DOMAIN N
          BY <1>2, <1>5, <2>3 DEF L
    <3>2. M[m] = N[m]
          BY <1>5, <3>1
    <3>3. P[m] = P[N[m].parent] \o N[m].val
          BY <1>11, <2>3, <3>1 DEF Drained
    <3> QED BY <3>2, <3>3, Zenon
  <2>4. \A m \in DOMAIN M :
          (\A f \in 1 .. Len(fr) : fr[f].node # m) =>
            P[m] = P[M[m].parent] \o M[m].val
        BY <2>3, Zenon
  <2> HIDE DEF Callchains
  <2> QED BY <2>1, <2>2, <2>4, Zenon DEF Drained
<1> QED BY <1>9, <1>10, <1>12 DEF Draining

(* A merge begins at the root, with an empty cursor.                       *)
LEMMA DrainStart ==
  ASSUME NEW N, Forest(N), PathsIn(N), NEW d, d.nr = 0, d.last = 1,
         NEW fl
  PROVE  Draining(<<Frame(Root, d, <<>>)>>, N, d, fl)
<1> DEFINE r == Frame(Root, d, <<>>)
           fr == <<r>>
           P == PathIn(N)
<1>1. /\ Numbered(N) /\ Typed(N) /\ IsPath(P, N)
      BY PathInIsPath DEF Forest
<1>2. /\ Root \in DOMAIN N /\ N[Root].val = <<>>
      /\ \A n \in DOMAIN N : n \in Nat
      BY <1>1, NodeFields
<1>3. /\ r.node = Root /\ r.old_pos = 0 /\ r.old_last = 1 /\ r.path = <<>>
      /\ r \in FrameType
  <2>1. <<>> \in Seq(Entries) /\ Root \in Nat
        BY <1>2, EmptySeq
  <2>2. d.nr \in Nat /\ d.last \in Nat
        OBVIOUS
  <2>3. /\ r \in FrameType /\ r.node = Root /\ r.path = <<>>
        /\ r.old_pos = d.nr /\ r.old_last = d.last
    <3> DEFINE e == <<>>
    <3>1. e \in Seq(Entries) /\ Root \in Nat /\ d.nr \in Nat /\ d.last \in Nat
          BY <2>1, <2>2
    <3>2. r = Frame(Root, d, e)
          OBVIOUS
    <3> HIDE DEF e, r
    <3>3. /\ Frame(Root, d, e) \in FrameType
          /\ Frame(Root, d, e).node = Root /\ Frame(Root, d, e).path = e
          /\ Frame(Root, d, e).old_pos = d.nr /\ Frame(Root, d, e).old_last = d.last
          BY <3>1, FrameFields
    <3> QED BY <3>2, <3>3 DEF e
  <2> HIDE DEF r
  <2> QED BY <2>3
<1> HIDE DEF r
<1>4. /\ fr \in Seq(FrameType) /\ fr # <<>> /\ Len(fr) = 1 /\ fr[1] = r
      /\ \A f \in 1 .. Len(fr) : f = 1
      BY <1>3
<1> HIDE DEF fr
<1>5. FramesIn(fr, N, d)
  <2>1. 1 .. Len(fr) - 1 = {}
        BY <1>4
  <2>2. \A f, g \in 1 .. Len(fr) : ~ (f < g)
        BY <1>4
  <2>3. \A f \in 1 .. Len(fr) : fr[f] = r
        BY <1>4
  <2>4. r.old_last = r.old_pos + 1 /\ r.old_pos <= d.nr
        BY <1>3
  <2> QED BY <1>2, <1>3, <1>4, <2>1, <2>2, <2>3, <2>4 DEF FramesIn
<1>6. HeldIn(fr, N, d, fl)
  <2>1. SubSeq(d.cells, 1, 0) = <<>>
        BY SubSeqEmpty
  <2>2. <<>> \o <<>> = <<>>
        BY EmptySeq, ConcatEmptySeq
  <2>3. Held(fr, N, d, 1) = <<>>
    <3>1. Held(fr, N, d, 1) = SubSeq(d.cells, 1, d.nr) \o N[fr[1].node].val
          BY <1>4 DEF Held
    <3>2. N[fr[1].node].val = <<>>
          BY <1>2, <1>3, <1>4
    <3> QED BY <2>1, <2>2, <3>1, <3>2
  <2>4. Covers(<<>>, <<>>)
        BY DEF Covers
  <2>5. ASSUME NEW f \in 1 .. Len(fr)
        PROVE  Held(fr, N, d, f) = <<>> /\ fr[f].path = <<>>
        BY <1>3, <1>4, <2>3
  <2> QED BY <2>4, <2>5 DEF HeldIn
<1>7. Drained(P, fr, N)
  <2>1. \A n \in DOMAIN N : P[n] \in Callchains
        BY DEF PathsIn
  <2>2. \A n \in DOMAIN N : N[n] \in Fields(Nat)
    <3> TAKE n \in DOMAIN N
    <3>1. N[n] \in Fields(DOMAIN N) /\ DOMAIN N \subseteq Nat
          BY <1>1, <1>2 DEF Typed
    <3> QED BY <3>1 DEF Fields
  <2>3. \A f \in 1 .. Len(fr) : P[fr[f].node] = fr[f].path
        BY <1>1, <1>3, <1>4 DEF IsPath
  <2>4. ASSUME NEW n \in DOMAIN N, \A f \in 1 .. Len(fr) : fr[f].node # n
        PROVE  P[n] = P[N[n].parent] \o N[n].val
    <3>1. n # Root
          BY <1>3, <1>4, <2>4
    <3> QED BY <1>1, <3>1 DEF IsPath
  <2>5. \A n \in DOMAIN N :
          (\A f \in 1 .. Len(fr) : fr[f].node # n) =>
            P[n] = P[N[n].parent] \o N[n].val
        BY <2>4, Zenon
  <2> HIDE DEF P
  <2> QED BY <2>1, <2>2, <2>3, <2>5, Zenon DEF Drained
<1> HIDE DEF P
<1> QED BY <1>5, <1>6, <1>7 DEF Draining, fr, r

(* The call for a child of the branch on top.                              *)
LEMMA DrainChild ==
  ASSUME NEW fr, NEW N, NEW c, NEW fl, Draining(fr, N, c, fl),
         c.nr \in Nat, SubSeq(c.cells, 1, c.nr) \in Seq(Entries),
         c.last = c.nr + 1,
         N[Last(fr).node].val = <<>>,
         NEW k \in DOMAIN N \ {Root}, N[k].parent = Last(fr).node,
         NEW p, p = Last(fr).path \o N[k].val,
         NEW r \in FrameType, r.node = k, r.path = p,
         r.old_pos = c.nr, r.old_last = c.last
  PROVE  Draining(Append(fr, r), N, c, fl)
<1> DEFINE L == Len(fr)
           ap == Append(fr, r)
           v == N[k].val
           K == SubSeq(c.cells, 1, c.nr)
<1>1. FramesIn(fr, N, c) /\ HeldIn(fr, N, c, fl) /\ \E P : Drained(P, fr, N)
      BY DEF Draining
<1>2. /\ L \in Nat \ {0} /\ L \in 1 .. L /\ 1 \in 1 .. L /\ Last(fr) = fr[L]
      /\ \A f \in 1 .. L : fr[f].old_pos \in Nat /\ fr[f].path \in Seq(Entries)
      BY <1>1, FrameFacts
<1>3. v \in Seq(Entries) /\ K \in Seq(Entries) /\ fr[L].path \in Seq(Entries)
      BY <1>2, DrainedFields
<1>4. k \in Nat /\ p \in Seq(Entries) /\ p = fr[L].path \o v
  <2>1. p = fr[L].path \o v
        BY <1>2
  <2>2. p \in Seq(Entries)
        BY <1>3, <2>1, ConcatProperties
  <2>3. k \in Nat
        BY <1>1 DEF FramesIn
  <2> QED BY <2>1, <2>2, <2>3
<1>5. /\ r.node = k /\ r.old_pos = c.nr /\ r.old_last = c.nr + 1 /\ r.path = p
      /\ r \in FrameType
      OBVIOUS
<1>6. fr \in Seq(FrameType)
      BY <1>1 DEF FramesIn
<1> HIDE DEF L, v, K
<1>7. /\ ap \in Seq(FrameType) /\ ap # <<>> /\ Len(ap) = L + 1
      /\ \A f \in 1 .. L : ap[f] = fr[f]
      /\ ap[L + 1] = r
      BY <1>5, <1>6, AppendProperties DEF L
<1> HIDE DEF ap
<1>8. /\ fr[1].node = Root /\ DOMAIN N \subseteq Nat
      /\ \A f \in 1 .. L :
           /\ fr[f].node \in DOMAIN N
           /\ fr[f].old_last = fr[f].old_pos + 1
           /\ fr[f].old_pos <= c.nr
      /\ \A f, g \in 1 .. L :
           f < g => fr[f].node # fr[g].node /\ fr[f].old_pos <= fr[g].old_pos
      /\ \A f \in 1 .. L - 1 :
           N[fr[f + 1].node].parent = fr[f].node /\ N[fr[f].node].val = <<>>
      BY <1>1 DEF FramesIn, L
<1>9. \A f \in 1 .. L : fr[f].node # k
  <2> SUFFICES ASSUME NEW f \in 1 .. L, fr[f].node = k
               PROVE  FALSE
      OBVIOUS
  <2>1. f # 1
        BY <1>8
  <2>2. /\ f - 1 \in 1 .. L - 1 /\ f - 1 \in 1 .. L /\ (f - 1) + 1 = f
        /\ f - 1 < L
        BY <1>2, <2>1
  <2>3. N[fr[(f - 1) + 1].node].parent = fr[f - 1].node
        BY <1>8, <2>2
  <2>4. fr[f - 1].node = fr[L].node
        BY <1>2, <2>2, <2>3
  <2> QED BY <1>2, <1>8, <2>2, <2>4
<1>10. FramesIn(ap, N, c)
  <2>1. ap[1].node = Root
        BY <1>2, <1>7, <1>8
  <2>2. ASSUME NEW f \in 1 .. L + 1
        PROVE  /\ ap[f].node \in DOMAIN N
               /\ ap[f].old_last = ap[f].old_pos + 1
               /\ ap[f].old_pos <= c.nr
    <3>1. CASE f \in 1 .. L
          BY <1>7, <1>8, <3>1
    <3>2. CASE f \notin 1 .. L
      <4>1. f = L + 1
            BY <1>2, <3>2
      <4> QED BY <1>5, <1>7, <4>1
    <3> QED BY <3>1, <3>2
  <2>3. ASSUME NEW f \in 1 .. L + 1, NEW g \in 1 .. L + 1, f < g
        PROVE  ap[f].node # ap[g].node /\ ap[f].old_pos <= ap[g].old_pos
    <3>1. f \in 1 .. L
          BY <1>2, <2>3
    <3>2. CASE g \in 1 .. L
          BY <1>7, <1>8, <2>3, <3>1, <3>2
    <3>3. CASE g \notin 1 .. L
      <4>1. g = L + 1
            BY <1>2, <3>3
      <4> QED BY <1>5, <1>7, <1>8, <1>9, <3>1, <4>1
    <3> QED BY <3>2, <3>3
  <2>4. ASSUME NEW f \in 1 .. L
        PROVE  N[ap[f + 1].node].parent = ap[f].node /\ N[ap[f].node].val = <<>>
    <3>1. CASE f = L
          BY <1>2, <1>5, <1>7, <3>1
    <3>2. CASE f # L
      <4>1. f \in 1 .. L - 1 /\ f + 1 \in 1 .. L
            BY <1>2, <3>2
      <4> QED BY <1>7, <1>8, <4>1
    <3> QED BY <3>1, <3>2
  <2>5. (L + 1) - 1 = L
        BY <1>2
  <2> QED BY <1>7, <1>8, <2>1, <2>2, <2>3, <2>4, <2>5 DEF FramesIn
<1>11. \A f \in 1 .. L : /\ Covers(Held(fr, N, c, f), fr[f].path)
                         /\ fl = 0 => Held(fr, N, c, f) = fr[f].path
       BY <1>1 DEF HeldIn, L
<1>12. Held(fr, N, c, L) = K
  <2>1. Held(fr, N, c, L) = SubSeq(c.cells, 1, c.nr) \o N[fr[L].node].val
        BY DEF Held, L
  <2>2. N[fr[L].node].val = <<>>
        BY <1>2
  <2>3. K \o <<>> = K
        BY <1>3, ConcatEmptySeq
  <2> QED BY <2>1, <2>2, <2>3 DEF K
<1>13. HeldIn(ap, N, c, fl)
  <2> SUFFICES ASSUME NEW f \in 1 .. L + 1
               PROVE  /\ Covers(Held(ap, N, c, f), ap[f].path)
                      /\ fl = 0 => Held(ap, N, c, f) = ap[f].path
      BY <1>7 DEF HeldIn
  <2>1. CASE f \in 1 .. L /\ f # L
    <3>1. f + 1 \in 1 .. L /\ f # L + 1
          BY <1>2, <2>1
    <3>2. Held(ap, N, c, f) = SubSeq(c.cells, 1, ap[f + 1].old_pos)
          BY <1>7, <3>1 DEF Held
    <3>3. Held(fr, N, c, f) = SubSeq(c.cells, 1, fr[f + 1].old_pos)
          BY <2>1 DEF Held, L
    <3>4. Held(ap, N, c, f) = Held(fr, N, c, f)
          BY <1>7, <3>1, <3>2, <3>3
    <3> QED BY <1>7, <1>11, <2>1, <3>4
  <2>2. CASE f = L
    <3>1. f # L + 1
          BY <1>2, <2>2
    <3>2. Held(ap, N, c, f) = SubSeq(c.cells, 1, ap[f + 1].old_pos)
          BY <1>7, <3>1 DEF Held
    <3>3. ap[f + 1].old_pos = c.nr
          BY <1>5, <1>7, <2>2
    <3>4. Held(ap, N, c, f) = K
          BY <3>2, <3>3 DEF K
    <3> QED BY <1>2, <1>7, <1>11, <1>12, <2>2, <3>4
  <2>3. CASE f = L + 1
    <3>1. Held(ap, N, c, f) = SubSeq(c.cells, 1, c.nr) \o N[ap[f].node].val
          BY <1>7, <2>3 DEF Held
    <3>2. ap[f] = r
          BY <1>7, <2>3
    <3>3. Held(ap, N, c, f) = K \o v
          BY <1>5, <3>1, <3>2 DEF K, v
    <3>4. Covers(K, fr[L].path) /\ (fl = 0 => K = fr[L].path)
          BY <1>2, <1>11, <1>12
    <3>5. Covers(K \o v, fr[L].path \o v)
          BY <1>3, <3>4, CoversMore
    <3> QED BY <1>4, <1>5, <3>2, <3>3, <3>4, <3>5
  <2>4. f \in 1 .. L \/ f = L + 1
        BY <1>2
  <2> QED BY <2>1, <2>2, <2>3, <2>4
<1>14. PICK P : Drained(P, fr, N)
       BY <1>1
<1>15. /\ \A n \in DOMAIN N : P[n] \in Callchains /\ N[n] \in Fields(Nat)
       /\ \A f \in 1 .. L : P[fr[f].node] = fr[f].path
       /\ \A n \in DOMAIN N :
            (\A f \in 1 .. L : fr[f].node # n) => P[n] = P[N[n].parent] \o N[n].val
       BY <1>14 DEF Drained, L
<1>16. Drained(P, ap, N)
  <2>1. ASSUME NEW f \in 1 .. L + 1
        PROVE  P[ap[f].node] = ap[f].path
    <3>1. CASE f \in 1 .. L
          BY <1>7, <1>15, <3>1
    <3>2. CASE f \notin 1 .. L
      <4>1. f = L + 1
            BY <1>2, <3>2
      <4>2. P[k] = P[N[k].parent] \o v
            BY <1>9, <1>15 DEF v
      <4>3. P[N[k].parent] = fr[L].path
            BY <1>2, <1>15
      <4>4. P[k] = p
            BY <1>4, <4>2, <4>3
      <4>5. ap[f].node = k /\ ap[f].path = p
            BY <1>5, <1>7, <4>1
      <4> QED BY <4>4, <4>5
    <3> QED BY <3>1, <3>2
  <2>2. ASSUME NEW n \in DOMAIN N, \A f \in 1 .. L + 1 : ap[f].node # n
        PROVE  P[n] = P[N[n].parent] \o N[n].val
    <3>1. ASSUME NEW f \in 1 .. L
          PROVE  fr[f].node # n
      <4>1. f \in 1 .. L + 1 /\ ap[f] = fr[f]
            BY <1>2, <1>7
      <4> QED BY <2>2, <4>1
    <3> QED BY <1>15, <3>1
  <2> QED BY <1>7, <1>15, <2>1, <2>2 DEF Drained
<1> QED BY <1>10, <1>13, <1>16 DEF Draining, ap

(* The call on top returns, and the one above it frees its node.           *)
LEMMA DrainReturn ==
  ASSUME NEW fr, NEW N, NEW c, NEW fl, Draining(fr, N, c, fl),
         Len(fr) # 1,
         NEW n, n = Last(fr).node,
         NEW M, M = [m \in DOMAIN N \ ({n} \ {Root}) |-> N[m]],
         NEW d, d.cells = c.cells, d.nr = Last(fr).old_pos,
         \A k \in 0 .. c.nr : SubSeq(c.cells, 1, k) \in Seq(Entries)
  PROVE  Draining(Front(fr), M, d, fl) /\ Front(fr) # <<>>
<1> DEFINE L == Len(fr)
           gr == Front(fr)
<1>1. FramesIn(fr, N, c) /\ HeldIn(fr, N, c, fl) /\ \E P : Drained(P, fr, N)
      BY DEF Draining
<1>2. /\ L \in Nat \ {0} /\ L \in 1 .. L /\ 1 \in 1 .. L /\ Last(fr) = fr[L]
      /\ fr \in Seq(FrameType)
      /\ \A f \in 1 .. L : fr[f].old_pos \in Nat /\ fr[f].path \in Seq(Entries)
      BY <1>1, FrameFacts DEF FramesIn
<1>3. /\ gr \in Seq(FrameType) /\ Len(gr) = L - 1
      /\ \A f \in 1 .. L - 1 : gr[f] = fr[f]
  <2>1. L - 1 \in 0 .. L
        BY <1>2
  <2> QED BY <1>2, <2>1, PrefixOf DEF Front
<1> HIDE DEF gr
<1>4. /\ fr[1].node = Root /\ DOMAIN N \subseteq Nat
      /\ \A f \in 1 .. L :
           /\ fr[f].node \in DOMAIN N
           /\ fr[f].old_last = fr[f].old_pos + 1
           /\ fr[f].old_pos <= c.nr
      /\ \A f, g \in 1 .. L :
           f < g => fr[f].node # fr[g].node /\ fr[f].old_pos <= fr[g].old_pos
      /\ \A f \in 1 .. L - 1 :
           N[fr[f + 1].node].parent = fr[f].node /\ N[fr[f].node].val = <<>>
      BY <1>1 DEF FramesIn
<1>5. \A f \in 1 .. Len(fr) : /\ Covers(Held(fr, N, c, f), fr[f].path)
                              /\ fl = 0 => Held(fr, N, c, f) = fr[f].path
       BY <1>1 DEF HeldIn
<1> DEFINE K == L - 1
<1>6. /\ K \in Nat \ {0} /\ K \in 1 .. K /\ 1 \in 1 .. K /\ K < L /\ K + 1 = L
      /\ (\A f \in 1 .. K : f \in 1 .. L) /\ K \in 1 .. L
  <2>1. L # 1 /\ L \in Nat \ {0}
        BY <1>2
  <2> HIDE DEF L
  <2> QED BY <2>1
<1>7. gr # <<>> /\ Len(gr) = K /\ \A f \in 1 .. K : gr[f] = fr[f]
      BY <1>3, <1>6, EmptySeq
<1>8. \A f \in 1 .. K : fr[f].node # n /\ fr[f].old_pos <= d.nr
  <2> TAKE f \in 1 .. K
  <2>1. f \in 1 .. L /\ f < L
        BY <1>6
  <2> QED BY <1>2, <1>4, <2>1
<1>9. n # Root
      BY <1>4, <1>6, <1>8
<1>10. DOMAIN M = DOMAIN N \ {n} /\ \A m \in DOMAIN N \ {n} : M[m] = N[m]
  <2>1. {n} \ {Root} = {n}
        BY <1>9
  <2> QED BY <2>1
<1>11. \A k \in 0 .. c.nr : SubSeq(d.cells, 1, k) = SubSeq(c.cells, 1, k)
      OBVIOUS
<1>12. L = Len(fr)
       OBVIOUS
<1>13. d.nr = fr[L].old_pos
       BY <1>2
<1>20. K = L - 1
       OBVIOUS
<1> HIDE DEF L, K
<1>14. FramesIn(gr, M, d)
  <2>1. gr[1].node = Root
        BY <1>4, <1>6, <1>7
  <2>2. ASSUME NEW f \in 1 .. K
        PROVE  /\ gr[f].node \in DOMAIN M
               /\ gr[f].old_last = gr[f].old_pos + 1
               /\ gr[f].old_pos <= d.nr
    <3>1. f \in 1 .. L /\ gr[f] = fr[f]
          BY <1>6, <1>7
    <3>2. fr[f].node \in DOMAIN N \ {n} /\ fr[f].old_pos <= d.nr
          BY <1>4, <1>8, <3>1
    <3> QED BY <1>4, <1>10, <3>1, <3>2
  <2>3. ASSUME NEW f \in 1 .. K, NEW g \in 1 .. K, f < g
        PROVE  gr[f].node # gr[g].node /\ gr[f].old_pos <= gr[g].old_pos
    <3>1. f \in 1 .. L /\ g \in 1 .. L /\ gr[f] = fr[f] /\ gr[g] = fr[g]
          BY <1>6, <1>7
    <3>2. fr[f].node # fr[g].node /\ fr[f].old_pos <= fr[g].old_pos
          BY <1>4, <2>3, <3>1
    <3> QED BY <3>1, <3>2
  <2>4. ASSUME NEW f \in 1 .. K - 1
        PROVE  M[gr[f + 1].node].parent = gr[f].node /\ M[gr[f].node].val = <<>>
    <3>1. f \in 1 .. K /\ f + 1 \in 1 .. K /\ f \in 1 .. L - 1 /\ f + 1 \in 1 .. L
          /\ f \in 1 .. L
          BY <1>6
    <3>2. N[fr[f + 1].node].parent = fr[f].node /\ N[fr[f].node].val = <<>>
          BY <1>4, <3>1
    <3>3. gr[f] = fr[f] /\ gr[f + 1] = fr[f + 1]
          BY <1>7, <3>1
    <3>4. M[fr[f].node] = N[fr[f].node] /\ M[fr[f + 1].node] = N[fr[f + 1].node]
          BY <1>4, <1>8, <1>10, <3>1
    <3> QED BY <3>2, <3>3, <3>4
  <2>5. DOMAIN M \subseteq Nat
        BY <1>4, <1>10
  <2> QED BY <1>3, <1>7, <2>1, <2>2, <2>3, <2>4, <2>5 DEF FramesIn
<1>15. HeldIn(gr, M, d, fl)
  <2> SUFFICES ASSUME NEW f \in 1 .. K
               PROVE  /\ Covers(Held(gr, M, d, f), gr[f].path)
                      /\ fl = 0 => Held(gr, M, d, f) = gr[f].path
      BY <1>7 DEF HeldIn
  <2>1. f \in 1 .. L /\ f # Len(fr)
        BY <1>6, <1>12
  <2>2. Held(fr, N, c, f) = SubSeq(c.cells, 1, fr[f + 1].old_pos)
        BY <2>1 DEF Held
  <2>3. Held(gr, M, d, f) = Held(fr, N, c, f)
    <3>1. CASE f = K
      <4>1. Held(gr, M, d, f) = SubSeq(d.cells, 1, d.nr) \o M[gr[f].node].val
            BY <1>7, <3>1 DEF Held
      <4>2. M[gr[f].node].val = <<>>
        <5>1. K \in 1 .. L - 1
              BY <1>6, <1>20
        <5>2. N[fr[K].node].val = <<>>
              BY <1>4, <5>1
        <5>3. M[fr[K].node] = N[fr[K].node]
              BY <1>4, <1>6, <1>8, <1>10
        <5> QED BY <1>6, <1>7, <3>1, <5>2, <5>3
      <4>3. fr[f + 1].old_pos = d.nr
            BY <1>6, <1>13, <3>1
      <4>4. d.nr \in 0 .. c.nr
        <5>1. fr[L].old_pos \in Nat /\ fr[L].old_pos <= c.nr
              BY <1>2, <1>4
        <5> QED BY <1>13, <5>1
      <4>5. SubSeq(c.cells, 1, d.nr) \in Seq(Entries)
            BY <4>4
      <4>6. SubSeq(c.cells, 1, d.nr) \o <<>> = SubSeq(c.cells, 1, d.nr)
            BY <4>5, ConcatEmptySeq
      <4>7. SubSeq(d.cells, 1, d.nr) = SubSeq(c.cells, 1, d.nr)
            BY <1>11, <4>4
      <4> QED BY <2>2, <4>1, <4>2, <4>3, <4>6, <4>7
    <3>2. CASE f # K
      <4>1. f + 1 \in 1 .. K /\ f + 1 \in 1 .. L
            BY <1>6, <3>2
      <4>2. Held(gr, M, d, f) = SubSeq(d.cells, 1, gr[f + 1].old_pos)
            BY <1>7, <3>2 DEF Held
      <4>3. gr[f + 1] = fr[f + 1]
            BY <1>7, <4>1
      <4>4. fr[f + 1].old_pos \in 0 .. c.nr
        <5>1. fr[f + 1].old_pos \in Nat /\ fr[f + 1].old_pos <= c.nr
              BY <1>2, <1>4, <4>1
        <5> QED BY <5>1
      <4>5. SubSeq(d.cells, 1, fr[f + 1].old_pos) = SubSeq(c.cells, 1, fr[f + 1].old_pos)
            BY <1>11, <4>4
      <4> QED BY <2>2, <4>2, <4>3, <4>5
    <3> QED BY <3>1, <3>2
  <2>4. /\ Covers(Held(fr, N, c, f), fr[f].path)
        /\ fl = 0 => Held(fr, N, c, f) = fr[f].path
        BY <1>5, <1>12, <2>1
  <2> QED BY <1>7, <2>3, <2>4
<1>16. PICK P : Drained(P, fr, N)
       BY <1>1
<1>17. /\ \A m \in DOMAIN N : P[m] \in Callchains /\ N[m] \in Fields(Nat)
       /\ \A f \in 1 .. L : P[fr[f].node] = fr[f].path
       /\ \A m \in DOMAIN N :
            (\A f \in 1 .. L : fr[f].node # m) => P[m] = P[N[m].parent] \o N[m].val
       BY <1>16 DEF Drained, L
<1>18. Drained(P, gr, M)
  <2>1. \A m \in DOMAIN M : P[m] \in Callchains /\ M[m] \in Fields(Nat)
        BY <1>10, <1>17
  <2>2. \A f \in 1 .. Len(gr) : P[gr[f].node] = gr[f].path
        BY <1>6, <1>7, <1>17
  <2>3. ASSUME NEW m \in DOMAIN M, \A f \in 1 .. Len(gr) : gr[f].node # m
        PROVE  P[m] = P[M[m].parent] \o M[m].val
    <3>1. m \in DOMAIN N /\ m # n /\ M[m] = N[m]
          BY <1>10
    <3>2. ASSUME NEW f \in 1 .. L
          PROVE  fr[f].node # m
      <4>1. CASE f = L
            BY <1>2, <3>1, <4>1
      <4>2. CASE f # L
        <5>1. f \in 1 .. K
              BY <1>6, <4>2
        <5> QED BY <1>7, <2>3, <5>1
      <4> QED BY <4>1, <4>2
    <3>3. P[m] = P[N[m].parent] \o N[m].val
          BY <1>17, <3>1, <3>2
    <3> QED BY <3>1, <3>3, Zenon
  <2>4. \A m \in DOMAIN M :
          (\A f \in 1 .. Len(gr) : gr[f].node # m) =>
            P[m] = P[M[m].parent] \o M[m].val
        BY <2>3, Zenon
  <2> HIDE DEF Callchains
  <2> QED BY <2>1, <2>2, <2>4, Zenon DEF Drained
<1> QED BY <1>7, <1>14, <1>15, <1>18 DEF Draining, gr

-----------------------------------------------------------------------------
(* callchain_merge() keeps the invariant.                                  *)

(* The state of a merge.                                                   *)
LEMMA MergeFacts ==
  ASSUME BInv, phase = "merge"
  PROVE  /\ IInv /\ PathsIn(nodes) /\ OtherInv /\ CellsInv /\ PhaseInv
         /\ Draining(frames, other.nodes, cursor, failures)
         /\ FramesIn(frames, other.nodes, cursor)
         /\ frames \in Seq(FrameType) /\ Len(frames) \in Nat \ {0}
         /\ Len(frames) \in 1 .. Len(frames) /\ 1 \in 1 .. Len(frames)
         /\ Top = Last(frames) /\ Top = frames[Len(frames)]
         /\ Top \in FrameType /\ Top.old_pos \in Nat /\ Top.old_pos <= cursor.nr
         /\ Top.old_last = Top.old_pos + 1 /\ Top.path \in Seq(Entries)
         /\ Top.node \in DOMAIN other.nodes
         /\ Src.val \in Seq(Entries) /\ Src.hit \in Nat
         /\ failures \in Nat
<1>1. IInv /\ PathsIn(nodes) /\ OtherInv /\ CellsInv /\ PhaseInv /\ MergeInv
      BY DEF BInv
<1>2. Draining(frames, other.nodes, cursor, failures)
      BY <1>1 DEF MergeInv
<1>3. FramesIn(frames, other.nodes, cursor)
      BY <1>2 DEF Draining
<1>4. /\ Len(frames) \in Nat \ {0} /\ Len(frames) \in 1 .. Len(frames)
      /\ 1 \in 1 .. Len(frames) /\ Last(frames) = frames[Len(frames)]
      /\ \A f \in 1 .. Len(frames) :
           /\ frames[f] \in FrameType /\ frames[f].old_pos \in Nat
           /\ frames[f].path \in Seq(Entries)
      BY <1>3, FrameFacts
<1>5. /\ frames \in Seq(FrameType)
      /\ \A f \in 1 .. Len(frames) :
           /\ frames[f].node \in DOMAIN other.nodes
           /\ frames[f].old_last = frames[f].old_pos + 1
           /\ frames[f].old_pos <= cursor.nr
      BY <1>3 DEF FramesIn
<1>6. Top = Last(frames)
      BY DEF Top
<1>7. Top.node \in DOMAIN other.nodes
      BY <1>4, <1>5, <1>6
<1>8. Src.val \in Seq(Entries) /\ Src.hit \in Nat
      BY <1>2, <1>7, DrainedFields DEF Src
<1>9. failures \in Nat
      BY <1>1 DEF IInv, RestInv
<1> QED BY <1>1, <1>2, <1>3, <1>4, <1>5, <1>6, <1>7, <1>8, <1>9

(* A branch whose entries have moved stands for what the cursor holds.     *)
LEMMA TopHeld ==
  ASSUME BInv, phase = "merge"
  PROVE  /\ Covers(Read \o Src.val, Top.path)
         /\ failures = 0 => Read \o Src.val = Top.path
         /\ Top.path \in Callchains
         /\ Src.val = <<>> => Read \in Callchains
<1> DEFINE L == Len(frames)
<1>1. /\ Draining(frames, other.nodes, cursor, failures) /\ CellsInv
      /\ L \in 1 .. L /\ Top = frames[L]
      BY MergeFacts
<1>2. /\ Covers(Held(frames, other.nodes, cursor, L), frames[L].path)
      /\ failures = 0 => Held(frames, other.nodes, cursor, L) = frames[L].path
      BY <1>1 DEF Draining, HeldIn
<1>3. Held(frames, other.nodes, cursor, L) = Read \o Src.val
      BY <1>1 DEF Held, Read, Src
<1>4. Top.path \in Callchains
  <2>1. PICK P : Drained(P, frames, other.nodes)
        BY <1>1 DEF Draining
  <2>2. frames[L].node \in DOMAIN other.nodes
        BY <1>1 DEF Draining, FramesIn
  <2> QED BY <1>1, <2>1, <2>2 DEF Drained
<1>5. Covers(Read \o Src.val, Top.path)
      BY <1>1, <1>2, <1>3
<1>6. ASSUME Src.val = <<>>
      PROVE  Read \in Callchains
  <2>1. Read \in Seq(Entries)
        BY <1>1, ReadSeq
  <2>2. Read \o <<>> = Read
        BY <2>1, ConcatEmptySeq
  <2>3. Covers(Read, Top.path)
        BY <1>5, <1>6, <2>2
  <2> QED BY <1>4, <2>1, <2>3, CoversItself
<1> QED BY <1>1, <1>2, <1>3, <1>4, <1>5, <1>6

(* A merge begins: both trees are whole.                                   *)
LEMMA MergeBegins ==
  ASSUME BInv, Merge
  PROVE  BInv'
<1>1. IInv /\ PathsIn(nodes) /\ OtherInv /\ CellsInv /\ PhaseInv
      BY DEF BInv
<1>2. /\ phase = "idle" /\ phase' = "merge"
      /\ cursor' = CursorReset \/ cursor' = NoCursor
      /\ frames' = <<Frame(Root, cursor', <<>>)>>
      /\ UNCHANGED vars /\ other' = other /\ i' = i /\ missed' = missed
      BY DEF Merge
<1>3. IInv' /\ PathsIn(nodes)' /\ failures' = failures /\ pc' = pc
      BY <1>1, <1>2, TreeStays
<1>4. CellsInv' /\ cursor'.nr = 0
      BY <1>1, <1>2, ResetRead
<1>5. OtherInv'
      BY <1>1, <1>2, <1>3, OtherStays
<1>6. PhaseInv'
  <2>1. frames' # <<>> /\ pc = "idle"
        BY <1>1, <1>2 DEF PhaseInv
  <2> QED BY <1>1, <1>2, <1>3, <2>1 DEF PhaseInv
<1>7. FillInv'
      BY <1>2 DEF FillInv
<1>8. MergeInv'
  <2>1. Forest(other.nodes) /\ PathsIn(other.nodes)
        BY <1>1, <1>2 DEF OtherInv, WholeTree
  <2>2. cursor'.last = 1
        BY <1>4 DEF CellsInv
  <2>3. Draining(<<Frame(Root, cursor', <<>>)>>, other.nodes, cursor', failures)
        BY <1>4, <2>1, <2>2, DrainStart
  <2> QED BY <1>2, <1>3, <2>3 DEF MergeInv
<1> QED BY <1>3, <1>4, <1>5, <1>6, <1>7, <1>8 DEF BInv

(* An entry moves to the cursor.                                           *)
LEMMA MergeEntryStep ==
  ASSUME BInv, MergeEntry
  PROVE  BInv'
<1>1. /\ phase = "merge" /\ pc = "idle" /\ Src.val # <<>>
      /\ CursorAppend(Src.val[1]) \/ CursorAppendFails
      /\ other' = [other EXCEPT !.nodes[Top.node].val = Tail(@)]
      /\ phase' = phase /\ frames' = frames /\ i' = i /\ missed' = missed
      /\ UNCHANGED <<nodes, max_depth, pc, chain, pos, period, stack, appends>>
      BY DEF MergeEntry, Merging
<1>2. /\ IInv /\ PathsIn(nodes) /\ OtherInv /\ CellsInv /\ PhaseInv
      /\ Draining(frames, other.nodes, cursor, failures)
      /\ Top = Last(frames) /\ Top.node \in DOMAIN other.nodes
      /\ Src.val \in Seq(Entries) /\ failures \in Nat
      BY <1>1, MergeFacts
<1>3. Src.val[1] \in Entries
  <2>1. 1 \in 1 .. Len(Src.val)
        BY <1>1, <1>2, LenProperties, EmptySeq
  <2> QED BY <1>2, <2>1, ElementOfSeq
<1>4. /\ Read = SubSeq(cursor.cells, 1, cursor.nr)
      /\ Read' = SubSeq(cursor'.cells, 1, cursor'.nr)
      BY DEF Read
<1>5. /\ CellsInv' /\ failures' \in Nat /\ (failures' = failures \/ failures' # 0)
      /\ cursor.nr <= cursor'.nr
      /\ \A k \in 0 .. cursor.nr :
           SubSeq(cursor'.cells, 1, k) = SubSeq(cursor.cells, 1, k)
      /\ \/ Read' = Read \o <<Src.val[1]>> /\ failures' = failures
         \/ Read' = Read /\ failures' # 0
  <2>1. cursor.nr \in Nat
        BY <1>2, ReadSeq
  <2>2. CASE CursorAppend(Src.val[1])
    <3>1. /\ CellsInv' /\ failures' = failures
          /\ Read' = Read \o <<Src.val[1]>> /\ cursor'.nr = cursor.nr + 1
          /\ \A k \in 0 .. cursor.nr :
               SubSeq(cursor'.cells, 1, k) = SubSeq(cursor.cells, 1, k)
          BY <1>2, <1>3, <2>2, AppendRead
    <3> QED BY <1>2, <2>1, <3>1
  <2>3. CASE CursorAppendFails
    <3>1. CellsInv' /\ Read' = Read /\ failures' \in Nat /\ failures' # 0
          /\ cursor' = cursor
          BY <1>2, <2>3, AppendReadFails
    <3> QED BY <2>1, <3>1
  <2> QED BY <1>1, <2>2, <2>3
<1>6. /\ cursor.nr \in Nat /\ cursor'.nr \in Nat
      /\ \A k \in 0 .. cursor.nr : SubSeq(cursor.cells, 1, k) \in Seq(Entries)
  <2>1. cursor'.nr \in Nat
        BY <1>5, LenProperties DEF CellsInv
  <2> QED BY <1>2, <2>1, ReadSeq
<1>7. /\ other'.nodes = [other.nodes EXCEPT ![Top.node].val = Tail(@)]
      /\ other' = [nodes |-> other'.nodes, max_depth |-> other'.max_depth,
                   appends |-> other'.appends, weights |-> other'.weights]
  <2>1. other = [nodes |-> other.nodes, max_depth |-> other.max_depth,
                 appends |-> other.appends, weights |-> other.weights]
        BY <1>2 DEF OtherInv
  <2> DEFINE N == other.nodes
             x == other.max_depth
             y == other.appends
             z == other.weights
             M == [other.nodes EXCEPT ![Top.node].val = Tail(@)]
  <2>2. other' = [other EXCEPT !.nodes = M]
        BY <1>1
  <2>3. other = [nodes |-> N, max_depth |-> x, appends |-> y, weights |-> z]
        BY <2>1
  <2> HIDE DEF N, x, y, z, M
  <2>4. other' = [nodes |-> M, max_depth |-> x, appends |-> y, weights |-> z]
        BY <2>2, <2>3
  <2>5. other'.nodes = M
        BY <2>4
  <2> QED BY <2>4, <2>5 DEF M
<1>8. Draining(frames, other'.nodes, cursor', failures')
  <2> DEFINE n == Top.node
             N == other.nodes
             M == other'.nodes
             d == cursor'
             gl == failures'
  <2>1. /\ n = Last(frames).node /\ N[n].val # <<>>
        /\ M = [N EXCEPT ![n].val = Tail(@)]
        /\ N[n].val = Src.val
        BY <1>1, <1>2, <1>7 DEF Src
  <2>2. /\ cursor.nr \in Nat /\ d.nr \in Nat /\ cursor.nr <= d.nr
        /\ \A k \in 0 .. cursor.nr :
             /\ SubSeq(cursor.cells, 1, k) \in Seq(Entries)
             /\ SubSeq(d.cells, 1, k) = SubSeq(cursor.cells, 1, k)
        BY <1>5, <1>6
  <2>3. \/ /\ SubSeq(d.cells, 1, d.nr) =
                SubSeq(cursor.cells, 1, cursor.nr) \o <<N[n].val[1]>>
           /\ gl = failures
        \/ /\ SubSeq(d.cells, 1, d.nr) = SubSeq(cursor.cells, 1, cursor.nr)
           /\ gl # 0
        BY <1>4, <1>5, <2>1
  <2>4. Draining(frames, N, cursor, failures)
        BY <1>2
  <2> HIDE DEF n, N, M, d, gl
  <2>5. Shortened(N, M, n)
        BY <2>1 DEF Shortened
  <2>6. Takes(cursor, d, N[n].val[1], failures, gl)
        BY <2>2, <2>3 DEF Takes
  <2>7. n = Last(frames).node
        BY <2>1
  <2>8. Draining(frames, M, d, gl)
        BY <2>4, <2>5, <2>6, <2>7, DrainEntry, Zenon
  <2> QED BY <2>8 DEF M, d, gl
<1>9. IInv' /\ PathsIn(nodes)'
      BY <1>1, <1>2, <1>5, TreeStaysFailing
<1>10. OtherInv'
      BY <1>1, <1>7 DEF OtherInv
<1>11. PhaseInv'
      BY <1>1, <1>2 DEF PhaseInv
<1>12. FillInv'
      BY <1>1 DEF FillInv
<1>13. MergeInv'
      BY <1>1, <1>8 DEF MergeInv
<1> QED BY <1>5, <1>9, <1>10, <1>11, <1>12, <1>13 DEF BInv

(* A branch that has a weight is appended, as a callchain.                 *)
LEMMA MergeAppendStep ==
  ASSUME BInv, MergeAppend
  PROVE  BInv'
<1> DEFINE L == Len(frames)
<1>1. /\ phase = "merge" /\ pc = "idle" /\ Src.val = <<>> /\ Read # <<>>
      /\ pc' = "down" /\ chain' = Read /\ pos' = 0 /\ period' = Src.hit
      /\ stack' = <<Root>>
      /\ UNCHANGED <<nodes, max_depth, appends, failures>>
      /\ frames' = [frames EXCEPT ![L].tried = TRUE]
      /\ phase' = phase /\ other' = other /\ cursor' = cursor
      /\ i' = i /\ missed' = missed
      BY DEF MergeAppend, Merging
<1>2. /\ IInv /\ PathsIn(nodes) /\ OtherInv /\ CellsInv /\ PhaseInv
      /\ Draining(frames, other.nodes, cursor, failures)
      /\ frames \in Seq(FrameType) /\ L \in Nat \ {0} /\ L \in 1 .. L
      /\ Src.hit \in Nat
      BY <1>1, MergeFacts
<1>3. Read \in Chains
      BY <1>1, TopHeld DEF Callchains
<1>4. IInv' /\ PathsIn(nodes)'
      BY <1>1, <1>2, <1>3, CommitStep
<1>5. OtherInv'
      BY <1>1, <1>2, OtherStays
<1>6. CellsInv' /\ Read' = Read
      BY <1>1, <1>2 DEF CellsInv, Read
<1>7. /\ frames' \in Seq(FrameType) /\ Len(frames') = L /\ frames' # <<>>
      /\ \A f \in 1 .. L :
           /\ frames'[f].node = frames[f].node /\ frames'[f].path = frames[f].path
           /\ frames'[f].old_pos = frames[f].old_pos
           /\ frames'[f].old_last = frames[f].old_last
  <2> DEFINE r == [frames[L] EXCEPT !.tried = TRUE]
  <2>1. frames[L] \in FrameType
        BY <1>2, ElementOfSeq
  <2>2. /\ r \in FrameType
        /\ r.node = frames[L].node /\ r.path = frames[L].path
        /\ r.old_pos = frames[L].old_pos /\ r.old_last = frames[L].old_last
    <3> DEFINE S == Seq(Entries)
               t == frames[L]
    <3>1. t \in [node : Nat, old_pos : Nat, old_last : Nat, tried : BOOLEAN,
                 path : S]
          BY <2>1 DEF FrameType
    <3> HIDE DEF S, t
    <3>2. /\ [t EXCEPT !.tried = TRUE] \in
               [node : Nat, old_pos : Nat, old_last : Nat, tried : BOOLEAN, path : S]
          /\ [t EXCEPT !.tried = TRUE].node = t.node
          /\ [t EXCEPT !.tried = TRUE].path = t.path
          /\ [t EXCEPT !.tried = TRUE].old_pos = t.old_pos
          /\ [t EXCEPT !.tried = TRUE].old_last = t.old_last
          BY <3>1
    <3> QED BY <3>2 DEF FrameType, S, t
  <2>3. frames' = [frames EXCEPT ![L] = r]
        BY <1>1
  <2> HIDE DEF r
  <2>4. /\ frames' \in Seq(FrameType) /\ Len(frames') = L
        /\ \A f \in 1 .. L : frames'[f] = IF f = L THEN r ELSE frames[f]
        BY <1>2, <2>2, <2>3, ExceptSeq
  <2>5. frames' # <<>>
        BY <1>2, <2>4, EmptySeq
  <2> QED BY <2>2, <2>4, <2>5
<1>8. PhaseInv'
  <2>1. frames # <<>>
        BY <1>1, <1>2 DEF PhaseInv
  <2> QED BY <1>1, <1>2, <1>6, <1>7, <2>1 DEF PhaseInv
<1>9. FillInv'
      BY <1>1 DEF FillInv
<1>10. MergeInv'
  <2> DEFINE gr == frames'
             N == other.nodes
  <2>1. /\ gr \in Seq(FrameType) /\ Len(gr) = Len(frames)
        /\ \A f \in 1 .. Len(frames) :
             /\ gr[f].node = frames[f].node /\ gr[f].path = frames[f].path
             /\ gr[f].old_pos = frames[f].old_pos
             /\ gr[f].old_last = frames[f].old_last
        BY <1>7
  <2>2. Draining(frames, N, cursor, failures)
        BY <1>2
  <2> HIDE DEF gr, N
  <2>3. Draining(gr, N, cursor, failures)
        BY <2>1, <2>2, DrainTried
  <2>4. other'.nodes = N /\ cursor' = cursor /\ failures' = failures
        BY <1>1 DEF N
  <2>5. Draining(gr, other'.nodes, cursor', failures')
        BY <2>3, <2>4
  <2> QED BY <2>5 DEF gr, MergeInv
<1> QED BY <1>4, <1>5, <1>6, <1>8, <1>9, <1>10 DEF BInv

(* A merge that fails puts the cursor back to where it began.              *)
LEMMA AbandonStep ==
  ASSUME BInv, phase = "merge", Abandon, IInv', PathsIn(nodes'), pc' = "idle"
  PROVE  BInv'
<1>1. /\ IInv /\ PathsIn(nodes) /\ OtherInv /\ CellsInv /\ PhaseInv
      /\ FramesIn(frames, other.nodes, cursor)
      /\ 1 \in 1 .. Len(frames)
      BY MergeFacts
<1>2. /\ phase' = "merged" /\ frames' = <<>>
      /\ cursor' = [cursor EXCEPT !.nr = frames[1].old_pos,
                                  !.last = frames[1].old_last]
      /\ i' = i /\ missed' = missed
      BY DEF Abandon
<1>3. /\ frames[1].old_pos \in Nat /\ frames[1].old_pos <= cursor.nr
      /\ frames[1].old_last = frames[1].old_pos + 1
      BY <1>1, FrameFacts DEF FramesIn
<1>4. CellsInv'
  <2>1. cursor' = [cells |-> cursor.cells, nr |-> frames[1].old_pos,
                   last |-> frames[1].old_last]
        BY <1>1, <1>2 DEF CellsInv
  <2>2. /\ cursor.cells \in Seq(Entries) /\ Len(cursor.cells) \in Nat
        /\ cursor.nr \in 0 .. Len(cursor.cells)
        BY <1>1, LenProperties DEF CellsInv
  <2>3. frames[1].old_pos \in 0 .. Len(cursor.cells)
        BY <1>3, <2>2
  <2> QED BY <1>3, <2>1, <2>2, <2>3 DEF CellsInv
<1>5. OtherInv'
  <2>1. other' = [other EXCEPT !.nodes = other'.nodes]
    <3>1. other = [nodes |-> other.nodes, max_depth |-> other.max_depth,
                   appends |-> other.appends, weights |-> other.weights]
          BY <1>1 DEF OtherInv
    <3>2. PICK M : other' = [other EXCEPT !.nodes = M]
          BY DEF Abandon
    <3>3. other'.nodes = M
          BY <3>1, <3>2
    <3> QED BY <3>2, <3>3
  <2>2. other = [nodes |-> other.nodes, max_depth |-> other.max_depth,
                 appends |-> other.appends, weights |-> other.weights]
        BY <1>1 DEF OtherInv
  <2>3. other' = [nodes |-> other'.nodes, max_depth |-> other'.max_depth,
                  appends |-> other'.appends, weights |-> other'.weights]
        BY <2>1, <2>2
  <2> QED BY <1>2, <2>3 DEF OtherInv
<1>6. PhaseInv'
      BY <1>1, <1>2 DEF PhaseInv
<1>7. FillInv' /\ MergeInv'
      BY <1>2 DEF FillInv, MergeInv
<1> QED BY <1>4, <1>5, <1>6, <1>7 DEF BInv

(* An empty cursor cannot be appended.                                     *)
LEMMA MergeAppendNothingStep ==
  ASSUME BInv, MergeAppendNothing
  PROVE  BInv'
<1>1. phase = "merge" /\ pc = "idle" /\ Abandon /\ UNCHANGED vars
      BY DEF MergeAppendNothing, Merging
<1>2. IInv' /\ PathsIn(nodes)' /\ pc' = "idle"
      BY <1>1, TreeStays DEF BInv
<1> QED BY <1>1, <1>2, AbandonStep

(* append_chain_children() is at work for a merge.                         *)
LEMMA MergeStepKeeps ==
  ASSUME BInv, MergeStep
  PROVE  BInv'
<1>1. /\ phase = "merge" /\ (AddChild \/ AppendChain \/ Unwind)
      BY DEF MergeStep
<1>2. /\ IInv /\ PathsIn(nodes) /\ OtherInv /\ CellsInv /\ PhaseInv
      /\ Draining(frames, other.nodes, cursor, failures)
      BY <1>1, MergeFacts
<1>3. /\ pc # "idle" /\ (pc' # "idle" => chain' = chain)
      /\ failures' = failures \/ failures' # 0
      BY <1>1, <1>2, CallFrame DEF Step
<1>4. IInv' /\ PathsIn(nodes')
  <2>1. IInv' /\ Spelled(PathIn(nodes'), nodes')
        BY <1>1, <1>2, RunStep
  <2>2. chain \in Callchains
        BY <1>2, <1>3 DEF IInv, CursorInv, Callchains
  <2> QED BY <1>2, <2>1, <2>2, SpelledPaths
<1>5. CASE pc' = "idle"
  <2>1. Abandon
        BY <1>5 DEF MergeStep
  <2> QED BY <1>1, <1>4, <1>5, <2>1, AbandonStep
<1>6. CASE pc' # "idle"
  <2>1. /\ phase' = phase /\ frames' = frames /\ other' = other
        /\ cursor' = cursor /\ i' = i /\ missed' = missed
        BY <1>6 DEF MergeStep, backend
  <2>2. OtherInv'
        BY <1>1, <1>2, <1>3, <2>1, OtherStays
  <2>3. CellsInv' /\ Read' = Read
        BY <1>2, <2>1 DEF CellsInv, Read
  <2>4. PhaseInv'
        BY <1>1, <1>2, <1>3, <1>6, <2>1, <2>3 DEF PhaseInv
  <2>5. FillInv'
        BY <1>1, <2>1 DEF FillInv
  <2>6. MergeInv'
    <3>1. Draining(frames, other.nodes, cursor, failures')
          BY <1>2, <1>3, DrainFails
    <3> QED BY <2>1, <3>1 DEF MergeInv
  <2> QED BY <1>4, <2>2, <2>3, <2>4, <2>5, <2>6 DEF BInv
<1> QED BY <1>5, <1>6

(* append_chain_children() has returned to a merge.                        *)
LEMMA MergeAppendedStep ==
  ASSUME BInv, MergeAppended
  PROVE  BInv'
<1>1. /\ phase = "merge" /\ pc = "up" /\ stack = <<>>
      /\ pc' = "idle" /\ chain' = <<>> /\ pos' = 0 /\ period' = 0
      /\ max_depth' = max_depth
      /\ UNCHANGED <<nodes, stack, appends, failures>>
      /\ phase' = phase /\ frames' = frames /\ other' = other
      /\ cursor' = cursor /\ i' = i /\ missed' = missed
      BY DEF MergeAppended, backend
<1>2. /\ IInv /\ PathsIn(nodes) /\ OtherInv /\ CellsInv /\ PhaseInv
      /\ Draining(frames, other.nodes, cursor, failures)
      BY <1>1, MergeFacts
<1>3. max_depth' \in Nat
      BY <1>1, <1>2 DEF IInv, RestInv
<1>4. IInv'
      BY <1>1, <1>2, <1>3, EndStep
<1>5. OtherInv'
      BY <1>1, <1>2, OtherStays
<1>6. CellsInv' /\ PathsIn(nodes)'
      BY <1>1, <1>2 DEF CellsInv
<1>7. PhaseInv'
      BY <1>1, <1>2 DEF PhaseInv
<1>8. FillInv'
      BY <1>1 DEF FillInv
<1>9. MergeInv'
      BY <1>1, <1>2 DEF MergeInv
<1> QED BY <1>4, <1>5, <1>6, <1>7, <1>8, <1>9 DEF BInv

(* The next child of the branch is merged.                                 *)
LEMMA MergeChildStep ==
  ASSUME BInv, MergeChild
  PROVE  BInv'
<1>1. /\ phase = "merge" /\ pc = "idle" /\ Src.val = <<>>
      /\ UNCHANGED vars
      /\ phase' = phase /\ other' = other /\ cursor' = cursor
      /\ i' = i /\ missed' = missed
      BY DEF MergeChild, Appended, Merging
<1>2. /\ IInv /\ PathsIn(nodes) /\ OtherInv /\ CellsInv /\ PhaseInv
      /\ Draining(frames, other.nodes, cursor, failures)
      /\ FramesIn(frames, other.nodes, cursor)
      /\ frames \in Seq(FrameType)
      /\ Top = Last(frames) /\ Top.path \in Seq(Entries)
      BY <1>1, MergeFacts
<1>3. PICK k \in SrcChildren :
        frames' = Append(frames, Frame(k, cursor, Top.path \o other.nodes[k].val))
      BY DEF MergeChild
<1>4. k \in DOMAIN other.nodes \ {Root} /\ other.nodes[k].parent = Top.node
      BY <1>3 DEF SrcChildren
<1>5. other.nodes[k].val \in Seq(Entries) /\ k \in Nat
      BY <1>2, <1>4, DrainedFields DEF FramesIn
<1> DEFINE p == Top.path \o other.nodes[k].val
           r == Frame(k, cursor, p)
           N == other.nodes
<1>6. p \in Seq(Entries) /\ cursor.nr \in Nat /\ cursor.last = cursor.nr + 1
      /\ SubSeq(cursor.cells, 1, cursor.nr) \in Seq(Entries)
      BY <1>2, <1>5, ConcatProperties, ReadSeq DEF CellsInv, Read
<1>7. cursor.last \in Nat
      BY <1>6
<1>8. frames' = Append(frames, r)
      BY <1>3
<1>9. /\ N[Last(frames).node].val = <<>> /\ N[k].parent = Last(frames).node
      /\ k \in DOMAIN N \ {Root} /\ p = Last(frames).path \o N[k].val
      /\ Draining(frames, N, cursor, failures)
      BY <1>1, <1>2, <1>4 DEF Src
<1> HIDE DEF p
<1>10. /\ r \in FrameType /\ r.node = k /\ r.path = p
       /\ r.old_pos = cursor.nr /\ r.old_last = cursor.last
       BY <1>5, <1>6, <1>7, FrameFields
<1> HIDE DEF r, N
<1>11. Draining(Append(frames, r), N, cursor, failures)
       BY <1>6, <1>9, <1>10, DrainChild
<1>12. IInv' /\ PathsIn(nodes)' /\ failures' = failures /\ pc' = pc
       BY <1>1, <1>2, TreeStays
<1>13. OtherInv'
       BY <1>1, <1>2, <1>12, OtherStays
<1>14. CellsInv'
       BY <1>1, <1>2 DEF CellsInv
<1>15. PhaseInv'
  <2>1. frames' # <<>>
        BY <1>2, <1>8, <1>10, AppendProperties
  <2> QED BY <1>1, <1>2, <1>12, <2>1 DEF PhaseInv
<1>16. FillInv'
       BY <1>1 DEF FillInv
<1>17. MergeInv'
       BY <1>1, <1>8, <1>11, <1>12 DEF MergeInv, N
<1> QED BY <1>12, <1>13, <1>14, <1>15, <1>16, <1>17 DEF BInv

(* A branch is done.                                                       *)
LEMMA MergeReturnStep ==
  ASSUME BInv, MergeReturn
  PROVE  BInv'
<1> DEFINE n == Top.node
           N == other.nodes
           M == [m \in DOMAIN other.nodes \ ({Top.node} \ {Root}) |-> other.nodes[m]]
<1>1. /\ phase = "merge" /\ pc = "idle" /\ UNCHANGED vars
      /\ cursor' = [cursor EXCEPT !.nr = Top.old_pos, !.last = Top.old_last]
      /\ frames' = Front(frames)
      /\ other' = [other EXCEPT !.nodes = M]
      /\ phase' = IF Len(frames) = 1 THEN "merged" ELSE "merge"
      /\ i' = i /\ missed' = missed
      BY DEF MergeReturn, Appended, Merging
<1>2. /\ IInv /\ PathsIn(nodes) /\ OtherInv /\ CellsInv /\ PhaseInv
      /\ Draining(frames, other.nodes, cursor, failures)
      /\ frames \in Seq(FrameType) /\ Len(frames) \in Nat \ {0}
      /\ Top = Last(frames) /\ Top.old_pos \in Nat /\ Top.old_pos <= cursor.nr
      /\ Top.old_last = Top.old_pos + 1
      BY <1>1, MergeFacts
<1>3. /\ other'.nodes = M
      /\ other' = [nodes |-> other'.nodes, max_depth |-> other'.max_depth,
                   appends |-> other'.appends, weights |-> other'.weights]
  <2>1. other = [nodes |-> other.nodes, max_depth |-> other.max_depth,
                 appends |-> other.appends, weights |-> other.weights]
        BY <1>2 DEF OtherInv
  <2> HIDE DEF M
  <2> QED BY <1>1, <2>1
<1>4. /\ cursor' = [cells |-> cursor.cells, nr |-> Top.old_pos, last |-> Top.old_last]
      /\ cursor.cells \in Seq(Entries) /\ Len(cursor.cells) \in Nat
      /\ cursor.nr \in 0 .. Len(cursor.cells)
      BY <1>1, <1>2, LenProperties DEF CellsInv
<1>5. CellsInv'
  <2>1. Top.old_pos \in 0 .. Len(cursor.cells)
        BY <1>2, <1>4
  <2> QED BY <1>2, <1>4, <2>1 DEF CellsInv
<1>6. IInv' /\ PathsIn(nodes)' /\ failures' = failures /\ pc' = pc
      BY <1>1, <1>2, TreeStays
<1>7. OtherInv'
      BY <1>1, <1>3 DEF OtherInv
<1>8. FillInv'
      BY <1>1 DEF FillInv
<1>9. /\ Len(frames) = 1 => frames' = <<>>
      /\ Len(frames) # 1 => /\ Draining(frames', other'.nodes, cursor', failures')
                            /\ frames' # <<>>
  <2>1. ASSUME Len(frames) = 1
        PROVE  frames' = <<>>
    <3>1. SubSeq(frames, 1, 0) = <<>>
          BY SubSeqEmpty
    <3>2. Len(frames) - 1 = 0
          BY <2>1
    <3> QED BY <1>1, <3>1, <3>2 DEF Front
  <2>2. ASSUME Len(frames) # 1
        PROVE  /\ Draining(frames', other'.nodes, cursor', failures')
               /\ frames' # <<>>
    <3> DEFINE d == cursor'
    <3>1. /\ n = Last(frames).node
          /\ M = [m \in DOMAIN N \ ({n} \ {Root}) |-> N[m]]
          /\ d.cells = cursor.cells /\ d.nr = Last(frames).old_pos
          /\ Draining(frames, N, cursor, failures)
          BY <1>2, <1>4
    <3>2. \A k \in 0 .. cursor.nr : SubSeq(cursor.cells, 1, k) \in Seq(Entries)
          BY <1>2, ReadSeq
    <3>3. other'.nodes = M /\ frames' = Front(frames) /\ failures' = failures
          BY <1>1, <1>3, <1>6
    <3> HIDE DEF n, N, M, d
    <3>4. Draining(Front(frames), M, d, failures) /\ Front(frames) # <<>>
          BY <2>2, <3>1, <3>2, DrainReturn
    <3> QED BY <3>3, <3>4 DEF d
  <2> QED BY <2>1, <2>2
<1>10. PhaseInv'
       BY <1>1, <1>2, <1>6, <1>9 DEF PhaseInv
<1>11. MergeInv'
       BY <1>1, <1>9 DEF MergeInv
<1> QED BY <1>5, <1>6, <1>7, <1>8, <1>10, <1>11 DEF BInv

-----------------------------------------------------------------------------
(* The theorems.                                                           *)

(* Both trees begin empty, and so does the cursor.                         *)
LEMMA BackendInitStep ==
  ASSUME BackendInit
  PROVE  BInv
<1>1. /\ Init /\ cursor = NoCursor /\ phase = "idle" /\ i = 0 /\ missed = {}
      /\ frames = <<>>
      /\ other = [nodes |-> nodes, max_depth |-> 0, appends |-> appends,
                  weights |-> appends]
      BY DEF BackendInit
<1>2. IInv
      BY <1>1, InitStep
<1>3. PathsIn(nodes)
  <2>1. Forest(nodes) /\ DOMAIN nodes = {Root}
        BY <1>1, <1>2 DEF IInv, TreeInv, Init
  <2>2. PathIn(nodes)[Root] = <<>>
        BY <2>1, PathInIsPath DEF IsPath
  <2> QED BY <2>1, <2>2 DEF PathsIn, Callchains
<1>4. OtherInv
  <2>1. pc = "idle" /\ failures = 0 /\ Pending = 0 /\ PendingHits = 0
        BY <1>1 DEF Init, Pending, PendingHits
  <2>2. /\ Forest(nodes) /\ SumFunction(appends) = nodes[Root].children_count + 0
        /\ appends \in [Chains -> Nat]
        /\ SumsOK(nodes, Here, 0, 0) /\ Branching(nodes, Root)
        BY <1>2, <2>1 DEF IInv, TreeInv, RootInv, RestInv, SumsInv
  <2>3. SumsOK(nodes, Root, 0, 0)
        BY <2>2, NobodyWaits
  <2>4. nodes[Root].children_count \in Nat
        BY <2>2, NodeFields DEF Forest
  <2>5. /\ other.nodes = nodes /\ other.appends = appends /\ other.max_depth = 0
        /\ other.weights = appends
        BY <1>1
  <2>6. WholeTree(other)
        BY <1>3, <2>2, <2>3, <2>4, <2>5 DEF WholeTree
  <2> QED BY <1>1, <2>5, <2>6 DEF OtherInv
<1>5. CellsInv
  <2>1. <<>> \in Seq(Entries) /\ Len(<<>>) = 0
        BY EmptySeq
  <2> QED BY <1>1, <2>1 DEF CellsInv, NoCursor
<1>6. PhaseInv
  <2>1. 0 \in 0 .. MaxStackEntries + 1
        BY InputsAssumption
  <2> QED BY <1>1, <2>1 DEF PhaseInv, Init
<1>7. FillInv /\ MergeInv
      BY <1>1 DEF FillInv, MergeInv
<1> QED BY <1>2, <1>3, <1>4, <1>5, <1>6, <1>7 DEF BInv

(* Nothing changes.                                                        *)
LEMMA BackendStutter ==
  ASSUME BInv, UNCHANGED allvars
  PROVE  BInv'
<1>1. IInv /\ PathsIn(nodes) /\ OtherInv /\ CellsInv /\ PhaseInv /\ FillInv /\ MergeInv
      BY DEF BInv
<1>2. /\ UNCHANGED vars
      /\ cursor' = cursor /\ other' = other /\ phase' = phase /\ input' = input
      /\ i' = i /\ frames' = frames /\ missed' = missed
      BY DEF allvars, backend
<1>3. IInv' /\ PathsIn(nodes)' /\ failures' = failures /\ pc' = pc /\ chain' = chain
      BY <1>1, <1>2, TreeStays
<1>4. OtherInv'
      BY <1>1, <1>2, <1>3 DEF OtherInv, WholeTree
<1>5. CellsInv' /\ Read' = Read
      BY <1>1, <1>2 DEF CellsInv, Read
<1>6. PhaseInv'
      BY <1>1, <1>2, <1>3, <1>5 DEF PhaseInv
<1>7. FillInv'
      BY <1>1, <1>2, <1>5 DEF FillInv
<1>8. MergeInv'
      BY <1>1, <1>2, <1>3 DEF MergeInv
<1> QED BY <1>3, <1>4, <1>5, <1>6, <1>7, <1>8 DEF BInv

(* The inductive invariant holds whatever insert() and callchain_merge()   *)
(* do with the two trees and the cursor they share.                        *)
THEOREM BInvAlways == BackendSpec => []BInv
<1>1. BackendInit => BInv
      BY BackendInitStep
<1>2. BInv /\ [BackendNext]_allvars => BInv'
  <2> SUFFICES ASSUME BInv, [BackendNext]_allvars
               PROVE  BInv'
      OBVIOUS
  <2>1. CASE \E s \in Inputs : Insert(s)
        BY <2>1, InsertStep
  <2>2. CASE Switch
        BY <2>2, SwitchStep
  <2>3. CASE Merge
        BY <2>3, MergeBegins
  <2>4. CASE FillEntry
        BY <2>4, FillEntryStep
  <2>5. CASE FillNothing
        BY <2>5, FillNothingStep
  <2>6. CASE \E p \in Periods : FillEnd(p)
        BY <2>6, FillEndStep
  <2>7. CASE AppendStep
        BY <2>7, AppendStepKeeps
  <2>8. CASE MergeEntry
        BY <2>8, MergeEntryStep
  <2>9. CASE MergeAppend
        BY <2>9, MergeAppendStep
  <2>10. CASE MergeAppendNothing
        BY <2>10, MergeAppendNothingStep
  <2>11. CASE MergeStep
        BY <2>11, MergeStepKeeps
  <2>12. CASE MergeAppended
        BY <2>12, MergeAppendedStep
  <2>13. CASE MergeChild
        BY <2>13, MergeChildStep
  <2>14. CASE MergeReturn
        BY <2>14, MergeReturnStep
  <2>15. CASE UNCHANGED allvars
        BY <2>15, BackendStutter
  <2> QED BY <2>1, <2>2, <2>3, <2>4, <2>5, <2>6, <2>7, <2>8, <2>9, <2>10, <2>11,
             <2>12, <2>13, <2>14, <2>15
          DEF BackendNext, Running
<1> QED BY <1>1, <1>2, PTL DEF BackendSpec

(* The cursor is consistent, also after a merge that failed, and holds the *)
(* callchain that callchain_append() or callchain_merge() is appending.    *)
THEOREM BackendTypeCorrect == BackendSpec => []BackendTypeOK
<1>1. BInv => BackendTypeOK
      BY DEF BInv, CellsInv, PhaseInv, BackendTypeOK
<1> QED BY <1>1, BInvAlways, PTL

(* insert() reads nothing of an earlier callstack, however long that was   *)
(* and whichever entries of this one could not be allocated.               *)
THEOREM InsertReadsItsInput == BackendSpec => []FillReadsInput
<1>1. BInv => FillReadsInput
      BY DEF BInv, FillInv, FillReadsInput
<1> QED BY <1>1, BInvAlways, PTL

(* While a branch is merged the cursor holds the path to it, however many  *)
(* branches merge_chain_branch() went through and back before.             *)
THEOREM MergeReadsItsPath == BackendSpec => []MergeReadsPath
<1>1. BInv => MergeReadsPath
      BY TopHeld DEF MergeReadsPath
<1> QED BY <1>1, BInvAlways, PTL

(* All that insert() and callchain_merge() do to a callchain tree, with    *)
(* and without failed allocations, leaves it one: what callchain_append()  *)
(* alone keeps also holds when trees are merged.                           *)
THEOREM TreesStayTrees ==
  BackendSpec => [](/\ TypeOK /\ DistinctSiblings /\ StackIsPath
                    /\ Compressed /\ CountersAddUp /\ AllSamplesCounted)
<1>1. BInv => /\ TypeOK /\ DistinctSiblings /\ StackIsPath
              /\ Compressed /\ CountersAddUp /\ AllSamplesCounted
  <2> SUFFICES ASSUME BInv
               PROVE  /\ TypeOK /\ DistinctSiblings /\ StackIsPath
                      /\ Compressed /\ CountersAddUp /\ AllSamplesCounted
      OBVIOUS
  <2>1. IInv
        BY DEF BInv
  <2> QED BY <2>1, TypeFollows, SiblingsFollow, StackFollows, CompressedFollows,
             CountersFollow, SamplesFollow
<1> QED BY <1>1, BInvAlways, PTL

-----------------------------------------------------------------------------
(* The weights.                                                            *)

(* The tree of the nodes N counts every callchain as often as A says, with *)
(* the weight that W says.                                                 *)
Tells(N, A, W) ==
  /\ HitIn(N, <<>>) = 0
  /\ \A s \in Chains : CountIn(N, s) = A[s] /\ HitIn(N, s) = W[s]

TellsInv ==
  /\ weights \in [Chains -> Nat] /\ other.weights \in [Chains -> Nat]
  /\ phase \notin {"merge", "merged"} =>
       /\ Tells(nodes, appends, weights)
       /\ Tells(other.nodes, other.appends, other.weights)

(* A call for the node n is running, and has appended its weight.          *)
Framed(fr, n) == \E f \in 1 .. Len(fr) : fr[f].node = n
Tried(fr, n) == \E f \in 1 .. Len(fr) : fr[f].node = n /\ fr[f].tried

(* The branches that are left hold the weights V of the tree they are of;  *)
(* P gives the paths that they had.  A call goes down from a branch when   *)
(* the weight of the branch was appended, or is none.                      *)
Branches(P, fr, N, V) ==
  /\ Root \in DOMAIN N /\ P[Root] = <<>> /\ N[Root].hit = 0
  /\ \A n \in DOMAIN N : P[n] \in Callchains /\ N[n].hit \in Nat
  /\ \A m, n \in DOMAIN N : P[m] = P[n] => m = n
  /\ \A n \in DOMAIN N \ {Root} : N[n].hit = V[P[n]]
  /\ \A f \in 1 .. Len(fr) : P[fr[f].node] = fr[f].path
  /\ \A n \in DOMAIN N : ~ Framed(fr, n) =>
       /\ N[n].parent \in DOMAIN N
       /\ N[n].val \in Seq(Entries) /\ N[n].val # <<>>
       /\ P[n] = P[N[n].parent] \o N[n].val
  /\ \A f \in 1 .. Len(fr) - 1 : fr[f].tried \/ N[fr[f].node].hit = 0

(* The callchains whose weights are still in the branches.                 *)
Waiting(P, fr, N) ==
  {P[n] : n \in {m \in DOMAIN N : N[m].hit # 0 /\ ~ Tried(fr, m)}}

(* The callchain that is being appended and not yet counted.               *)
Passing == IF pc = "down" THEN {chain} ELSE {}

(* A callchain has its weights W of this tree while it is in O, and those  *)
(* of both trees afterwards, with one sighting if V gives it a weight.     *)
Added(O, N, A, W, V, B) ==
  \A s \in Chains :
    /\ CountIn(N, s) = A[s]
    /\ s \in O => HitIn(N, s) = W[s] /\ A[s] = B[s]
    /\ s \notin O => /\ HitIn(N, s) = W[s] + V[s]
                     /\ A[s] = B[s] + (IF V[s] = 0 THEN 0 ELSE 1)

(* What is appended is the branch of the innermost call.                   *)
Moving(P) ==
  pc # "idle" => /\ Top.tried /\ chain = P[Top.node]
                 /\ period = other.weights[chain] /\ period # 0

MovedInv ==
  phase = "merge" /\ failures = 0 =>
    \E P : /\ Branches(P, frames, other.nodes, other.weights)
           /\ Moving(P)
           /\ Added(Waiting(P, frames, other.nodes) \cup Passing,
                    nodes, appends, weights, other.weights, base)

MergedInv ==
  phase = "merged" /\ failures = 0 =>
    /\ DOMAIN other.nodes = {Root}
    /\ Added({}, nodes, appends, weights, other.weights, base)

WInv == TellsInv /\ MovedInv /\ MergedInv

(* A merge finds every weight of the other tree in the branch of its       *)
(* callchain.                                                              *)
LEMMA BranchesBegin ==
  ASSUME NEW N, Forest(N), PathsIn(N), NEW A, NEW V, Tells(N, A, V),
         NEW fr, Len(fr) = 1, fr[1].node = Root, fr[1].path = <<>>,
         ~ fr[1].tried
  PROVE  /\ Branches(PathIn(N), fr, N, V)
         /\ \A s \in Chains : s \notin Waiting(PathIn(N), fr, N) => V[s] = 0
<1> DEFINE P == PathIn(N)
<1>1. IsPath(P, N) /\ Numbered(N) /\ Typed(N)
      BY PathInIsPath DEF Forest
<1>2. \A s : Counted(P, N, s, CountIn(N, s), HitIn(N, s))
      BY CountInCounted
<1>3. \A n \in DOMAIN N : P[n] \in Callchains
      BY DEF PathsIn
<1>4. \A m, n \in DOMAIN N : P[m] = P[n] => m = n
      BY <1>1, PathInjective
<1> HIDE DEF P
<1>5. Root \in DOMAIN N /\ P[Root] = <<>>
      BY <1>1, NodeFields DEF IsPath
<1>6. \A n \in DOMAIN N : N[n].hit = HitIn(N, P[n])
      BY <1>2 DEF Counted
<1>7. N[Root].hit = 0
      BY <1>5, <1>6 DEF Tells
<1>8. \A n \in DOMAIN N \ {Root} : P[n] \in Chains
      BY <1>3, <1>4, <1>5 DEF Callchains
<1>9. \A n \in DOMAIN N \ {Root} : N[n].hit = V[P[n]]
      BY <1>6, <1>8 DEF Tells
<1>10. \A n \in DOMAIN N :
         /\ N[n].hit \in Nat
         /\ n # Root => /\ N[n].parent \in DOMAIN N
                        /\ N[n].val \in Seq(Entries) /\ N[n].val # <<>>
                        /\ P[n] = P[N[n].parent] \o N[n].val
       BY <1>1, NodeFields DEF IsPath
<1>11. /\ \A f \in 1 .. Len(fr) : f = 1
       /\ 1 \in 1 .. Len(fr)
       /\ 1 .. Len(fr) - 1 = {}
       OBVIOUS
<1>12. \A n : (Framed(fr, n) <=> n = Root) /\ ~ Tried(fr, n)
       BY <1>11 DEF Framed, Tried
<1>13. Branches(P, fr, N, V)
       BY <1>3, <1>4, <1>5, <1>7, <1>9, <1>10, <1>11, <1>12 DEF Branches
<1>14. ASSUME NEW s \in Chains, s \notin Waiting(P, fr, N)
       PROVE  V[s] = 0
  <2>1. \A n \in DOMAIN N : P[n] = s => N[n].hit = 0
        BY <1>12, <1>14 DEF Waiting
  <2>2. V[s] = HitIn(N, s)
        BY DEF Tells
  <2> QED BY <1>2, <2>1, <2>2 DEF Counted
<1> QED BY <1>13, <1>14 DEF P

(* An entry of the branch on top has moved.                                *)
LEMMA BranchesEntry ==
  ASSUME NEW P, NEW fr, NEW N, NEW V, Branches(P, fr, N, V),
         NEW n \in DOMAIN N, Framed(fr, n),
         NEW M, DOMAIN M = DOMAIN N, M[n].hit = N[n].hit,
         \A m \in DOMAIN N \ {n} : M[m] = N[m],
         \A f \in 1 .. Len(fr) : fr[f].node \in DOMAIN N, Len(fr) \in Nat
  PROVE  Branches(P, fr, M, V) /\ Waiting(P, fr, M) = Waiting(P, fr, N)
<1>1. \A m \in DOMAIN N : M[m].hit = N[m].hit
      OBVIOUS
<1>2. Waiting(P, fr, M) = Waiting(P, fr, N)
      BY <1>1 DEF Waiting
<1>3. \A m \in DOMAIN M : ~ Framed(fr, m) => m \in DOMAIN N \ {n}
      OBVIOUS
<1>4. \A f \in 1 .. Len(fr) - 1 : fr[f].tried \/ M[fr[f].node].hit = 0
  <2> TAKE f \in 1 .. Len(fr) - 1
  <2>1. fr[f].tried \/ N[fr[f].node].hit = 0
        BY DEF Branches
  <2>2. fr[f].node \in DOMAIN N
        OBVIOUS
  <2> QED BY <1>1, <2>1, <2>2
<1>5. \A m \in DOMAIN M : ~ Framed(fr, m) =>
        /\ M[m].parent \in DOMAIN M
        /\ M[m].val \in Seq(Entries) /\ M[m].val # <<>>
        /\ P[m] = P[M[m].parent] \o M[m].val
  <2> SUFFICES ASSUME NEW m \in DOMAIN M, ~ Framed(fr, m)
               PROVE  /\ M[m].parent \in DOMAIN M
                      /\ M[m].val \in Seq(Entries) /\ M[m].val # <<>>
                      /\ P[m] = P[M[m].parent] \o M[m].val
      OBVIOUS
  <2>1. M[m] = N[m] /\ m \in DOMAIN N
        BY <1>3
  <2>2. /\ N[m].parent \in DOMAIN N
        /\ N[m].val \in Seq(Entries) /\ N[m].val # <<>>
        /\ P[m] = P[N[m].parent] \o N[m].val
        BY <2>1 DEF Branches
  <2> QED BY <2>1, <2>2
<1>6. /\ Root \in DOMAIN M /\ P[Root] = <<>> /\ M[Root].hit = 0
      /\ \A m \in DOMAIN M : P[m] \in Callchains /\ M[m].hit \in Nat
      /\ \A l, m \in DOMAIN M : P[l] = P[m] => l = m
      /\ \A m \in DOMAIN M \ {Root} : M[m].hit = V[P[m]]
      /\ \A f \in 1 .. Len(fr) : P[fr[f].node] = fr[f].path
      BY <1>1 DEF Branches
<1> QED BY <1>2, <1>4, <1>5, <1>6 DEF Branches
(* The weight of the branch on top is appended.                            *)
LEMMA BranchesTried ==
  ASSUME NEW P, NEW fr, NEW N, NEW V, Branches(P, fr, N, V),
         NEW L \in Nat \ {0}, Len(fr) = L,
         \A f, g \in 1 .. L : fr[f].node = fr[g].node => f = g,
         fr[L].node \in DOMAIN N, N[fr[L].node].hit # 0, ~ fr[L].tried,
         NEW gr, Len(gr) = L,
         \A f \in 1 .. L :
           /\ gr[f].node = fr[f].node /\ gr[f].path = fr[f].path
           /\ gr[f].tried <=> fr[f].tried \/ f = L
  PROVE  /\ Branches(P, gr, N, V)
         /\ P[fr[L].node] \in Waiting(P, fr, N)
         /\ Waiting(P, gr, N) = Waiting(P, fr, N) \ {P[fr[L].node]}
<1> DEFINE n == fr[L].node
<1>1. L \in 1 .. L /\ n \in DOMAIN N
      OBVIOUS
<1>2. \A m : Framed(gr, m) <=> Framed(fr, m)
      BY DEF Framed
<1>3. \A m : Tried(gr, m) <=> Tried(fr, m) \/ m = n
      BY <1>1 DEF Tried
<1>4. ~ Tried(fr, n)
      BY <1>1 DEF Tried
<1>5. \A m \in DOMAIN N : P[m] = P[n] => m = n
      BY <1>1 DEF Branches
<1> HIDE DEF n
<1>6. N[n].hit # 0
      BY DEF n
<1>7. P[n] \in Waiting(P, fr, N)
      BY <1>1, <1>4, <1>6 DEF Waiting
<1>8. Waiting(P, gr, N) = Waiting(P, fr, N) \ {P[n]}
      BY <1>1, <1>3, <1>5 DEF Waiting
<1>9. Branches(P, gr, N, V)
  <2>1. \A f \in 1 .. Len(gr) : P[gr[f].node] = gr[f].path
        BY DEF Branches
  <2>2. \A f \in 1 .. Len(gr) - 1 : gr[f].tried \/ N[gr[f].node].hit = 0
    <3> TAKE f \in 1 .. Len(gr) - 1
    <3>1. f \in 1 .. L /\ f \in 1 .. Len(fr) - 1
          OBVIOUS
    <3>2. fr[f].tried \/ N[fr[f].node].hit = 0
          BY <3>1 DEF Branches
    <3> QED BY <3>1, <3>2
  <2> QED BY <1>2, <2>1, <2>2 DEF Branches
<1> QED BY <1>7, <1>8, <1>9 DEF n

(* What was appended does not wait any more.                               *)
LEMMA TriedIsGone ==
  ASSUME NEW P, NEW fr, NEW N, NEW V, Branches(P, fr, N, V),
         NEW n \in DOMAIN N, Tried(fr, n)
  PROVE  P[n] \notin Waiting(P, fr, N)
BY DEF Branches, Waiting

(* The L calls fr call one more, for the node k with the entries v.        *)
Called(fr, gr, L, k, v) ==
  /\ Len(gr) = L + 1 /\ \A f \in 1 .. L : gr[f] = fr[f]
  /\ gr[L + 1].node = k /\ gr[L + 1].path = fr[L].path \o v
  /\ ~ gr[L + 1].tried

(* The call for a child of the branch on top.                              *)
LEMMA BranchesChild ==
  ASSUME NEW P, NEW fr, NEW N, NEW V, Branches(P, fr, N, V),
         NEW L \in Nat \ {0}, Len(fr) = L,
         fr[L].tried \/ N[fr[L].node].hit = 0,
         P[fr[L].node] = fr[L].path,
         NEW k \in DOMAIN N, ~ Framed(fr, k), N[k].parent = fr[L].node,
         NEW gr, Called(fr, gr, L, k, N[k].val)
  PROVE  Branches(P, gr, N, V) /\ Waiting(P, gr, N) = Waiting(P, fr, N)
<1> /\ Len(gr) = L + 1 /\ \A f \in 1 .. L : gr[f] = fr[f]
    /\ gr[L + 1].node = k /\ gr[L + 1].path = fr[L].path \o N[k].val
    /\ ~ gr[L + 1].tried
    BY DEF Called
<1>0. /\ L \in 1 .. L /\ L + 1 \in 1 .. L + 1
      /\ \A f \in 1 .. L + 1 : f \in 1 .. L \/ f = L + 1
      /\ \A f \in 1 .. L : f \in 1 .. L + 1
      OBVIOUS
<1>1. \A m : Framed(fr, m) => Framed(gr, m)
      BY <1>0 DEF Framed
<1>2. \A m : Tried(gr, m) <=> Tried(fr, m)
      BY <1>0 DEF Tried
<1>3. Waiting(P, gr, N) = Waiting(P, fr, N)
      BY <1>2 DEF Waiting
<1>4. P[k] = fr[L].path \o N[k].val
  <2>1. P[k] = P[N[k].parent] \o N[k].val
        BY DEF Branches
  <2> QED BY <2>1, Zenon
<1>5. \A f \in 1 .. Len(gr) : P[gr[f].node] = gr[f].path
  <2>1. \A f \in 1 .. L : P[fr[f].node] = fr[f].path
        BY DEF Branches
  <2> QED BY <1>0, <1>4, <2>1
<1>6. \A f \in 1 .. Len(gr) - 1 : gr[f].tried \/ N[gr[f].node].hit = 0
  <2>1. \A f \in 1 .. L - 1 : fr[f].tried \/ N[fr[f].node].hit = 0
        BY DEF Branches
  <2>2. \A f \in 1 .. L : f \in 1 .. L - 1 \/ f = L
        OBVIOUS
  <2>3. Len(gr) - 1 = L
        OBVIOUS
  <2> QED BY <2>1, <2>2, <2>3
<1> QED BY <1>1, <1>3, <1>5, <1>6 DEF Branches

(* The last of the L calls fr, for the node n, returns and n is freed.     *)
Returned(fr, gr, L, n, N, M) ==
  /\ Len(gr) = L - 1 /\ \A f \in 1 .. L - 1 : gr[f] = fr[f]
  /\ DOMAIN M = DOMAIN N \ {n} /\ \A m \in DOMAIN N \ {n} : M[m] = N[m]
  /\ \A m \in DOMAIN N \ {Root} : N[m].parent # n

(* The call on top returns: its branch is free, and no other refers to it. *)
LEMMA BranchesReturn ==
  ASSUME NEW P, NEW fr, NEW N, NEW V, Branches(P, fr, N, V),
         NEW L \in Nat \ {0, 1}, Len(fr) = L,
         \A f, g \in 1 .. L : fr[f].node = fr[g].node => f = g,
         fr[1].node = Root,
         NEW n, n = fr[L].node, fr[L].tried \/ N[n].hit = 0,
         \A f \in 1 .. L : fr[f].node \in DOMAIN N,
         NEW gr, NEW M, Returned(fr, gr, L, n, N, M)
  PROVE  Branches(P, gr, M, V) /\ Waiting(P, gr, M) = Waiting(P, fr, N)
<1> /\ Len(gr) = L - 1 /\ \A f \in 1 .. L - 1 : gr[f] = fr[f]
    /\ DOMAIN M = DOMAIN N \ {n} /\ \A m \in DOMAIN N \ {n} : M[m] = N[m]
    /\ \A m \in DOMAIN N \ {Root} : N[m].parent # n
    BY DEF Returned
<1>0. /\ L \in 1 .. L /\ 1 \in 1 .. L /\ L # 1
      /\ \A f \in 1 .. L : f \in 1 .. L - 1 \/ f = L
      /\ \A f \in 1 .. L - 1 : f \in 1 .. L /\ f # L
      OBVIOUS
<1>1. n # Root /\ n \in DOMAIN N
      BY <1>0
<1>2. \A m : m # n => (Framed(gr, m) <=> Framed(fr, m))
      BY <1>0 DEF Framed
<1>3. \A m : m # n => (Tried(gr, m) <=> Tried(fr, m))
      BY <1>0 DEF Tried
<1>4. N[n].hit = 0 \/ Tried(fr, n)
      BY <1>0 DEF Tried
<1>5. Waiting(P, gr, M) = Waiting(P, fr, N)
      BY <1>3, <1>4 DEF Waiting
<1>6. \A f \in 1 .. Len(gr) : P[gr[f].node] = gr[f].path
      BY <1>0 DEF Branches
<1>7. \A f \in 1 .. Len(gr) - 1 : gr[f].tried \/ M[gr[f].node].hit = 0
  <2> TAKE f \in 1 .. Len(gr) - 1
  <2>1. f \in 1 .. L - 1 /\ f \in 1 .. L /\ f # L
        OBVIOUS
  <2>2. fr[f].tried \/ N[fr[f].node].hit = 0
        BY <2>1 DEF Branches
  <2>3. fr[f].node \in DOMAIN N \ {n}
        BY <1>0, <2>1
  <2>4. M[fr[f].node] = N[fr[f].node]
        BY <2>3
  <2> QED BY <2>1, <2>2, <2>4
<1>8. ASSUME NEW m \in DOMAIN M, ~ Framed(gr, m)
      PROVE  /\ M[m].parent \in DOMAIN M
             /\ M[m].val \in Seq(Entries) /\ M[m].val # <<>>
             /\ P[m] = P[M[m].parent] \o M[m].val
  <2>1. m \in DOMAIN N /\ m # n /\ M[m] = N[m] /\ ~ Framed(fr, m)
        BY <1>2, <1>8
  <2>2. m # Root
        BY <1>0, <2>1 DEF Framed
  <2>3. /\ N[m].parent \in DOMAIN N
        /\ N[m].val \in Seq(Entries) /\ N[m].val # <<>>
        /\ P[m] = P[N[m].parent] \o N[m].val
        BY <2>1 DEF Branches
  <2> QED BY <2>1, <2>2, <2>3
<1>9. /\ Root \in DOMAIN M /\ P[Root] = <<>> /\ M[Root].hit = 0
      /\ \A m \in DOMAIN M : P[m] \in Callchains /\ M[m].hit \in Nat
      /\ \A l, m \in DOMAIN M : P[l] = P[m] => l = m
      /\ \A m \in DOMAIN M \ {Root} : M[m].hit = V[P[m]]
      BY <1>1 DEF Branches
<1> QED BY <1>5, <1>6, <1>7, <1>8, <1>9 DEF Branches

(* The first call returns: there are no branches left.                     *)
LEMMA BranchesEnd ==
  ASSUME NEW P, NEW fr, NEW N, NEW V, Branches(P, fr, N, V),
         Len(fr) = 1, fr[1].node = Root,
         \A m \in DOMAIN N \ {Root} : N[m].parent # Root
  PROVE  DOMAIN N = {Root} /\ Waiting(P, fr, N) = {}
<1>1. \A m : Framed(fr, m) <=> m = Root
      BY DEF Framed
<1>2. \A m \in DOMAIN N \ {Root} :
        /\ N[m].parent \in DOMAIN N
        /\ N[m].val \in Seq(Entries) /\ N[m].val # <<>>
        /\ P[m] = P[N[m].parent] \o N[m].val
      BY <1>1 DEF Branches
<1>3. \A m \in DOMAIN N : P[m] \in Seq(Entries) /\ Len(P[m]) \in Nat
  <2>1. \A m \in DOMAIN N : P[m] \in Callchains
        BY DEF Branches
  <2> QED BY <2>1, CallchainSeq, LenProperties
<1> DEFINE Lengths == {Len(P[m]) : m \in DOMAIN N \ {Root}}
<1>4. ASSUME DOMAIN N \ {Root} # {}
      PROVE  FALSE
  <2>1. Lengths \in SUBSET Nat /\ Lengths # {}
        BY <1>3, <1>4
  <2>2. PICK l \in Lengths : \A k \in Lengths : l <= k
        BY <2>1, LeastNatural
  <2>3. PICK m \in DOMAIN N \ {Root} : l = Len(P[m])
        BY <2>2
  <2> DEFINE p == N[m].parent
             v == N[m].val
  <2>4. p \in DOMAIN N \ {Root} /\ v \in Seq(Entries) /\ v # <<>> /\ P[m] = P[p] \o v
        BY <1>2
  <2> HIDE DEF p, v
  <2>5. Len(v) \in Nat \ {0} /\ P[p] \in Seq(Entries) /\ Len(P[p]) \in Nat
        BY <1>3, <2>4, LenProperties, EmptySeq
  <2>6. Len(P[m]) = Len(P[p]) + Len(v)
    <3> DEFINE q == P[p]
    <3>1. P[m] = q \o v /\ q \in Seq(Entries)
          BY <2>4, <2>5
    <3> HIDE DEF q
    <3>2. Len(q \o v) = Len(q) + Len(v)
          BY <2>4, <3>1, ConcatProperties
    <3> QED BY <3>1, <3>2 DEF q
  <2>7. Len(P[p]) \in Lengths
        BY <2>4
  <2>8. Len(P[m]) <= Len(P[p])
        BY <2>2, <2>3, <2>7
  <2> HIDE DEF Lengths
  <2> QED BY <2>5, <2>6, <2>8
<1>5. DOMAIN N = {Root} /\ N[Root].hit = 0
  <2>1. Root \in DOMAIN N /\ N[Root].hit = 0
        BY DEF Branches
  <2> HIDE DEF Lengths
  <2> QED BY <1>4, <2>1
<1>6. Waiting(P, fr, N) = {}
      BY <1>5 DEF Waiting
<1> QED BY <1>5, <1>6
(* Nothing is merged yet.                                                  *)
LEMMA AddedBegins ==
  ASSUME NEW N, NEW A \in [Chains -> Nat], NEW W \in [Chains -> Nat],
         Tells(N, A, W), NEW V, NEW O, \A s \in Chains : s \notin O => V[s] = 0
  PROVE  Added(O, N, A, W, V, A)
<1>1. \A s \in Chains : A[s] \in Nat /\ W[s] \in Nat
      OBVIOUS
<1>2. \A s \in Chains : CountIn(N, s) = A[s] /\ HitIn(N, s) = W[s]
      BY DEF Tells
<1> QED BY <1>1, <1>2 DEF Added

(* The nodes M count c once more than N, with the weight e.                *)
CountsMore(N, M, c, e) ==
  /\ \A s \in Chains :
       CountIn(M, s) = IF s = c THEN CountIn(N, s) + 1 ELSE CountIn(N, s)
  /\ \A s : HitIn(M, s) = IF s = c THEN HitIn(N, s) + e ELSE HitIn(N, s)

(* What append_chain_children() does otherwise.                            *)
LEMMA QuietKeeps ==
  ASSUME Quiet
  PROVE  /\ \A s : HitIn(nodes', s) = HitIn(nodes, s)
         /\ \A s \in Chains : CountIn(nodes', s) = CountIn(nodes, s)
<1>1. [s \in Chains |-> CountIn(nodes', s)] = [s \in Chains |-> CountIn(nodes, s)]
      BY TableIsCountIn DEF Quiet
<1>2. \A s \in Chains :
        /\ [t \in Chains |-> CountIn(nodes', t)][s] = CountIn(nodes', s)
        /\ [t \in Chains |-> CountIn(nodes, t)][s] = CountIn(nodes, s)
      OBVIOUS
<1> QED BY <1>1, <1>2 DEF Quiet, SameHits

(* What append_chain_children() does when it counts.                       *)
LEMMA CountsAreMore ==
  ASSUME Counts
  PROVE  CountsMore(nodes, nodes', chain, period)
<1> DEFINE S == [s \in Chains |-> CountIn(nodes, s)]
           T == [s \in Chains |-> CountIn(nodes', s)]
<1>1. T = [S EXCEPT ![chain] = @ + 1] /\ chain \in Chains
      BY TableIsCountIn DEF Counts
<1>2. /\ DOMAIN S = Chains
      /\ \A s \in Chains : S[s] = CountIn(nodes, s) /\ T[s] = CountIn(nodes', s)
      OBVIOUS
<1> HIDE DEF S, T
<1>3. \A s \in Chains : T[s] = IF s = chain THEN S[s] + 1 ELSE S[s]
      BY <1>1, <1>2
<1>4. MoreHits
      BY DEF Counts
<1> QED BY <1>2, <1>3, <1>4 DEF CountsMore, MoreHits

(* The weight V of the callchain c is added, with one sighting.            *)
LEMMA AddedOne ==
  ASSUME NEW N, NEW A \in [Chains -> Nat], NEW W, NEW V, NEW B, NEW O,
         Added(O, N, A, W, V, B), NEW c \in Chains, c \in O, V[c] # 0,
         NEW M, CountsMore(N, M, c, V[c])
  PROVE  Added(O \ {c}, M, [A EXCEPT ![c] = @ + 1], W, V, B)
<1> DEFINE D == [A EXCEPT ![c] = @ + 1]
<1>1. \A s \in Chains : D[s] = IF s = c THEN A[s] + 1 ELSE A[s]
      OBVIOUS
<1> HIDE DEF D
<1>2. Added(O \ {c}, M, D, W, V, B)
      BY <1>1 DEF Added, CountsMore
<1> QED BY <1>2 DEF D

(* What is added depends on the counts and weights alone.                  *)
LEMMA AddedSame ==
  ASSUME NEW N, NEW A, NEW W, NEW V, NEW B, NEW O, Added(O, N, A, W, V, B),
         NEW M, \A s \in Chains : CountIn(M, s) = CountIn(N, s)
                                  /\ HitIn(M, s) = HitIn(N, s)
  PROVE  Added(O, M, A, W, V, B)
BY DEF Added

(* The calls that are running are for different branches.                  *)
LEMMA FramesApart ==
  ASSUME BInv, phase = "merge"
  PROVE  /\ \A f, g \in 1 .. Len(frames) :
              frames[f].node = frames[g].node => f = g
         /\ \A f \in 1 .. Len(frames) : frames[f].node \in DOMAIN other.nodes
         /\ frames[1].node = Root /\ Len(frames) \in Nat \ {0}
         /\ Len(frames) \in 1 .. Len(frames)
         /\ Top = frames[Len(frames)] /\ Framed(frames, Top.node)
         /\ frames \in Seq(FrameType)
<1>1. /\ FramesIn(frames, other.nodes, cursor) /\ Len(frames) \in Nat \ {0}
      /\ Len(frames) \in 1 .. Len(frames) /\ Top = frames[Len(frames)]
      BY MergeFacts
<1>2. /\ \A f, g \in 1 .. Len(frames) :
           f < g => frames[f].node # frames[g].node
      /\ \A f \in 1 .. Len(frames) : frames[f].node \in DOMAIN other.nodes
      /\ frames[1].node = Root /\ frames \in Seq(FrameType)
      BY <1>1 DEF FramesIn
<1>3. \A f, g \in 1 .. Len(frames) : f = g \/ f < g \/ g < f
      BY <1>1
<1>4. Framed(frames, Top.node)
      BY <1>1 DEF Framed
<1> QED BY <1>1, <1>2, <1>3, <1>4

(* Draining a branch concerns the nodes of the other tree alone.           *)
LEMMA OtherNodes ==
  ASSUME OtherInv, NEW M, other' = [other EXCEPT !.nodes = M]
  PROVE  other'.nodes = M /\ other'.weights = other.weights
<1>1. other = [nodes |-> other.nodes, max_depth |-> other.max_depth,
               appends |-> other.appends, weights |-> other.weights]
      BY DEF OtherInv
<1> QED BY <1>1

(* What the two trees tell stays, as long as no merge is over.             *)
LEMMA TellsStay ==
  ASSUME TellsInv, weights' = weights, other'.weights = other.weights,
         \/ phase' \in {"merge", "merged"}
         \/ /\ phase \notin {"merge", "merged"}
            /\ nodes' = nodes /\ appends' = appends /\ other' = other
  PROVE  TellsInv'
BY DEF TellsInv

(* insert() goes on, without a change to a tree.                           *)
LEMMA InsertWeights ==
  ASSUME WInv, phase \notin {"merge", "merged"}, phase' \notin {"merge", "merged"},
         nodes' = nodes, appends' = appends, other' = other, weights' = weights
  PROVE  WInv'
<1>1. TellsInv'
      BY TellsStay DEF WInv
<1> QED BY <1>1 DEF WInv, MovedInv, MergedInv

(* callchain_append() adds the period to the weight of its callchain.      *)
LEMMA AppendWeights ==
  ASSUME BInv, WInv, AppendStep
  PROVE  WInv'
<1>1. IInv /\ TellsInv
      BY DEF BInv, WInv
<1>2. /\ phase = "append" /\ Step /\ other' = other
      /\ phase' = IF pc' = "idle" THEN "idle" ELSE "append"
      /\ weights' = IF appends' = appends THEN weights
                    ELSE [weights EXCEPT ![chain] = @ + period]
      BY DEF AppendStep
<1>3. /\ weights \in [Chains -> Nat] /\ other.weights \in [Chains -> Nat]
      /\ Tells(nodes, appends, weights)
      /\ Tells(other.nodes, other.appends, other.weights)
      BY <1>1, <1>2 DEF TellsInv
<1>4. appends \in [Chains -> Nat] /\ period \in Nat
      BY <1>1 DEF IInv, RestInv, CursorInv
<1>5. weights' \in [Chains -> Nat] /\ Tells(nodes', appends', weights')
  <2>1. CASE Return
    <3>1. nodes' = nodes /\ appends' = appends
          BY <2>1 DEF Return
    <3> QED BY <1>2, <1>3, <3>1
  <2>2. CASE Quiet
    <3>1. appends' = appends /\ weights' = weights
          BY <1>2, <2>2 DEF Quiet, Fail
    <3>2. /\ \A s : HitIn(nodes', s) = HitIn(nodes, s)
          /\ \A s \in Chains : CountIn(nodes', s) = CountIn(nodes, s)
          BY <2>2, QuietKeeps
    <3> QED BY <1>3, <3>1, <3>2 DEF Tells
  <2>3. CASE Counts
    <3>1. /\ chain \in Chains
          /\ appends' = [appends EXCEPT ![chain] = @ + 1]
          BY <2>3 DEF Counts, Found
    <3>2. appends'[chain] = appends[chain] + 1 /\ appends[chain] \in Nat
          BY <1>4, <3>1
    <3>3. weights' = [weights EXCEPT ![chain] = @ + period]
      <4>1. appends' # appends
            BY <3>2
      <4> QED BY <1>2, <4>1
    <3>4. CountsMore(nodes, nodes', chain, period)
          BY <2>3, CountsAreMore
    <3>5. chain # <<>>
          BY <3>1, ChainsAssumption
    <3>6. HitIn(nodes', <<>>) = 0
          BY <1>3, <3>4, <3>5 DEF Tells, CountsMore
    <3>7. \A s \in Chains :
            CountIn(nodes', s) = appends'[s] /\ HitIn(nodes', s) = weights'[s]
      <4>1. \A s \in Chains :
              /\ appends'[s] = IF s = chain THEN appends[s] + 1 ELSE appends[s]
              /\ weights'[s] = IF s = chain THEN weights[s] + period ELSE weights[s]
            BY <1>3, <1>4, <3>1, <3>3
      <4> QED BY <1>3, <3>4, <4>1 DEF Tells, CountsMore
    <3> QED BY <1>3, <1>4, <3>1, <3>3, <3>6, <3>7 DEF Tells
  <2>4. AddChild \/ AppendChain \/ Unwind => Quiet \/ Counts
        BY <1>1, RunStep
  <2> QED BY <1>2, <2>1, <2>2, <2>3, <2>4 DEF Step
<1>6. TellsInv'
      BY <1>2, <1>3, <1>5 DEF TellsInv
<1> QED BY <1>2, <1>6 DEF WInv, MovedInv, MergedInv

(* The trees change places with what they tell.                            *)
LEMMA SwitchWeights ==
  ASSUME WInv, Switch
  PROVE  WInv'
<1>1. /\ phase = "idle" /\ phase' = phase
      /\ nodes' = other.nodes /\ appends' = other.appends
      /\ weights' = other.weights
      /\ other'.nodes = nodes /\ other'.appends = appends
      /\ other'.weights = weights
      BY DEF Switch
<1>2. TellsInv'
      BY <1>1 DEF WInv, TellsInv
<1> QED BY <1>1, <1>2 DEF WInv, MovedInv, MergedInv
(* A merge finds both trees as they tell.                                  *)
LEMMA MergeBeginsWeights ==
  ASSUME BInv, WInv, Merge
  PROVE  WInv'
<1>1. /\ phase = "idle" /\ phase' = "merge"
      /\ frames' = <<Frame(Root, cursor', <<>>)>>
      /\ base' = appends /\ weights' = weights /\ other' = other
      /\ nodes' = nodes /\ appends' = appends /\ pc' = pc
      BY DEF Merge, vars
<1>2. IInv /\ OtherInv /\ PhaseInv /\ TellsInv
      BY DEF BInv, WInv
<1>3. /\ pc = "idle" /\ appends \in [Chains -> Nat]
      /\ Forest(other.nodes) /\ PathsIn(other.nodes)
      BY <1>1, <1>2 DEF IInv, RestInv, PhaseInv, OtherInv, WholeTree
<1>4. /\ weights \in [Chains -> Nat] /\ Tells(nodes, appends, weights)
      /\ Tells(other.nodes, other.appends, other.weights)
      BY <1>1, <1>2 DEF TellsInv
<1> PICK P : P = PathIn(other.nodes)
    OBVIOUS
<1>5. /\ Len(frames') = 1 /\ frames'[1].node = Root /\ frames'[1].path = <<>>
      /\ ~ frames'[1].tried
      BY <1>1 DEF Frame
<1>6. /\ Branches(P, frames', other.nodes, other.weights)
      /\ \A s \in Chains :
           s \notin Waiting(P, frames', other.nodes) => other.weights[s] = 0
  <2> DEFINE fr == frames'
  <2>1. Len(fr) = 1 /\ fr[1].node = Root /\ fr[1].path = <<>> /\ ~ fr[1].tried
        BY <1>5
  <2> HIDE DEF fr
  <2>2. /\ Branches(P, fr, other.nodes, other.weights)
        /\ \A s \in Chains :
             s \notin Waiting(P, fr, other.nodes) => other.weights[s] = 0
    <3>1. /\ Branches(PathIn(other.nodes), fr, other.nodes, other.weights)
          /\ \A s \in Chains :
               s \notin Waiting(PathIn(other.nodes), fr, other.nodes) =>
                 other.weights[s] = 0
          BY <1>3, <1>4, <2>1, BranchesBegin
    <3> QED BY <3>1, Zenon
  <2> QED BY <2>2 DEF fr
<1>7. Passing' = {}
      BY <1>1, <1>3 DEF Passing
<1>8. Added(Waiting(P, frames', other.nodes) \cup {}, nodes, appends, weights,
            other.weights, appends)
      BY <1>3, <1>4, <1>6, AddedBegins
<1>9. MovedInv'
  <2>1. Moving(P)'
        BY <1>1, <1>3 DEF Moving
  <2>2. Branches(P, frames', other'.nodes, other'.weights)
        BY <1>1, <1>6
  <2>3. Added(Waiting(P, frames', other'.nodes) \cup Passing', nodes', appends',
              weights', other'.weights, base')
    <3>1. /\ other'.nodes = other.nodes /\ other'.weights = other.weights
          BY <1>1
    <3> QED BY <1>1, <1>7, <1>8, <3>1, Zenon
  <2> QED BY <2>1, <2>2, <2>3 DEF MovedInv
<1>10. TellsInv'
       BY <1>1, <1>2, TellsStay
<1> QED BY <1>1, <1>9, <1>10 DEF WInv, MergedInv

(* An entry that moves to the cursor moves no weight.                      *)
LEMMA MergeEntryWeights ==
  ASSUME BInv, WInv, MergeEntry
  PROVE  WInv'
<1> DEFINE n == Top.node
           N == other.nodes
           M == [other.nodes EXCEPT ![Top.node].val = Tail(@)]
<1>1. /\ phase = "merge" /\ phase' = phase /\ pc = "idle" /\ pc' = pc
      /\ other' = [other EXCEPT !.nodes = M]
      /\ CursorAppend(Src.val[1]) \/ CursorAppendFails
      /\ frames' = frames /\ weights' = weights /\ base' = base
      /\ nodes' = nodes /\ appends' = appends /\ chain' = chain
      /\ period' = period
      BY DEF MergeEntry, Merging
<1>2. OtherInv /\ IInv /\ TellsInv /\ MovedInv
      BY DEF BInv, WInv
<1> HIDE DEF n, N, M
<1>3. other'.nodes = M /\ other'.weights = other.weights
      BY <1>1, <1>2, OtherNodes
<1>4. TellsInv'
      BY <1>1, <1>2, <1>3, TellsStay
<1>5. ASSUME failures' = 0
      PROVE  failures = 0
  <2>1. failures \in Nat
        BY <1>2 DEF IInv, RestInv
  <2> QED BY <1>1, <1>5, <2>1 DEF CursorAppend, CursorAppendFails
<1>6. ASSUME failures = 0
      PROVE  \E P : /\ Branches(P, frames, M, other.weights)
                    /\ Moving(P)'
                    /\ Added(Waiting(P, frames, M) \cup Passing',
                             nodes, appends, weights, other.weights, base)
  <2>1. PICK P :
          /\ Branches(P, frames, N, other.weights)
          /\ Added(Waiting(P, frames, N) \cup Passing,
                   nodes, appends, weights, other.weights, base)
        BY <1>1, <1>2, <1>6 DEF MovedInv, N
  <2>2. /\ n \in DOMAIN N /\ Framed(frames, n) /\ Len(frames) \in Nat
        /\ \A f \in 1 .. Len(frames) : frames[f].node \in DOMAIN N
        BY <1>1, FramesApart DEF n, N
  <2>3. /\ DOMAIN M = DOMAIN N /\ M[n].hit = N[n].hit
        /\ \A m \in DOMAIN N \ {n} : M[m] = N[m]
    <3>1. M = [N EXCEPT ![n] = [N[n] EXCEPT !.val = Tail(@)]]
          BY DEF M, N, n
    <3> DEFINE r == [N[n] EXCEPT !.val = Tail(@)]
    <3>2. r.hit = N[n].hit
      <4>1. N[n] \in Fields(Nat)
            BY <1>1, <2>2, MergeFacts DEF Draining, Drained, N
      <4> QED BY <4>1 DEF Fields
    <3> HIDE DEF r
    <3> QED BY <2>2, <3>1, <3>2 DEF r
  <2>4. Branches(P, frames, M, other.weights)
        /\ Waiting(P, frames, M) = Waiting(P, frames, N)
    <3> DEFINE V == other.weights
    <3>1. Branches(P, frames, N, V)
          BY <2>1
    <3> HIDE DEF V
    <3>2. Branches(P, frames, M, V) /\ Waiting(P, frames, M) = Waiting(P, frames, N)
          BY <2>2, <2>3, <3>1, BranchesEntry
    <3> QED BY <3>2 DEF V
  <2>5. Moving(P)' /\ Passing' = Passing
        BY <1>1 DEF Moving, Passing
  <2> QED BY <2>1, <2>4, <2>5
<1>7. MovedInv'
      BY <1>1, <1>3, <1>5, <1>6 DEF MovedInv
<1> QED BY <1>1, <1>4, <1>7 DEF WInv, MergedInv

(* The weight of the branch on top leaves for append_chain_children().     *)
LEMMA MergeAppendWeights ==
  ASSUME BInv, WInv, MergeAppend
  PROVE  WInv'
<1> DEFINE L == Len(frames)
           N == other.nodes
           V == other.weights
<1>1. /\ phase = "merge" /\ phase' = phase /\ pc = "idle" /\ pc' = "down"
      /\ Src.val = <<>> /\ Src.hit # 0 /\ ~ Top.tried
      /\ chain' = Read /\ period' = Src.hit /\ other' = other
      /\ frames' = [frames EXCEPT ![L].tried = TRUE]
      /\ failures' = failures /\ weights' = weights /\ base' = base
      /\ nodes' = nodes /\ appends' = appends
      BY DEF MergeAppend, Merging
<1>2. TellsInv /\ MovedInv /\ CellsInv
      BY DEF BInv, WInv
<1>3. TellsInv'
      BY <1>1, <1>2, TellsStay
<1>4. /\ L \in Nat \ {0} /\ L \in 1 .. L /\ Top = frames[L]
      /\ frames[L].node \in DOMAIN N /\ frames \in Seq(FrameType)
      /\ \A f, g \in 1 .. L : frames[f].node = frames[g].node => f = g
      BY <1>1, FramesApart
<1>5. ASSUME failures = 0
      PROVE  \E P : /\ Branches(P, frames', N, V)
                    /\ Moving(P)'
                    /\ Added(Waiting(P, frames', N) \cup Passing',
                             nodes, appends, weights, V, base)
  <2>1. PICK P :
          /\ Branches(P, frames, N, V)
          /\ Added(Waiting(P, frames, N) \cup Passing,
                   nodes, appends, weights, V, base)
        BY <1>1, <1>2, <1>5 DEF MovedInv
  <2> DEFINE gr == frames'
             n == frames[L].node
  <2>2. /\ Len(gr) = L
        /\ \A f \in 1 .. L :
             /\ gr[f].node = frames[f].node /\ gr[f].path = frames[f].path
             /\ gr[f].tried <=> frames[f].tried \/ f = L
    <3> DEFINE r == [frames[L] EXCEPT !.tried = TRUE]
    <3>1. frames[L] \in FrameType
          BY <1>4, ElementOfSeq
    <3>2. /\ r.node = frames[L].node /\ r.path = frames[L].path /\ r.tried
          /\ r \in FrameType
      <4> DEFINE S == Seq(Entries)
                 t == frames[L]
      <4>1. t \in [node : Nat, old_pos : Nat, old_last : Nat, tried : BOOLEAN,
                   path : S]
            BY <3>1 DEF FrameType
      <4> HIDE DEF S, t
      <4>2. /\ [t EXCEPT !.tried = TRUE] \in
                 [node : Nat, old_pos : Nat, old_last : Nat, tried : BOOLEAN,
                  path : S]
            /\ [t EXCEPT !.tried = TRUE].node = t.node
            /\ [t EXCEPT !.tried = TRUE].path = t.path
            /\ [t EXCEPT !.tried = TRUE].tried
            BY <4>1
      <4> QED BY <4>2 DEF FrameType, S, t
    <3>3. frames' = [frames EXCEPT ![L] = r]
          BY <1>1
    <3> HIDE DEF r
    <3>4. /\ Len(frames') = L
          /\ \A f \in 1 .. L : frames'[f] = IF f = L THEN r ELSE frames[f]
          BY <1>4, <3>2, <3>3, ExceptSeq
    <3> QED BY <3>2, <3>4
  <2>3. N[n].hit # 0 /\ N[n].hit = Src.hit /\ ~ frames[L].tried
        BY <1>1, <1>4 DEF Src
  <2>4. n # Root
        BY <2>1, <2>3 DEF Branches
  <2>5. N[n].hit = V[P[n]] /\ P[n] = frames[L].path
        BY <1>4, <2>1, <2>4 DEF Branches
  <2>6. Read = P[n]
    <3>1. Read \o <<>> = frames[L].path
          BY <1>1, <1>4, <1>5, TopHeld
    <3>2. Read \in Seq(Entries)
          BY <1>2, ReadSeq
    <3> QED BY <2>5, <3>1, <3>2, ConcatEmptySeq
  <2>7. Top' = gr[L]
        BY <2>2 DEF Top, Last
  <2>8. Moving(P)'
    <3>1. Top'.tried /\ Top'.node = n
          BY <1>4, <2>2, <2>7
    <3> HIDE DEF gr, n, N, V
    <3>2. other'.weights = V /\ period' = N[n].hit /\ chain' = P[n]
          BY <1>1, <2>3, <2>6 DEF V
    <3> QED BY <2>3, <2>5, <3>1, <3>2 DEF Moving
  <2>9. Passing = {} /\ Passing' = {P[n]}
        BY <1>1, <2>6 DEF Passing
  <2> HIDE DEF gr, N, V
  <2>10. /\ Branches(P, gr, N, V)
         /\ P[frames[L].node] \in Waiting(P, frames, N)
         /\ Waiting(P, gr, N) = Waiting(P, frames, N) \ {P[frames[L].node]}
         BY <1>4, <2>1, <2>2, <2>3, BranchesTried
  <2>11. Waiting(P, gr, N) \cup Passing' = Waiting(P, frames, N) \cup Passing
         BY <2>9, <2>10
  <2> QED BY <2>1, <2>8, <2>10, <2>11 DEF gr
<1>6. MovedInv'
      BY <1>1, <1>5 DEF MovedInv
<1> QED BY <1>1, <1>3, <1>6 DEF WInv, MergedInv

(* Only a merge that lost entries has nothing to append.                   *)
LEMMA MergeAppendNothingWeights ==
  ASSUME BInv, WInv, MergeAppendNothing
  PROVE  WInv'
<1>1. /\ phase = "merge" /\ phase' = "merged"
      /\ Src.val = <<>> /\ Src.hit # 0 /\ Read = <<>>
      /\ failures' = failures /\ weights' = weights
      /\ \E M : other' = [other EXCEPT !.nodes = M]
      BY DEF MergeAppendNothing, Merging, Abandon, vars
<1>2. OtherInv /\ TellsInv /\ MovedInv
      BY DEF BInv, WInv
<1>3. TellsInv'
      BY <1>1, <1>2, OtherNodes, TellsStay
<1>4. failures # 0
  <2> SUFFICES ASSUME failures = 0 PROVE FALSE
      OBVIOUS
  <2>1. PICK P : Branches(P, frames, other.nodes, other.weights)
        BY <1>1, <1>2 DEF MovedInv
  <2>2. Top.path = <<>>
    <3>1. <<>> \o <<>> = Top.path
          BY <1>1, TopHeld
    <3>2. <<>> \in Seq(Entries)
          BY EmptySeq
    <3> QED BY <3>1, <3>2, ConcatEmptySeq
  <2>3. P[Top.node] = <<>> /\ Top.node \in DOMAIN other.nodes
        BY <1>1, <2>1, <2>2, FramesApart DEF Branches
  <2>4. Top.node = Root
        BY <2>1, <2>3 DEF Branches
  <2> QED BY <1>1, <2>1, <2>4 DEF Src, Branches
<1> QED BY <1>1, <1>3, <1>4 DEF WInv, MovedInv, MergedInv
(* append_chain_children() counts the weight that it was called with, for  *)
(* the callchain of the branch.                                            *)
LEMMA MergeStepWeights ==
  ASSUME BInv, WInv, MergeStep
  PROVE  WInv'
<1> DEFINE N == other.nodes
           V == other.weights
<1>1. /\ phase = "merge" /\ (AddChild \/ AppendChain \/ Unwind)
      /\ IF pc' = "idle" THEN Abandon ELSE UNCHANGED backend
      BY DEF MergeStep
<1>2. OtherInv /\ IInv /\ TellsInv /\ MovedInv
      BY DEF BInv, WInv
<1>3. /\ phase' \in {"merge", "merged"} /\ weights' = weights
      /\ other'.weights = other.weights
  <2>1. CASE Abandon
    <3>1. \E M : other' = [other EXCEPT !.nodes = M]
          BY <2>1 DEF Abandon
    <3> QED BY <1>2, <2>1, <3>1, OtherNodes DEF Abandon
  <2>2. CASE UNCHANGED backend
        BY <1>1, <2>2 DEF backend
  <2> QED BY <1>1, <2>1, <2>2
<1>4. TellsInv'
      BY <1>2, <1>3, TellsStay
<1>5. pc # "idle" /\ failures \in Nat /\ appends \in [Chains -> Nat]
      BY <1>1, <1>2, CallFrame DEF Step, IInv, RestInv
<1>6. Quiet \/ Counts
      BY <1>1, <1>2, RunStep
<1>7. CASE Quiet /\ failures' # 0
      BY <1>4, <1>7 DEF WInv, MovedInv, MergedInv
<1>8. CASE Quiet /\ failures' = 0
  <2>1. UNCHANGED <<pc, chain, period, appends, failures>>
        BY <1>5, <1>8 DEF Quiet, Fail
  <2>2. phase' = "merge" /\ frames' = frames /\ other' = other /\ base' = base
        BY <1>1, <1>5, <2>1 DEF backend
  <2>3. \A s \in Chains : /\ CountIn(nodes', s) = CountIn(nodes, s)
                          /\ HitIn(nodes', s) = HitIn(nodes, s)
        BY <1>8, QuietKeeps
  <2>4. PICK P :
          /\ Branches(P, frames, N, V) /\ Moving(P)
          /\ Added(Waiting(P, frames, N) \cup Passing,
                   nodes, appends, weights, V, base)
        BY <1>1, <1>2, <1>8, <2>1 DEF MovedInv
  <2>5. Moving(P)' /\ Passing' = Passing
        BY <2>1, <2>2, <2>4 DEF Moving, Passing, Top
  <2>6. Added(Waiting(P, frames, N) \cup Passing,
              nodes', appends, weights, V, base)
        BY <2>3, <2>4, AddedSame
  <2>7. Branches(P, frames', other'.nodes, other'.weights)
        BY <2>2, <2>4
  <2>8. Added(Waiting(P, frames', other'.nodes) \cup Passing',
              nodes', appends', weights', other'.weights, base')
    <3>1. other'.nodes = N /\ other'.weights = V /\ appends' = appends
          BY <2>1, <2>2
    <3> HIDE DEF N, V
    <3> QED BY <1>3, <2>2, <2>5, <2>6, <3>1, Zenon
  <2>9. MovedInv'
        BY <2>5, <2>7, <2>8 DEF MovedInv
  <2> QED BY <1>4, <2>2, <2>9 DEF WInv, MergedInv
<1>9. CASE Counts
  <2>1. /\ pc = "down" /\ pc' = "up" /\ chain \in Chains
        /\ chain' = chain /\ period' = period /\ failures' = failures
        /\ appends' = [appends EXCEPT ![chain] = @ + 1]
        BY <1>9 DEF Counts, Found
  <2>2. phase' = "merge" /\ frames' = frames /\ other' = other /\ base' = base
        BY <1>1, <2>1 DEF backend
  <2> SUFFICES ASSUME failures = 0
               PROVE  MovedInv'
      BY <1>4, <2>1, <2>2 DEF WInv, MovedInv, MergedInv
  <2>3. PICK P :
          /\ Branches(P, frames, N, V) /\ Moving(P)
          /\ Added(Waiting(P, frames, N) \cup Passing,
                   nodes, appends, weights, V, base)
        BY <1>1, <1>2 DEF MovedInv
  <2>4. /\ Top.tried /\ chain = P[Top.node] /\ period = V[chain] /\ V[chain] # 0
        BY <2>1, <2>3 DEF Moving
  <2>5. CountsMore(nodes, nodes', chain, V[chain])
        BY <1>9, <2>4, CountsAreMore
  <2>6. Passing = {chain} /\ Passing' = {}
        BY <2>1 DEF Passing
  <2>7. chain \notin Waiting(P, frames, N)
    <3>1. Top.node \in DOMAIN N /\ Tried(frames, Top.node)
          BY <1>1, <2>4, FramesApart DEF Tried
    <3> QED BY <2>3, <2>4, <3>1, TriedIsGone
  <2> DEFINE O == Waiting(P, frames, N) \cup Passing
  <2>8. /\ chain \in O /\ O \ {chain} = Waiting(P, frames, N) \cup Passing'
        BY <2>6, <2>7
  <2>9. Added(O \ {chain}, nodes', [appends EXCEPT ![chain] = @ + 1],
              weights, V, base)
    <3>1. Added(O, nodes, appends, weights, V, base)
          BY <2>3
    <3> HIDE DEF O, V
    <3> QED BY <1>5, <2>1, <2>4, <2>5, <2>8, <3>1, AddedOne
  <2>10. Moving(P)'
         BY <2>1, <2>2, <2>3 DEF Moving, Top
  <2>11. Branches(P, frames', other'.nodes, other'.weights)
         BY <2>2, <2>3
  <2>12. Added(Waiting(P, frames', other'.nodes) \cup Passing',
               nodes', appends', weights', other'.weights, base')
    <3>1. other'.nodes = N /\ other'.weights = V
          BY <2>2
    <3> HIDE DEF N, V, O
    <3> QED BY <1>3, <2>1, <2>2, <2>8, <2>9, <3>1, Zenon
  <2> QED BY <2>10, <2>11, <2>12 DEF MovedInv
<1> QED BY <1>6, <1>7, <1>8, <1>9

(* The calls of append_chain_children() have returned.                     *)
LEMMA MergeAppendedWeights ==
  ASSUME BInv, WInv, MergeAppended
  PROVE  WInv'
<1>1. /\ phase = "merge" /\ phase' = phase /\ pc = "up" /\ pc' = "idle"
      /\ frames' = frames /\ other' = other /\ base' = base
      /\ weights' = weights /\ nodes' = nodes /\ appends' = appends
      /\ failures' = failures
      BY DEF MergeAppended, backend
<1>2. TellsInv /\ MovedInv
      BY DEF WInv
<1>3. TellsInv'
      BY <1>1, <1>2, TellsStay
<1>4. Passing = {} /\ Passing' = {}
      BY <1>1 DEF Passing
<1>5. ASSUME failures = 0
      PROVE  MovedInv'
  <2>1. PICK P :
          /\ Branches(P, frames, other.nodes, other.weights)
          /\ Added(Waiting(P, frames, other.nodes) \cup Passing,
                   nodes, appends, weights, other.weights, base)
        BY <1>1, <1>2, <1>5 DEF MovedInv
  <2>2. Moving(P)'
        BY <1>1 DEF Moving
  <2>3. Branches(P, frames', other'.nodes, other'.weights)
        BY <1>1, <2>1
  <2>4. Added(Waiting(P, frames', other'.nodes) \cup Passing',
              nodes', appends', weights', other'.weights, base')
    <3>1. other'.nodes = other.nodes /\ other'.weights = other.weights
          BY <1>1
    <3> QED BY <1>1, <1>4, <2>1, <3>1, Zenon
  <2> QED BY <2>2, <2>3, <2>4 DEF MovedInv
<1> QED BY <1>1, <1>3, <1>5 DEF WInv, MovedInv, MergedInv

(* The weights of a child wait for its call.                               *)
LEMMA MergeChildWeights ==
  ASSUME BInv, WInv, MergeChild
  PROVE  WInv'
<1> DEFINE L == Len(frames)
           N == other.nodes
           V == other.weights
<1>1. /\ phase = "merge" /\ phase' = phase /\ pc = "idle" /\ pc' = pc
      /\ Src.hit = 0 \/ Top.tried
      /\ other' = other /\ failures' = failures /\ weights' = weights
      /\ base' = base /\ nodes' = nodes /\ appends' = appends
      BY DEF MergeChild, Appended, Merging, vars
<1>2. TellsInv /\ MovedInv /\ BInv'
      BY MergeChildStep DEF WInv
<1>3. TellsInv'
      BY <1>1, <1>2, TellsStay
<1>4. /\ L \in Nat \ {0} /\ L \in 1 .. L /\ Top = frames[L]
      /\ frames \in Seq(FrameType)
      BY <1>1, FramesApart
<1>5. PICK k \in SrcChildren :
        frames' = Append(frames, Frame(k, cursor, Top.path \o other.nodes[k].val))
      BY DEF MergeChild
<1>6. k \in DOMAIN N \ {Root} /\ N[k].parent = frames[L].node
      BY <1>4, <1>5 DEF SrcChildren
<1> DEFINE gr == frames'
<1>7. /\ Len(gr) = L + 1 /\ \A f \in 1 .. L : gr[f] = frames[f]
      /\ gr[L + 1].node = k /\ gr[L + 1].path = frames[L].path \o N[k].val
      /\ ~ gr[L + 1].tried
  <2> DEFINE r == Frame(k, cursor, Top.path \o N[k].val)
  <2>1. r.node = k /\ r.path = Top.path \o N[k].val /\ ~ r.tried
        BY DEF Frame
  <2>2. gr = Append(frames, r)
        BY <1>5
  <2> HIDE DEF r, gr
  <2>3. /\ Len(gr) = L + 1 /\ \A f \in 1 .. L : gr[f] = frames[f]
        /\ gr[L + 1] = r
    <3>1. L = Len(frames)
          OBVIOUS
    <3> HIDE DEF L
    <3> QED BY <1>4, <2>2, <3>1
  <2> QED BY <1>4, <2>1, <2>3
<1>8. ~ Framed(frames, k)
  <2> SUFFICES ASSUME NEW f \in 1 .. L, frames[f].node = k PROVE FALSE
      BY DEF Framed
  <2>1. \A e, g \in 1 .. L + 1 : gr[e].node = gr[g].node => e = g
    <3>1. BInv' /\ phase' = "merge"
          BY <1>1, <1>2
    <3>2. \A e, g \in 1 .. Len(gr) : e < g => gr[e].node # gr[g].node
          BY <3>1 DEF BInv, MergeInv, Draining, FramesIn
    <3> HIDE DEF gr, L
    <3> QED BY <1>4, <1>7, <3>2
  <2> HIDE DEF gr, L
  <2>2. f \in 1 .. L + 1 /\ L + 1 \in 1 .. L + 1 /\ f # L + 1
        BY <1>4
  <2> QED BY <1>7, <2>1, <2>2
<1>9. ASSUME failures = 0
      PROVE  MovedInv'
  <2>1. PICK P :
          /\ Branches(P, frames, N, V)
          /\ Added(Waiting(P, frames, N) \cup Passing,
                   nodes, appends, weights, V, base)
        BY <1>1, <1>2, <1>9 DEF MovedInv
  <2>2. P[frames[L].node] = frames[L].path
        BY <1>4, <2>1 DEF Branches
  <2>3. frames[L].tried \/ N[frames[L].node].hit = 0
        BY <1>1, <1>4 DEF Src
  <2>4. Branches(P, gr, N, V) /\ Waiting(P, gr, N) = Waiting(P, frames, N)
    <3>1. Len(frames) = L
          OBVIOUS
    <3>2. /\ Branches(P, frames, N, V) /\ L \in Nat \ {0}
          /\ k \in DOMAIN N /\ ~ Framed(frames, k)
          /\ N[k].parent = frames[L].node
          BY <1>4, <1>6, <1>8, <2>1
    <3>3. Called(frames, gr, L, k, N[k].val)
          BY <1>7 DEF Called
    <3> HIDE DEF gr, N, V, L
    <3> QED BY <2>2, <2>3, <3>1, <3>2, <3>3, BranchesChild
  <2>5. Moving(P)' /\ Passing' = Passing
        BY <1>1 DEF Moving, Passing
  <2>6. other'.nodes = N /\ other'.weights = V
        BY <1>1
  <2>7. Branches(P, frames', other'.nodes, other'.weights)
        BY <2>4, <2>6, Zenon
  <2>8. Added(Waiting(P, frames', other'.nodes) \cup Passing',
              nodes', appends', weights', other'.weights, base')
    <3> HIDE DEF N, V
    <3> QED BY <1>1, <2>1, <2>4, <2>5, <2>6, Zenon
  <2> QED BY <2>5, <2>7, <2>8 DEF MovedInv
<1> QED BY <1>1, <1>3, <1>9 DEF WInv, MovedInv, MergedInv
(* A branch that is freed holds no weight any more; when the first call    *)
(* returns there is none left.                                             *)
LEMMA MergeReturnWeights ==
  ASSUME BInv, WInv, MergeReturn
  PROVE  WInv'
<1> DEFINE L == Len(frames)
           N == other.nodes
           V == other.weights
           M == [m \in DOMAIN other.nodes \ ({Top.node} \ {Root}) |-> other.nodes[m]]
<1>1. /\ phase = "merge" /\ pc = "idle" /\ pc' = pc
      /\ phase' = IF L = 1 THEN "merged" ELSE "merge"
      /\ Src.hit = 0 \/ Top.tried
      /\ SrcChildren = {} /\ frames' = Front(frames)
      /\ other' = [other EXCEPT !.nodes = M]
      /\ failures' = failures /\ weights' = weights
      /\ base' = base /\ nodes' = nodes /\ appends' = appends
      BY DEF MergeReturn, Appended, Merging, vars
<1>2. OtherInv /\ TellsInv /\ MovedInv
      BY DEF BInv, WInv
<1>3. other'.nodes = M /\ other'.weights = V
  <2> HIDE DEF M
  <2> QED BY <1>1, <1>2, OtherNodes
<1>4. TellsInv'
      BY <1>1, <1>2, <1>3, TellsStay
<1>5. /\ L \in Nat \ {0} /\ L \in 1 .. L /\ Top = frames[L]
      /\ frames \in Seq(FrameType) /\ frames[1].node = Root
      /\ \A f, g \in 1 .. L : frames[f].node = frames[g].node => f = g
      /\ \A f \in 1 .. L : frames[f].node \in DOMAIN N
      BY <1>1, FramesApart
<1> DEFINE n == frames[L].node
<1>6. /\ \A m \in DOMAIN N \ {Root} : N[m].parent # n
      /\ frames[L].tried \/ N[n].hit = 0
      BY <1>1, <1>5 DEF SrcChildren, Src
<1>7. Passing = {} /\ Passing' = {} /\ \A P : Moving(P)'
      BY <1>1 DEF Passing, Moving
<1>8. CASE failures # 0
      BY <1>1, <1>4, <1>8 DEF WInv, MovedInv, MergedInv
<1>9. CASE failures = 0
  <2>1. PICK P :
          /\ Branches(P, frames, N, V)
          /\ Added(Waiting(P, frames, N) \cup Passing,
                   nodes, appends, weights, V, base)
        BY <1>1, <1>2, <1>9 DEF MovedInv
  <2>2. CASE L = 1
    <3>1. n = Root
          BY <1>5, <2>2
    <3>2. DOMAIN N = {Root} /\ Waiting(P, frames, N) = {}
      <4>1. Len(frames) = 1 /\ \A m \in DOMAIN N \ {Root} : N[m].parent # Root
            BY <1>6, <2>2, <3>1
      <4> HIDE DEF N, V, L
      <4> QED BY <1>5, <2>1, <4>1, BranchesEnd
    <3>3. DOMAIN other'.nodes = {Root}
      <4>1. DOMAIN M = DOMAIN N \ ({n} \ {Root})
            BY <1>5
      <4> HIDE DEF M, N, n
      <4> QED BY <1>3, <3>1, <3>2, <4>1
    <3>4. Added({}, nodes', appends', weights', other'.weights, base')
      <4>1. Waiting(P, frames, N) \cup Passing = {}
            BY <1>7, <3>2
      <4> HIDE DEF M, N, V
      <4> QED BY <1>1, <1>3, <2>1, <4>1, Zenon
    <3>5. MergedInv'
          BY <3>3, <3>4 DEF MergedInv
    <3> QED BY <1>1, <1>4, <2>2, <3>5 DEF WInv, MovedInv
  <2>3. CASE L # 1
    <3>1. phase' = "merge" /\ L \in Nat \ {0, 1} /\ Len(frames) = L
          BY <1>1, <1>5, <2>3
    <3> DEFINE gr == Front(frames)
    <3>2. Len(gr) = L - 1 /\ \A f \in 1 .. L - 1 : gr[f] = frames[f]
      <4>1. L - 1 \in 0 .. L
            BY <1>5
      <4>2. PICK last : last = L - 1
            OBVIOUS
      <4>3. Len(frames) = L /\ frames \in Seq(FrameType) /\ last \in 0 .. Len(frames)
            BY <1>5, <4>1, <4>2
      <4>4. /\ Len(SubSeq(frames, 1, last)) = last
            /\ \A f \in 1 .. last : SubSeq(frames, 1, last)[f] = frames[f]
            BY <4>3, PrefixOf
      <4> QED BY <4>2, <4>3, <4>4 DEF Front
    <3>3. n # Root
      <4>1. 1 \in 1 .. L
            BY <1>5
      <4> HIDE DEF L
      <4> QED BY <1>5, <2>3, <4>1
    <3>4. DOMAIN M = DOMAIN N \ {n} /\ \A m \in DOMAIN N \ {n} : M[m] = N[m]
      <4>1. {Top.node} \ {Root} = {n}
            BY <1>5, <3>3
      <4> QED BY <4>1
    <3>5. Branches(P, gr, M, V) /\ Waiting(P, gr, M) = Waiting(P, frames, N)
      <4>1. n = frames[L].node /\ (frames[L].tried \/ N[n].hit = 0)
            BY <1>6
      <4>2. Returned(frames, gr, L, n, N, M)
            BY <1>6, <3>2, <3>4 DEF Returned
      <4>3. /\ Branches(P, frames, N, V) /\ frames[1].node = Root
            /\ \A f, g \in 1 .. L : frames[f].node = frames[g].node => f = g
            /\ \A f \in 1 .. L : frames[f].node \in DOMAIN N
            BY <1>5, <2>1
      <4> HIDE DEF M, N, V, L, gr, n
      <4> QED BY <3>1, <4>1, <4>2, <4>3, BranchesReturn
    <3>6. Branches(P, frames', other'.nodes, other'.weights)
      <4> HIDE DEF M, V
      <4> QED BY <1>1, <1>3, <3>5
    <3>7. Added(Waiting(P, frames', other'.nodes) \cup Passing',
                nodes', appends', weights', other'.weights, base')
      <4>1. Waiting(P, frames', other'.nodes) = Waiting(P, frames, N)
        <5> HIDE DEF M, N, V
        <5> QED BY <1>1, <1>3, <3>5
      <4> HIDE DEF N, V
      <4> QED BY <1>1, <1>3, <1>7, <2>1, <4>1, Zenon
    <3>8. MovedInv'
          BY <1>7, <3>6, <3>7 DEF MovedInv
    <3> QED BY <1>4, <3>1, <3>8 DEF WInv, MergedInv
  <2> QED BY <2>2, <2>3
<1> QED BY <1>8, <1>9

(* The empty trees tell that nothing was appended.                         *)
LEMMA InitWeights ==
  ASSUME BackendInit
  PROVE  WInv
<1>1. /\ Init /\ phase = "idle" /\ weights = appends
      /\ other.nodes = nodes /\ other.appends = appends
      /\ other.weights = appends
      BY DEF BackendInit
<1>2. appends = [c \in Chains |-> 0]
      BY <1>1 DEF Init
<1>3. \A s : CountIn(nodes, s) = 0 /\ HitIn(nodes, s) = 0
      BY <1>1, InitStep
<1>4. Tells(nodes, appends, weights)
      BY <1>1, <1>2, <1>3 DEF Tells
<1>5. TellsInv
      BY <1>1, <1>2, <1>4 DEF TellsInv
<1> QED BY <1>1, <1>5 DEF WInv, MovedInv, MergedInv

(* Nothing changes.                                                        *)
LEMMA StutterWeights ==
  ASSUME WInv, UNCHANGED allvars
  PROVE  WInv'
<1>1. /\ nodes' = nodes /\ pc' = pc /\ chain' = chain /\ period' = period
      /\ appends' = appends /\ failures' = failures /\ other' = other
      /\ phase' = phase /\ frames' = frames /\ weights' = weights
      /\ base' = base
      BY DEF allvars, vars, backend
<1>2. TellsInv'
      BY <1>1 DEF WInv, TellsInv
<1>3. Passing' = Passing /\ Top' = Top
      BY <1>1 DEF Passing, Top
<1>4. MovedInv'
      BY <1>1, <1>3 DEF WInv, MovedInv, Moving
<1>5. MergedInv'
      BY <1>1 DEF WInv, MergedInv
<1> QED BY <1>2, <1>4, <1>5 DEF WInv

(* What the two trees tell is what was appended to them, and a merge moves *)
(* the weights from one to the other, each once.                           *)
THEOREM WInvAlways == BackendSpec => []WInv
<1>1. BackendInit => WInv
      BY InitWeights
<1>2. BInv /\ WInv /\ [BackendNext]_allvars => WInv'
  <2> SUFFICES ASSUME BInv, WInv, [BackendNext]_allvars
               PROVE  WInv'
      OBVIOUS
  <2>1. CASE \E s \in Inputs : Insert(s)
        BY <2>1, InsertWeights DEF Insert, vars
  <2>2. CASE Switch
        BY <2>2, SwitchWeights
  <2>3. CASE Merge
        BY <2>3, MergeBeginsWeights
  <2>4. CASE FillEntry
        BY <2>4, InsertWeights DEF FillEntry
  <2>5. CASE FillNothing
        BY <2>5, InsertWeights DEF FillNothing, Filled, vars
  <2>6. CASE \E p \in Periods : FillEnd(p)
        BY <2>6, InsertWeights DEF FillEnd, Filled, Start
  <2>7. CASE AppendStep
        BY <2>7, AppendWeights
  <2>8. CASE MergeEntry
        BY <2>8, MergeEntryWeights
  <2>9. CASE MergeAppend
        BY <2>9, MergeAppendWeights
  <2>10. CASE MergeAppendNothing
        BY <2>10, MergeAppendNothingWeights
  <2>11. CASE MergeStep
        BY <2>11, MergeStepWeights
  <2>12. CASE MergeAppended
        BY <2>12, MergeAppendedWeights
  <2>13. CASE MergeChild
        BY <2>13, MergeChildWeights
  <2>14. CASE MergeReturn
        BY <2>14, MergeReturnWeights
  <2>15. CASE UNCHANGED allvars
        BY <2>15, StutterWeights
  <2> QED BY <2>1, <2>2, <2>3, <2>4, <2>5, <2>6, <2>7, <2>8, <2>9, <2>10, <2>11,
             <2>12, <2>13, <2>14, <2>15
          DEF BackendNext, Running
<1> QED BY <1>1, <1>2, BInvAlways, PTL DEF BackendSpec

(* What callchain_merge() leaves when no allocation failed: an empty other *)
(* tree, and for every callchain the weights that it had in the two trees, *)
(* with one more sighting if it had a weight in the other one.             *)
THEOREM MergeKeepsWeights == BackendSpec => []MergeAddsWeights
<1>1. WInv => MergeAddsWeights
  <2> SUFFICES ASSUME WInv, phase = "merged", failures = 0
               PROVE  /\ DOMAIN other.nodes = {Root}
                      /\ \A s \in Chains :
                           /\ HitAt(s) = weights[s] + other.weights[s]
                           /\ CountAt(s) =
                                base[s] + (IF other.weights[s] = 0 THEN 0 ELSE 1)
      BY DEF MergeAddsWeights
  <2>1. /\ DOMAIN other.nodes = {Root}
        /\ Added({}, nodes, appends, weights, other.weights, base)
        BY DEF WInv, MergedInv
  <2>2. \A s : HitAt(s) = HitIn(nodes, s) /\ CountAt(s) = CountIn(nodes, s)
        BY PathOfIsPathIn DEF HitAt, CountAt, HitIn, CountIn
  <2> QED BY <2>1, <2>2 DEF Added
<1> QED BY <1>1, WInvAlways, PTL
=============================================================================
