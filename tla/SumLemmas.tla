----------------------------- MODULE SumLemmas -----------------------------
(***************************************************************************)
(* Induction over the natural numbers, stated for a set instead of a       *)
(* predicate, and what follows from it for SumFunction() of the module     *)
(* Functions: it is well defined over finite sets, and does not depend on  *)
(* the order in which the elements are chosen.                             *)
(***************************************************************************)
EXTENDS FiniteSetTheorems, TLAPS

(* Every set of natural numbers that has a member has a least one.         *)
LEMMA LeastNatural ==
  ASSUME NEW T \in SUBSET Nat, T # {}
  PROVE  \E n \in T : \A m \in T : n <= m
<1>1. \E n \in T : \A m \in T : ~ (<<m, n>> \in OpToRel(<, Nat))
      BY NatLessThanWellFounded, WFMin
<1>2. PICK n \in T : \A m \in T : ~ (<<m, n>> \in OpToRel(<, Nat))
      BY <1>1
<1>3. \A m \in T : ~ (m < n)
      BY <1>2 DEF OpToRel
<1> QED BY <1>3

(* Induction: a set that has 0, and n + 1 with every n, has all.           *)
LEMMA NatSetInduction ==
  ASSUME NEW T, 0 \in T, \A n \in Nat : n \in T => n + 1 \in T
  PROVE  \A n \in Nat : n \in T
<1> DEFINE Missing == {n \in Nat : n \notin T}
<1> SUFFICES ASSUME Missing # {} PROVE FALSE
    OBVIOUS
<1>1. PICK n \in Missing : \A m \in Missing : n <= m
      BY LeastNatural
<1>2. n # 0 /\ n \in Nat
      OBVIOUS
<1>3. n - 1 \in Nat /\ n - 1 \notin Missing
      BY <1>1, <1>2
<1> QED BY <1>1, <1>2, <1>3

(* Induction over the finite sets by their cardinality.                    *)
LEMMA CardinalityInduction ==
  ASSUME NEW S, IsFiniteSet(S), NEW Good,
         \A s \in SUBSET S :
           (\A t \in SUBSET S : Cardinality(t) < Cardinality(s) => t \in Good)
             => s \in Good
  PROVE  \A s \in SUBSET S : s \in Good
<1> DEFINE Bad == {s \in SUBSET S : s \notin Good}
           Sizes == {Cardinality(s) : s \in Bad}
<1> SUFFICES ASSUME Bad # {} PROVE FALSE
    OBVIOUS
<1>1. \A s \in SUBSET S : Cardinality(s) \in Nat
      BY FS_Subset, FS_CardinalityType
<1>2. Sizes \in SUBSET Nat /\ Sizes # {}
      BY <1>1
<1>3. PICK n \in Sizes : \A m \in Sizes : n <= m
      BY <1>2, LeastNatural
<1>4. PICK s \in Bad : n = Cardinality(s)
      BY <1>3
<1>5. ASSUME NEW t \in SUBSET S, Cardinality(t) < Cardinality(s)
      PROVE  t \in Good
  <2> SUFFICES ASSUME t \in Bad PROVE FALSE
      OBVIOUS
  <2>1. Cardinality(s) <= Cardinality(t)
        BY <1>3, <1>4
  <2> QED BY <1>1, <1>5, <2>1
<1> QED BY <1>4, <1>5

-----------------------------------------------------------------------------
(* The recursion that SumFunctionOnSet() stands for.                       *)

Chosen(s) == CHOOSE x \in s : TRUE

IsSumOf(iter, fun, S) ==
  iter = [s \in SUBSET S |->
            IF s = {} THEN 0 ELSE fun[Chosen(s)] + iter[s \ {Chosen(s)}]]

(* One choice takes one element away.                                      *)
LEMMA ChosenSmaller ==
  ASSUME NEW s, IsFiniteSet(s), s # {}
  PROVE  /\ Chosen(s) \in s
         /\ IsFiniteSet(s \ {Chosen(s)})
         /\ Cardinality(s \ {Chosen(s)}) = Cardinality(s) - 1
         /\ Cardinality(s) \in Nat \ {0}
<1>1. Chosen(s) \in s
      BY DEF Chosen
<1>2. Cardinality(s) \in Nat /\ Cardinality(s) # 0
      BY FS_CardinalityType, FS_EmptySet
<1> QED BY <1>1, <1>2, FS_RemoveElement

(* The recursion has a solution over every finite set.                     *)
LEMMA SumExists ==
  ASSUME NEW S, IsFiniteSet(S), NEW fun
  PROVE  \E iter : IsSumOf(iter, fun, S)
<1> DEFINE Small(n) == {s \in SUBSET S : Cardinality(s) <= n}
           Sums(f, n) == f = [s \in Small(n) |->
             IF s = {} THEN 0 ELSE fun[Chosen(s)] + f[s \ {Chosen(s)}]]
           Good == {n \in Nat : \E f : Sums(f, n)}
<1>0. \A s \in SUBSET S : IsFiniteSet(s) /\ Cardinality(s) \in Nat
      BY FS_Subset, FS_CardinalityType
<1>1. 0 \in Good
  <2>1. \A s \in Small(0) : s = {}
        BY <1>0, FS_EmptySet
  <2>2. Sums([s \in Small(0) |-> 0], 0)
        BY <2>1
  <2> QED BY <2>2
<1>2. ASSUME NEW n \in Nat, n \in Good
      PROVE  n + 1 \in Good
  <2>1. PICK f : Sums(f, n)
        BY <1>2
  <2> DEFINE g == [s \in Small(n + 1) |->
               IF s = {} THEN 0 ELSE fun[Chosen(s)] + f[s \ {Chosen(s)}]]
  <2>2. \A s \in Small(n) : s \in Small(n + 1) /\ f[s] = g[s]
    <3>1. \A s \in Small(n) : s \in Small(n + 1)
          BY <1>0
    <3>2. \A s \in Small(n) : f[s] = IF s = {} THEN 0
                                     ELSE fun[Chosen(s)] + f[s \ {Chosen(s)}]
          BY <2>1
    <3> QED BY <3>1, <3>2
  <2>3. \A s \in Small(n + 1) : s # {} => s \ {Chosen(s)} \in Small(n)
        BY <1>0, ChosenSmaller
  <2>4. \A s \in Small(n + 1) :
          g[s] = IF s = {} THEN 0 ELSE fun[Chosen(s)] + g[s \ {Chosen(s)}]
        BY <2>2, <2>3
  <2> HIDE DEF g
  <2>5. g = [s \in Small(n + 1) |-> g[s]]
        BY DEF g
  <2>6. Sums(g, n + 1)
        BY <2>4, <2>5
  <2> HIDE DEF Sums
  <2>7. \E f_ : Sums(f_, n + 1)
        BY <2>6
  <2> QED BY <2>7
<1>3. Cardinality(S) \in Nat /\ Cardinality(S) \in Good
      BY <1>0, <1>1, <1>2, NatSetInduction
<1>4. \A s \in SUBSET S : Cardinality(s) <= Cardinality(S)
      BY FS_Subset
<1>5. Small(Cardinality(S)) = SUBSET S
      BY <1>4
<1> QED BY <1>3, <1>5 DEF IsSumOf

(* It has one only: solutions over different sets, of functions that       *)
(* agree, agree.                                                           *)
LEMMA SumUnique ==
  ASSUME NEW S, IsFiniteSet(S), NEW fun, NEW R, NEW gun,
         NEW f, IsSumOf(f, fun, S), NEW g, IsSumOf(g, gun, R),
         \A x \in S : x \in R => fun[x] = gun[x]
  PROVE  \A s \in SUBSET S : s \in SUBSET R => f[s] = g[s]
<1> DEFINE Good == {s \in SUBSET S : s \in SUBSET R => f[s] = g[s]}
<1>1. ASSUME NEW s \in SUBSET S,
             \A t \in SUBSET S : Cardinality(t) < Cardinality(s) => t \in Good
      PROVE  s \in Good
  <2> SUFFICES ASSUME s \in SUBSET R PROVE f[s] = g[s]
      OBVIOUS
  <2>1. /\ f[s] = IF s = {} THEN 0 ELSE fun[Chosen(s)] + f[s \ {Chosen(s)}]
        /\ g[s] = IF s = {} THEN 0 ELSE gun[Chosen(s)] + g[s \ {Chosen(s)}]
        BY DEF IsSumOf
  <2>2. CASE s = {}
        BY <2>1, <2>2
  <2>3. CASE s # {}
    <3>1. Chosen(s) \in S \cap R /\ s \ {Chosen(s)} \in Good
          BY <1>1, <2>3, FS_Subset, ChosenSmaller
    <3> QED BY <2>1, <2>3, <3>1
  <2> QED BY <2>2, <2>3
<1>2. \A s \in SUBSET S : s \in Good
      BY <1>1, CardinalityInduction
<1> QED BY <1>2

(* SumFunctionOnSet() is a sum in this sense.                              *)
LEMMA SumIsSum ==
  ASSUME NEW S, IsFiniteSet(S), NEW fun
  PROVE  \E iter : IsSumOf(iter, fun, S) /\ SumFunctionOnSet(fun, S) = iter[S]
<1> DEFINE iter == CHOOSE f : IsSumOf(f, fun, S)
<1>1. IsSumOf(iter, fun, S)
      BY SumExists
<1>2. SumFunctionOnSet(fun, S) = iter[S]
      BY DEF SumFunctionOnSet, FoldFunctionOnSet, MapThenFoldSet, IsSumOf, Chosen
<1> QED BY <1>1, <1>2

(* The empty sum.                                                          *)
LEMMA SumEmpty ==
  ASSUME NEW fun
  PROVE  SumFunctionOnSet(fun, {}) = 0
BY SumIsSum, FS_EmptySet DEF IsSumOf

(* A sum depends only on the values that are added.                        *)
LEMMA SumSame ==
  ASSUME NEW S, IsFiniteSet(S), NEW fun, NEW gun, \A x \in S : fun[x] = gun[x]
  PROVE  SumFunctionOnSet(fun, S) = SumFunctionOnSet(gun, S)
<1>1. PICK f : IsSumOf(f, fun, S) /\ SumFunctionOnSet(fun, S) = f[S]
      BY SumIsSum
<1>2. PICK g : IsSumOf(g, gun, S) /\ SumFunctionOnSet(gun, S) = g[S]
      BY SumIsSum
<1>3. \A s \in SUBSET S : f[s] = g[s]
      BY <1>1, <1>2, SumUnique
<1> QED BY <1>1, <1>2, <1>3

(* SumFunctionOnSet() adds one chosen element to the sum of the others.    *)
LEMMA SumStep ==
  ASSUME NEW S, IsFiniteSet(S), S # {}, NEW fun
  PROVE  SumFunctionOnSet(fun, S) =
           fun[Chosen(S)] + SumFunctionOnSet(fun, S \ {Chosen(S)})
<1> DEFINE R == S \ {Chosen(S)}
<1>1. IsFiniteSet(R) /\ R \in SUBSET S
      BY ChosenSmaller
<1>2. PICK f : IsSumOf(f, fun, S) /\ SumFunctionOnSet(fun, S) = f[S]
      BY SumIsSum
<1>3. PICK g : IsSumOf(g, fun, R) /\ SumFunctionOnSet(fun, R) = g[R]
      BY <1>1, SumIsSum
<1>4. f[R] = g[R]
  <2> HIDE DEF R
  <2>1. \A s \in SUBSET S : s \in SUBSET R => f[s] = g[s]
        BY <1>2, <1>3, SumUnique
  <2> QED BY <1>1, <2>1
<1>5. f[S] = fun[Chosen(S)] + f[R]
      BY <1>2 DEF IsSumOf
<1> QED BY <1>2, <1>3, <1>4, <1>5

(* A sum of natural numbers is one.                                        *)
LEMMA SumType ==
  ASSUME NEW S, IsFiniteSet(S), NEW fun, \A x \in S : fun[x] \in Nat
  PROVE  SumFunctionOnSet(fun, S) \in Nat
<1> DEFINE Good == {s \in SUBSET S : SumFunctionOnSet(fun, s) \in Nat}
<1>1. ASSUME NEW s \in SUBSET S,
             \A t \in SUBSET S : Cardinality(t) < Cardinality(s) => t \in Good
      PROVE  s \in Good
  <2>1. CASE s = {}
        BY <2>1, SumEmpty
  <2>2. CASE s # {}
    <3>1. /\ IsFiniteSet(s) /\ Chosen(s) \in S
          /\ s \ {Chosen(s)} \in Good
          BY <1>1, <2>2, FS_Subset, ChosenSmaller
    <3> QED BY <2>2, <3>1, SumStep
  <2> QED BY <2>1, <2>2
<1>2. \A s \in SUBSET S : s \in Good
      BY <1>1, CardinalityInduction
<1> QED BY <1>2

(* Any element can be taken out first.                                     *)
LEMMA SumRemove ==
  ASSUME NEW S, IsFiniteSet(S), NEW fun, \A x \in S : fun[x] \in Nat,
         NEW y \in S
  PROVE  SumFunctionOnSet(fun, S) = fun[y] + SumFunctionOnSet(fun, S \ {y})
<1> DEFINE Sum(s) == SumFunctionOnSet(fun, s)
           Good == {s \in SUBSET S : \A x \in s : Sum(s) = fun[x] + Sum(s \ {x})}
<1>1. ASSUME NEW s \in SUBSET S,
             \A t \in SUBSET S : Cardinality(t) < Cardinality(s) => t \in Good
      PROVE  s \in Good
  <2> SUFFICES ASSUME NEW x \in s
               PROVE  Sum(s) = fun[x] + Sum(s \ {x})
      OBVIOUS
  <2> DEFINE c == Chosen(s)
  <2>1. /\ IsFiniteSet(s) /\ c \in s
        /\ IsFiniteSet(s \ {c}) /\ IsFiniteSet(s \ {x})
        /\ IsFiniteSet((s \ {c}) \ {x})
        BY FS_Subset, ChosenSmaller
  <2>2. Sum(s) = fun[c] + Sum(s \ {c})
        BY <2>1, SumStep
  <2>3. CASE x = c
        BY <2>2, <2>3
  <2>4. CASE x # c
    <3>1. s \ {c} \in Good /\ s \ {x} \in Good
      <4>1. /\ Cardinality(s \ {c}) < Cardinality(s)
            /\ Cardinality(s \ {x}) < Cardinality(s)
            BY <2>1, FS_RemoveElement, FS_CardinalityType
      <4> QED BY <1>1, <4>1
    <3>2. (s \ {c}) \ {x} = (s \ {x}) \ {c}
          OBVIOUS
    <3>3. /\ Sum(s \ {c}) = fun[x] + Sum((s \ {c}) \ {x})
          /\ Sum(s \ {x}) = fun[c] + Sum((s \ {c}) \ {x})
          BY <2>1, <2>4, <3>1, <3>2
    <3>4. /\ fun[x] \in Nat /\ fun[c] \in Nat
          /\ Sum((s \ {c}) \ {x}) \in Nat
          BY <2>1, SumType
    <3> HIDE DEF Sum, c
    <3> QED BY <2>2, <3>3, <3>4
  <2> QED BY <2>3, <2>4
<1>2. \A s \in SUBSET S : s \in Good
      BY <1>1, CardinalityInduction
<1> QED BY <1>2

(* One value is changed.                                                   *)
LEMMA SumChange ==
  ASSUME NEW S, IsFiniteSet(S), NEW fun, \A x \in S : fun[x] \in Nat,
         NEW gun, NEW y \in S, gun[y] \in Nat,
         \A x \in S \ {y} : gun[x] = fun[x]
  PROVE  SumFunctionOnSet(gun, S) + fun[y] = SumFunctionOnSet(fun, S) + gun[y]
<1>1. IsFiniteSet(S \ {y})
      BY FS_RemoveElement
<1>2. SumFunctionOnSet(gun, S \ {y}) = SumFunctionOnSet(fun, S \ {y})
      BY <1>1, SumSame
<1>3. SumFunctionOnSet(fun, S) = fun[y] + SumFunctionOnSet(fun, S \ {y})
      BY SumRemove
<1>4. \A x \in S : gun[x] \in Nat
      OBVIOUS
<1>5. SumFunctionOnSet(gun, S) = gun[y] + SumFunctionOnSet(gun, S \ {y})
      BY <1>4, SumRemove
<1>6. SumFunctionOnSet(fun, S \ {y}) \in Nat
      BY <1>1, SumType
<1> QED BY <1>2, <1>3, <1>5, <1>6

(* One element is added.                                                   *)
LEMMA SumAdd ==
  ASSUME NEW S, IsFiniteSet(S), NEW fun, \A x \in S : fun[x] \in Nat,
         NEW gun, NEW y, y \notin S, gun[y] \in Nat,
         \A x \in S : gun[x] = fun[x],
         NEW T, T = S \cup {y}
  PROVE  SumFunctionOnSet(gun, T) = SumFunctionOnSet(fun, S) + gun[y]
<1>1. IsFiniteSet(T) /\ T \ {y} = S
      BY FS_AddElement
<1>2. \A x \in T : gun[x] \in Nat
      OBVIOUS
<1>3. SumFunctionOnSet(gun, T) = gun[y] + SumFunctionOnSet(gun, S)
      BY <1>1, <1>2, SumRemove
<1>4. SumFunctionOnSet(gun, S) = SumFunctionOnSet(fun, S)
      BY SumSame
<1>5. SumFunctionOnSet(fun, S) \in Nat
      BY SumType
<1> QED BY <1>3, <1>4, <1>5

(* The sum over one element.                                               *)
LEMMA SumSingle ==
  ASSUME NEW y, NEW fun, fun[y] \in Nat
  PROVE  SumFunctionOnSet(fun, {y}) = fun[y]
<1>1. SumFunctionOnSet(fun, {y}) = SumFunctionOnSet(fun, {}) + fun[y]
      BY {y} = {} \cup {y}, FS_EmptySet, SumAdd
<1> QED BY <1>1, SumEmpty

(* A sum of zeros.                                                         *)
LEMMA SumZero ==
  ASSUME NEW S, IsFiniteSet(S), NEW fun, \A x \in S : fun[x] = 0
  PROVE  SumFunctionOnSet(fun, S) = 0
<1> DEFINE Good == {s \in SUBSET S : SumFunctionOnSet(fun, s) = 0}
<1>1. ASSUME NEW s \in SUBSET S,
             \A t \in SUBSET S : Cardinality(t) < Cardinality(s) => t \in Good
      PROVE  s \in Good
  <2>1. CASE s = {}
        BY <2>1, SumEmpty
  <2>2. CASE s # {}
    <3>1. /\ IsFiniteSet(s) /\ Chosen(s) \in S
          /\ s \ {Chosen(s)} \in Good
          BY <1>1, <2>2, FS_Subset, ChosenSmaller
    <3> QED BY <2>2, <3>1, SumStep
  <2> QED BY <2>1, <2>2
<1>2. \A s \in SUBSET S : s \in Good
      BY <1>1, CardinalityInduction
<1> QED BY <1>2
=============================================================================
