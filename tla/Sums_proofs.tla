---------------------------- MODULE Sums_proofs ----------------------------
(***************************************************************************)
(* What a sum over a finite set is.  SumFunction adds the values of a      *)
(* function in an order nobody knows; the lemmas say that the order does   *)
(* not matter, what a change of one value does to the sum, and how the     *)
(* sums of two functions compare.                                          *)
(***************************************************************************)
EXTENDS Integers, FiniteSetsExt, Functions, FiniteSetTheorems, WellFoundedInduction, TLAPS

(* A set of numbers that has 0, and with a number the next, has them all.  *)
LEMMA CountUp ==
  ASSUME NEW T, 0 \in T, \A n \in Nat : n \in T => n + 1 \in T
  PROVE  Nat \subseteq T
<1> DEFINE Bad == {n \in Nat : n \notin T}
<1>1. SUFFICES ASSUME Bad # {} PROVE FALSE
  OBVIOUS
<1>2. PICK n \in Bad : \A m \in Bad : ~ (<<m, n>> \in OpToRel(<, Nat))
  <2>1. Bad \subseteq Nat
    OBVIOUS
  <2> HIDE DEF Bad
  <2> QED BY <1>1, <2>1, NatLessThanWellFounded, WFMin
<1>3. n \in Nat /\ n # 0 /\ n - 1 \in Nat /\ n - 1 < n
  OBVIOUS
<1>4. <<n - 1, n>> \in OpToRel(<, Nat)
  BY <1>3 DEF OpToRel
<1>5. n - 1 \in T
  BY <1>2, <1>3, <1>4
<1>6. (n - 1) + 1 \in T /\ (n - 1) + 1 = n
  BY <1>3, <1>5
<1> QED
  BY <1>6

(* Induction over the subsets of a finite set.                             *)
LEMMA SubsetInduction ==
  ASSUME NEW S, IsFiniteSet(S), NEW T,
         \A s \in SUBSET S : (\A x \in s : s \ {x} \in T) => s \in T
  PROVE  SUBSET S \subseteq T
<1> DEFINE Bad == {s \in SUBSET S : s \notin T}
<1>1. SUFFICES ASSUME Bad # {} PROVE FALSE
  OBVIOUS
<1>2. Bad \subseteq FiniteSubsetsOf(S)
  BY FS_Subset DEF FiniteSubsetsOf
<1>3. IsWellFoundedOn(StrictSubsetOrdering(S), FiniteSubsetsOf(S))
  BY FS_StrictSubsetOrderingWellFounded
<1>4. \E s \in Bad : \A t \in Bad : ~ (<<t, s>> \in StrictSubsetOrdering(S))
  <2> HIDE DEF Bad
  <2> QED BY <1>1, <1>2, <1>3, WFMin
<1>5. PICK s \in Bad : \A t \in Bad : ~ (<<t, s>> \in StrictSubsetOrdering(S))
  BY <1>4
<1>6. ASSUME NEW x \in s
      PROVE  s \ {x} \in T
  <2>1. s \ {x} \in SUBSET S /\ s \in SUBSET S /\ s \ {x} # s
    BY <1>6
  <2>2. <<s \ {x}, s>> \in StrictSubsetOrdering(S)
    BY <2>1 DEF StrictSubsetOrdering
  <2> QED BY <1>5, <2>1, <2>2
<1> QED
  BY <1>5, <1>6

(* An element of s; and the sum over s, given those of smaller sets.       *)
Picked(s) == CHOOSE x \in s : TRUE
SumStep(h, g, s) == IF s = {} THEN 0 ELSE h[Picked(s)] + g[s \ {Picked(s)}]
SumStepwise(h, S, g) == g = [s \in SUBSET S |-> SumStep(h, g, s)]

(* What is picked is there.                                                *)
LEMMA PickedIsIn ==
  ASSUME NEW s, s # {}
  PROVE  Picked(s) \in s
BY DEF Picked

(* The sums over the subsets exist, as one function.                       *)
LEMMA SumsExist ==
  ASSUME NEW S, IsFiniteSet(S), NEW h
  PROVE  \E g : SumStepwise(h, S, g)
<1> DEFINE Upto(n) == {s \in SUBSET S : Cardinality(s) <= n}
           Works(n, g) == g = [s \in Upto(n) |-> SumStep(h, g, s)]
           T == {t \in SUBSET S : \E g : Works(Cardinality(t), g)}
<1>1. \A s \in SUBSET S : IsFiniteSet(s) /\ Cardinality(s) \in Nat
  BY FS_Subset, FS_CardinalityType
<1>2. ASSUME NEW t \in SUBSET S, \A x \in t : t \ {x} \in T
      PROVE  t \in T
  <2>1. CASE t = {}
    <3> DEFINE g == [s \in Upto(0) |-> 0]
    <3>1. Upto(0) = {{}}
      BY <1>1, FS_EmptySet
    <3>2. g = [s \in Upto(0) |-> SumStep(h, g, s)]
      BY <3>1 DEF SumStep
    <3>3. Cardinality(t) = 0
      BY <2>1, FS_EmptySet
    <3> HIDE DEF g
    <3> QED BY <3>2, <3>3
  <2>2. CASE t # {}
    <3> DEFINE n == Cardinality(t)
    <3>1. n \in Nat /\ n # 0 /\ Cardinality(t \ {Picked(t)}) = n - 1 /\ Picked(t) \in t
      BY <1>1, <2>2, PickedIsIn, FS_EmptySet, FS_RemoveElement
    <3>2. PICK g : Works(n - 1, g)
      <4>1. t \ {Picked(t)} \in T
        BY <1>2, <3>1
      <4>2. \E g : Works(Cardinality(t \ {Picked(t)}), g)
        BY <4>1
      <4> QED BY <3>1, <4>2
    <3> DEFINE f == [s \in Upto(n) |-> SumStep(h, g, s)]
    <3>3. ASSUME NEW s \in Upto(n)
          PROVE  SumStep(h, g, s) = SumStep(h, f, s)
      <4>1. CASE s = {}
        BY <4>1 DEF SumStep
      <4>2. CASE s # {}
        <5> DEFINE r == s \ {Picked(s)}
        <5>1. Cardinality(r) = Cardinality(s) - 1 /\ r \in SUBSET S
          BY <1>1, <4>2, PickedIsIn, FS_RemoveElement
        <5>2. r \in Upto(n - 1) /\ r \in Upto(n)
          BY <1>1, <3>1, <5>1
        <5>3. g[r] = SumStep(h, g, r)
          BY <3>2, <5>2
        <5>4. f[r] = SumStep(h, g, r)
          BY <5>2
        <5> QED BY <4>2, <5>3, <5>4 DEF SumStep
      <4> QED BY <4>1, <4>2
    <3>4. f = [s \in Upto(n) |-> SumStep(h, f, s)]
      BY <3>3
    <3> HIDE DEF f
    <3> QED BY <3>4
  <2> QED BY <2>1, <2>2
<1>3. SUBSET S \subseteq T
  <2> HIDE DEF T
  <2> QED BY <1>2, SubsetInduction
<1>4. PICK g : Works(Cardinality(S), g)
  BY <1>3
<1>5. Upto(Cardinality(S)) = SUBSET S
  BY <1>1, FS_Subset
<1> QED
  BY <1>4, <1>5 DEF SumStepwise

(* The sum of h over the subsets of S is a function whose value for a set  *)
(* is that without any of its elements, and that element's.                *)
Sums(h, S, g) ==
  /\ g \in [SUBSET S -> Int] /\ g[{}] = 0
  /\ \A s \in SUBSET S : \A x \in s : g[s] = h[x] + g[s \ {x}]

(* In whatever order the elements are picked.                              *)
LEMMA AnyOrder ==
  ASSUME NEW S, IsFiniteSet(S), NEW h \in [S -> Int], NEW g, SumStepwise(h, S, g)
  PROVE  Sums(h, S, g)
<1>1. \A s \in SUBSET S : g[s] = SumStep(h, g, s)
  BY DEF SumStepwise
<1>0. g = [s \in SUBSET S |-> g[s]]
  BY DEF SumStepwise
<1> DEFINE N == {s \in SUBSET S : g[s] \in Int}
           T == {s \in SUBSET S : \A x \in s : g[s] = h[x] + g[s \ {x}]}
<1>2. ASSUME NEW s \in SUBSET S, \A x \in s : s \ {x} \in N
      PROVE  s \in N
  <2>1. CASE s = {}
    <3>1. g[s] = SumStep(h, g, s)
      BY <1>1
    <3>2. SumStep(h, g, s) = 0
      BY <2>1 DEF SumStep
    <3> QED BY <3>1, <3>2
  <2>2. CASE s # {}
    <3>1. PICK c \in s : g[s] = h[c] + g[s \ {c}]
      BY <1>1, <2>2, PickedIsIn DEF SumStep
    <3>2. g[s \ {c}] \in Int /\ h[c] \in Int
      BY <1>2
    <3>3. g[s] \in Int
      BY <3>1, <3>2
    <3> QED BY <3>3
  <2> QED BY <2>1, <2>2
<1>3. SUBSET S \subseteq N
  <2> HIDE DEF N
  <2> QED BY <1>2, SubsetInduction
<1>4. ASSUME NEW s \in SUBSET S, \A x \in s : s \ {x} \in T
      PROVE  s \in T
  <2>1. SUFFICES ASSUME NEW x \in s PROVE g[s] = h[x] + g[s \ {x}]
    OBVIOUS
  <2>2. PICK c \in s : g[s] = h[c] + g[s \ {c}]
    BY <1>1, PickedIsIn DEF SumStep
  <2>3. CASE x # c
    <3> DEFINE r == (s \ {c}) \ {x}
    <3>1. r = (s \ {x}) \ {c}
      OBVIOUS
    <3>2. g[s \ {c}] = h[x] + g[r]
      BY <1>4, <2>3
    <3>3. x \in s /\ c \in s \ {x} /\ s \ {x} \in T
      BY <1>4, <2>3
    <3>4. g[s \ {x}] = h[c] + g[(s \ {x}) \ {c}]
      BY <3>3
    <3>5. g[r] \in Int /\ h[c] \in Int /\ h[x] \in Int
      BY <1>3
    <3> HIDE DEF r
    <3> QED BY <2>2, <3>1, <3>2, <3>4, <3>5
  <2> QED BY <2>2, <2>3
<1>5. SUBSET S \subseteq T
  <2> HIDE DEF T
  <2> QED BY <1>4, SubsetInduction
<1>6. g[{}] = 0
  BY <1>1 DEF SumStep
<1>7. g \in [SUBSET S -> Int]
  BY <1>0, <1>3
<1> QED
  BY <1>5, <1>6, <1>7 DEF Sums

(* SumFunction is such a sum.                                              *)
LEMMA SumFunctionIs ==
  ASSUME NEW S, IsFiniteSet(S), NEW h \in [S -> Int]
  PROVE  \E g : Sums(h, S, g) /\ SumFunction(h) = g[S]
<1>1. \E g : g = [s \in SUBSET S |-> IF s = {} THEN 0
                     ELSE h[CHOOSE x \in s : TRUE] + g[s \ {CHOOSE x \in s : TRUE}]]
  <2>1. PICK f : SumStepwise(h, S, f)
    BY SumsExist
  <2>2. f = [s \in SUBSET S |-> IF s = {} THEN 0
                     ELSE h[CHOOSE x \in s : TRUE] + f[s \ {CHOOSE x \in s : TRUE}]]
    BY <2>1 DEF SumStepwise, SumStep, Picked
  <2> QED BY <2>2
<1> DEFINE Iter == CHOOSE iter : iter = [s \in SUBSET S |-> IF s = {} THEN 0
                     ELSE h[CHOOSE x \in s : TRUE] + iter[s \ {CHOOSE x \in s : TRUE}]]
<1>2. SumFunction(h) = Iter[S]
  BY DEF SumFunction, SumFunctionOnSet, FoldFunctionOnSet, MapThenFoldSet
<1>3. Iter = [s \in SUBSET S |-> IF s = {} THEN 0
                     ELSE h[CHOOSE x \in s : TRUE] + Iter[s \ {CHOOSE x \in s : TRUE}]]
  BY <1>1
<1> HIDE DEF Iter
<1>4. SumStepwise(h, S, Iter)
  BY <1>3 DEF SumStepwise, SumStep, Picked
<1>5. Sums(h, S, Iter)
  BY <1>4, AnyOrder
<1> QED
  BY <1>2, <1>5

(* A sum is a number.                                                      *)
LEMMA SumIsNumber ==
  ASSUME NEW S, IsFiniteSet(S), NEW h \in [S -> Int]
  PROVE  SumFunction(h) \in Int
<1>1. PICK g : Sums(h, S, g) /\ SumFunction(h) = g[S]
  BY SumFunctionIs
<1> QED
  BY <1>1 DEF Sums

(* The sums of two functions that agree on S but for x.                    *)
LEMMA SumChange ==
  ASSUME NEW S, IsFiniteSet(S), NEW h \in [S -> Int], NEW k \in [S -> Int], NEW x \in S,
         \A y \in S \ {x} : h[y] = k[y]
  PROVE  SumFunction(k) = SumFunction(h) - h[x] + k[x]
<1>1. PICK f : Sums(h, S, f) /\ SumFunction(h) = f[S]
  BY SumFunctionIs
<1>2. PICK g : Sums(k, S, g) /\ SumFunction(k) = g[S]
  BY SumFunctionIs
<1> DEFINE R == S \ {x}
           T == {s \in SUBSET R : f[s] = g[s]}
<1>3. ASSUME NEW s \in SUBSET R, \A y \in s : s \ {y} \in T
      PROVE  s \in T
  <2>1. CASE s = {}
    BY <1>1, <1>2, <2>1 DEF Sums
  <2>2. CASE s # {}
    <3>1. PICK y \in s : TRUE
      BY <2>2
    <3>2. f[s] = h[y] + f[s \ {y}] /\ g[s] = k[y] + g[s \ {y}]
      BY <1>1, <1>2 DEF Sums
    <3>3. f[s \ {y}] = g[s \ {y}] /\ h[y] = k[y]
      BY <1>3
    <3> QED BY <3>2, <3>3
  <2> QED BY <2>1, <2>2
<1>4. IsFiniteSet(R)
  BY FS_RemoveElement
<1>5. SUBSET R \subseteq T
  <2> HIDE DEF T, R
  <2> QED BY <1>3, <1>4, SubsetInduction
<1>6. f[R] = g[R] /\ f[R] \in Int
  BY <1>1, <1>5 DEF Sums
<1>7. f[S] = h[x] + f[R] /\ g[S] = k[x] + g[R]
  BY <1>1, <1>2 DEF Sums
<1>8. h[x] \in Int /\ k[x] \in Int
  OBVIOUS
<1> HIDE DEF R
<1> QED
  BY <1>1, <1>2, <1>6, <1>7, <1>8

(* The sum of pointwise sums.                                              *)
LEMMA SumAdds ==
  ASSUME NEW S, IsFiniteSet(S), NEW h \in [S -> Int], NEW k \in [S -> Int], NEW m \in [S -> Int],
         \A x \in S : m[x] = h[x] + k[x]
  PROVE  SumFunction(m) = SumFunction(h) + SumFunction(k)
<1>1. PICK f : Sums(h, S, f) /\ SumFunction(h) = f[S]
  BY SumFunctionIs
<1>2. PICK g : Sums(k, S, g) /\ SumFunction(k) = g[S]
  BY SumFunctionIs
<1>3. PICK e : Sums(m, S, e) /\ SumFunction(m) = e[S]
  BY SumFunctionIs
<1> DEFINE T == {s \in SUBSET S : e[s] = f[s] + g[s]}
<1>4. ASSUME NEW s \in SUBSET S, \A y \in s : s \ {y} \in T
      PROVE  s \in T
  <2>1. CASE s = {}
    BY <1>1, <1>2, <1>3, <2>1 DEF Sums
  <2>2. CASE s # {}
    <3>1. PICK y \in s : TRUE
      BY <2>2
    <3>2. /\ f[s] = h[y] + f[s \ {y}] /\ g[s] = k[y] + g[s \ {y}]
          /\ e[s] = m[y] + e[s \ {y}]
      BY <1>1, <1>2, <1>3 DEF Sums
    <3>3. e[s \ {y}] = f[s \ {y}] + g[s \ {y}] /\ m[y] = h[y] + k[y]
      BY <1>4
    <3>4. f[s \ {y}] \in Int /\ g[s \ {y}] \in Int /\ h[y] \in Int /\ k[y] \in Int
      BY <1>1, <1>2 DEF Sums
    <3>5. e[s] = f[s] + g[s]
      BY <3>2, <3>3, <3>4
    <3> QED BY <3>5
  <2> QED BY <2>1, <2>2
<1>5. SUBSET S \subseteq T
  <2> HIDE DEF T
  <2> QED BY <1>4, SubsetInduction
<1> QED
  BY <1>1, <1>2, <1>3, <1>5

(* The sum of what is nowhere larger is not larger.                        *)
LEMMA SumGrows ==
  ASSUME NEW S, IsFiniteSet(S), NEW h \in [S -> Int], NEW k \in [S -> Int],
         \A x \in S : h[x] <= k[x]
  PROVE  SumFunction(h) <= SumFunction(k)
<1>1. PICK f : Sums(h, S, f) /\ SumFunction(h) = f[S]
  BY SumFunctionIs
<1>2. PICK g : Sums(k, S, g) /\ SumFunction(k) = g[S]
  BY SumFunctionIs
<1> DEFINE T == {s \in SUBSET S : f[s] <= g[s]}
<1>3. ASSUME NEW s \in SUBSET S, \A y \in s : s \ {y} \in T
      PROVE  s \in T
  <2>1. CASE s = {}
    BY <1>1, <1>2, <2>1 DEF Sums
  <2>2. CASE s # {}
    <3>1. PICK y \in s : TRUE
      BY <2>2
    <3>2. f[s] = h[y] + f[s \ {y}] /\ g[s] = k[y] + g[s \ {y}]
      BY <1>1, <1>2 DEF Sums
    <3>3. f[s \ {y}] <= g[s \ {y}] /\ h[y] <= k[y]
      BY <1>3
    <3>4. f[s \ {y}] \in Int /\ g[s \ {y}] \in Int /\ h[y] \in Int /\ k[y] \in Int
      BY <1>1, <1>2 DEF Sums
    <3>5. f[s] <= g[s]
      BY <3>2, <3>3, <3>4
    <3> QED BY <3>5
  <2> QED BY <2>1, <2>2
<1>4. SUBSET S \subseteq T
  <2> HIDE DEF T
  <2> QED BY <1>3, SubsetInduction
<1> QED
  BY <1>1, <1>2, <1>4

(* The sum of nothing but zeros.                                           *)
LEMMA SumOfZeros ==
  ASSUME NEW S, IsFiniteSet(S), NEW h \in [S -> Int], \A x \in S : h[x] = 0
  PROVE  SumFunction(h) = 0
<1>1. SumFunction(h) = SumFunction(h) + SumFunction(h) /\ SumFunction(h) \in Int
  <2>1. \A x \in S : h[x] = h[x] + h[x]
    OBVIOUS
  <2> QED BY <2>1, SumAdds, SumIsNumber
<1>2. \A n \in Int : n = n + n => n = 0
  OBVIOUS
<1> QED
  BY <1>1, <1>2

(* The sum over S is that over S without x, and the value of x.            *)
Splits(S, h, x, k) ==
  /\ x \in S /\ h \in [S -> Int] /\ k \in [S \ {x} -> Int]
  /\ \A y \in S \ {x} : h[y] = k[y]
LEMMA SumWithout ==
  ASSUME NEW S, IsFiniteSet(S), NEW h, NEW x, NEW k, Splits(S, h, x, k)
  PROVE  SumFunction(h) = h[x] + SumFunction(k)
<1>0. /\ x \in S /\ h \in [S -> Int] /\ k \in [S \ {x} -> Int]
      /\ \A y \in S \ {x} : h[y] = k[y]
  BY DEF Splits
<1> DEFINE R == S \ {x}
<1>1. IsFiniteSet(R)
  BY <1>0, FS_RemoveElement
<1>2. PICK f : Sums(h, S, f) /\ SumFunction(h) = f[S]
  BY <1>0, SumFunctionIs
<1>3. PICK g : Sums(k, R, g) /\ SumFunction(k) = g[R]
  BY <1>0, <1>1, SumFunctionIs
<1> DEFINE T == {s \in SUBSET R : f[s] = g[s]}
<1>4. ASSUME NEW s \in SUBSET R, \A y \in s : s \ {y} \in T
      PROVE  s \in T
  <2>1. CASE s = {}
    BY <1>2, <1>3, <2>1 DEF Sums
  <2>2. CASE s # {}
    <3>1. PICK y \in s : TRUE
      BY <2>2
    <3>2. f[s] = h[y] + f[s \ {y}] /\ g[s] = k[y] + g[s \ {y}]
      BY <1>0, <1>2, <1>3 DEF Sums
    <3>3. f[s \ {y}] = g[s \ {y}] /\ h[y] = k[y]
      BY <1>0, <1>4
    <3> QED BY <3>2, <3>3
  <2> QED BY <2>1, <2>2
<1>5. SUBSET R \subseteq T
  <2> HIDE DEF T, R
  <2> QED BY <1>4, <1>1, SubsetInduction
<1>6. f[R] = g[R]
  BY <1>5
<1>7. f[S] = h[x] + f[R]
  BY <1>0, <1>2 DEF Sums
<1> QED
  BY <1>2, <1>3, <1>6, <1>7

(* The sum of what is never negative is not negative.                      *)
LEMMA SumIsNat ==
  ASSUME NEW S, IsFiniteSet(S), NEW h \in [S -> Nat]
  PROVE  SumFunction(h) \in Nat
<1> DEFINE z == [x \in S |-> 0]
<1>1. z \in [S -> Int] /\ h \in [S -> Int] /\ \A x \in S : z[x] = 0 /\ z[x] <= h[x]
  OBVIOUS
<1> HIDE DEF z
<1>2. SumFunction(z) = 0 /\ SumFunction(z) <= SumFunction(h) /\ SumFunction(h) \in Int
  BY <1>1, SumOfZeros, SumGrows, SumIsNumber
<1> QED BY <1>2

(* What is added up kind by kind adds up to the whole.                     *)
OfKind(s, kind, h, c) == [x \in s |-> IF kind[x] = c THEN h[x] ELSE 0]
ByKind(s, kind, h, C) == [c \in C |-> SumFunction(OfKind(s, kind, h, c))]
LEMMA SumByKind ==
  ASSUME NEW S, IsFiniteSet(S), NEW C, IsFiniteSet(C), NEW kind \in [S -> C], NEW h \in [S -> Int]
  PROVE  SumFunction(ByKind(S, kind, h, C)) = SumFunction(h)
<1> DEFINE T == {s \in SUBSET S : SumFunction(ByKind(s, kind, h, C)) = SumFunction([x \in s |-> h[x]])}
<1>1. ASSUME NEW s \in SUBSET S
      PROVE  /\ IsFiniteSet(s) /\ [x \in s |-> h[x]] \in [s -> Int]
             /\ \A c : OfKind(s, kind, h, c) \in [s -> Int] /\ SumFunction(OfKind(s, kind, h, c)) \in Int
             /\ ByKind(s, kind, h, C) \in [C -> Int]
  <2>1. IsFiniteSet(s)
    BY FS_Subset
  <2>2. \A c : OfKind(s, kind, h, c) \in [s -> Int]
    BY DEF OfKind
  <2>3. \A c : SumFunction(OfKind(s, kind, h, c)) \in Int
    BY <2>1, <2>2, SumIsNumber
  <2> QED BY <2>1, <2>2, <2>3 DEF ByKind
<1>2. ASSUME NEW s \in SUBSET S, \A y \in s : s \ {y} \in T
      PROVE  s \in T
  <2>1. CASE s = {}
    <3>1. \A c \in C : SumFunction(OfKind(s, kind, h, c)) = 0
      <4>1. \A c : OfKind(s, kind, h, c) \in [s -> Int] /\ \A x \in s : OfKind(s, kind, h, c)[x] = 0
        BY <1>1, <2>1
      <4> QED BY <1>1, <4>1, SumOfZeros
    <3>2. ByKind(s, kind, h, C) \in [C -> Int] /\ \A c \in C : ByKind(s, kind, h, C)[c] = 0
      BY <1>1, <3>1 DEF ByKind
    <3>3. SumFunction(ByKind(s, kind, h, C)) = 0
      BY <3>2, SumOfZeros
    <3> DEFINE k == [x \in s |-> h[x]]
    <3>4. k \in [s -> Int] /\ \A x \in s : k[x] = 0
      BY <1>1, <2>1
    <3> HIDE DEF k
    <3>5. SumFunction(k) = 0
      BY <1>1, <3>4, SumOfZeros
    <3> QED BY <3>3, <3>5 DEF k
  <2>2. CASE s # {}
    <3>1. PICK y \in s : TRUE
      BY <2>2
    <3> DEFINE r == s \ {y}
               k == [x \in s |-> h[x]]
               l == [x \in r |-> h[x]]
               z == [c \in C |-> 0]
               o == [c \in C |-> IF kind[y] = c THEN h[y] ELSE 0]
    <3>2. r \in SUBSET S /\ r \in T
      BY <1>2
    <3>3. SumFunction(k) = h[y] + SumFunction(l)
      <4>1. Splits(s, k, y, l) /\ IsFiniteSet(s) /\ k[y] = h[y]
        BY <1>1, <3>2 DEF Splits
      <4> HIDE DEF k, l
      <4> QED BY <4>1, SumWithout
    <3>4. ASSUME NEW c \in C
          PROVE  SumFunction(OfKind(s, kind, h, c)) = o[c] + SumFunction(OfKind(r, kind, h, c))
      <4>1. PICK a, b : a = OfKind(s, kind, h, c) /\ b = OfKind(r, kind, h, c)
        OBVIOUS
      <4>2. a \in [s -> Int] /\ b \in [s \ {y} -> Int] /\ IsFiniteSet(s)
        BY <1>1, <3>2, <4>1
      <4>3. a[y] = o[c] /\ \A x \in s \ {y} : a[x] = b[x]
        BY <4>1 DEF OfKind
      <4>4. SumFunction(a) = a[y] + SumFunction(b)
        <5> HIDE DEF o
        <5>1. Splits(s, a, y, b)
          BY <4>2, <4>3 DEF Splits
        <5> QED BY <4>2, <5>1, SumWithout
      <4> QED BY <4>1, <4>3, <4>4
    <3>5. SumFunction(o) = h[y]
      <4>1. z \in [C -> Int] /\ o \in [C -> Int] /\ (\A c \in C : z[c] = 0) /\ kind[y] \in C
            /\ o[kind[y]] = h[y] /\ (\A c \in C \ {kind[y]} : z[c] = o[c])
        OBVIOUS
      <4> HIDE DEF z, o
      <4>2. SumFunction(z) = 0
        BY <4>1, SumOfZeros
      <4>3. SumFunction(o) = SumFunction(z) - z[kind[y]] + o[kind[y]]
        BY <4>1, SumChange
      <4>4. h[y] \in Int /\ z[kind[y]] = 0
        BY <4>1
      <4> QED BY <4>1, <4>2, <4>3, <4>4
    <3>6. SumFunction(ByKind(s, kind, h, C)) = SumFunction(o) + SumFunction(ByKind(r, kind, h, C))
      <4>1. PICK a, b : a = ByKind(s, kind, h, C) /\ b = ByKind(r, kind, h, C)
        OBVIOUS
      <4>2. a \in [C -> Int] /\ b \in [C -> Int] /\ o \in [C -> Int]
        BY <1>1, <3>2, <4>1
      <4>3. \A c \in C : a[c] = o[c] + b[c]
        <5> HIDE DEF o
        <5> QED BY <3>4, <4>1 DEF ByKind
      <4> HIDE DEF o
      <4>4. SumFunction(a) = SumFunction(o) + SumFunction(b)
        BY <4>2, <4>3, SumAdds
      <4> QED BY <4>1, <4>4
    <3>7. SumFunction(ByKind(r, kind, h, C)) = SumFunction(l)
      BY <3>2
    <3> HIDE DEF r, k, l, o
    <3>8. SumFunction(ByKind(s, kind, h, C)) = SumFunction(k)
      BY <3>3, <3>5, <3>6, <3>7
    <3> QED BY <3>8 DEF k
  <2> QED BY <2>1, <2>2
<1>3. SUBSET S \subseteq T
  <2> HIDE DEF T
  <2> QED BY <1>2, SubsetInduction
<1>4. S \in T /\ [x \in S |-> h[x]] = h
  BY <1>3
<1> QED BY <1>4
=============================================================================
