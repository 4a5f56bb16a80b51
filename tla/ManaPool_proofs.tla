-------------------------- MODULE ManaPool_proofs --------------------------
(***************************************************************************)
(* Proofs about the mana pool, for any number of colours, any width of the *)
(* numbers, any costs and mana abilities, and any number of acts: that the *)
(* pool keeps to its width and owes nothing but for a kicker, that the     *)
(* icons show it, that what canAfford() answers about the card in hand is  *)
(* what the rules of the game say, and that a spell is paid for in full.   *)
(***************************************************************************)
EXTENDS ManaPool, Sums_proofs, SequenceTheorems, FiniteSetTheorems, TLAPS

Small == (-Half) .. (Half - 1)
Mana == [Colors -> Small]

-----------------------------------------------------------------------------
(* Numbers.                                                                *)

LEMMA WrapType == \A n \in Int : Wrap(n) \in Small
BY ManaAssumption DEF Wrap, Small

LEMMA WrapSame == \A n \in Small : Wrap(n) = n
BY ManaAssumption DEF Wrap, Small

LEMMA AtLeast0Is == \A n \in Int : AtLeast0(n) = IF n >= 0 THEN n ELSE 0
BY DEF AtLeast0

LEMMA LesserIs == \A m, n \in Int : Lesser(m, n) = IF m < n THEN m ELSE n
BY DEF Lesser

LEMMA SmallIs == Small \subseteq Int /\ 0 \in Small /\ \A n \in Nat : n < Half => n \in Small
BY ManaAssumption DEF Small

LEMMA ColorsAre ==
  /\ IsFiniteSet(Colors) /\ Colors \subseteq Nat /\ 0 \in Colors /\ NbColors - 1 \in Colors
  /\ Colors \ {0} = 1 .. (NbColors - 1)
  /\ NbColors \in Nat /\ NbColors > 0
<1>1. IsFiniteSet(Colors)
  BY ManaAssumption, FS_Interval DEF Colors
<1> QED BY <1>1, ManaAssumption DEF Colors

LEMMA ManaIs ==
  ASSUME NEW m \in Mana
  PROVE  m \in [Colors -> Int] /\ (IsPositive(m) => m \in [Colors -> Nat])
<1>1. \A c \in Colors : m[c] \in Int
  BY SmallIs DEF Mana
<1>2. IsPositive(m) => \A c \in Colors : m[c] \in Nat
  BY <1>1 DEF IsPositive
<1> QED BY <1>1, <1>2 DEF Mana

LEMMA TotalType ==
  ASSUME NEW m \in [Colors -> Int]
  PROVE  Total(m) \in Int
BY ColorsAre, SumIsNumber DEF Total

-----------------------------------------------------------------------------
(* The loops of the code are functions on 0..n: the value after i rounds   *)
(* is got from that after i - 1.  Such a function exists, when its values  *)
(* stay in some set; and they do, if each round leads from the set to it.  *)
Rounds(n, V, v, F) == n \in Nat /\ v \in V /\ F \in [1 .. n -> [V -> V]]
LEMMA RoundsExist ==
  ASSUME NEW n, NEW V, NEW v, NEW F, Rounds(n, V, v, F)
  PROVE  \E g \in [0 .. n -> V] : g[0] = v /\ \A i \in 1 .. n : g[i] = F[i][g[i - 1]]
<1>0. n \in Nat /\ v \in V /\ F \in [1 .. n -> [V -> V]]
  BY DEF Rounds
<1> DEFINE Works(m, g) == g \in [0 .. m -> V] /\ g[0] = v /\ \A i \in 1 .. m : g[i] = F[i][g[i - 1]]
           M == {m \in Nat : m <= n => \E g : Works(m, g)}
<1>1. 0 \in M
  <2> DEFINE g == [i \in 0 .. 0 |-> v]
  <2>1. Works(0, g)
    BY <1>0
  <2> HIDE DEF g
  <2> QED BY <2>1
<1>2. ASSUME NEW m \in Nat, m \in M
      PROVE  m + 1 \in M
  <2>1. SUFFICES ASSUME m + 1 <= n PROVE \E g : Works(m + 1, g)
    OBVIOUS
  <2>2. PICK g : Works(m, g)
    BY <1>0, <1>2, <2>1
  <2>3. m + 1 \in 1 .. n /\ g[m] \in V
    BY <1>0, <2>1, <2>2
  <2>4. PICK y \in V : y = F[m + 1][g[m]]
    BY <1>0, <2>3
  <2> DEFINE h == [i \in 0 .. (m + 1) |-> IF i = m + 1 THEN y ELSE g[i]]
  <2>5. h \in [0 .. (m + 1) -> V] /\ h[0] = v
    BY <2>2
  <2>6. ASSUME NEW i \in 1 .. (m + 1)
        PROVE  h[i] = F[i][h[i - 1]]
    <3>1. i - 1 \in 0 .. m /\ h[i - 1] = g[i - 1] /\ h[i] = IF i = m + 1 THEN y ELSE g[i]
      OBVIOUS
    <3>2. CASE i = m + 1
      <4>1. i - 1 = m
        BY <3>2
      <4> QED BY <2>4, <3>1, <3>2, <4>1
    <3>3. CASE i # m + 1
      BY <2>2, <3>1, <3>3
    <3> QED BY <3>2, <3>3
  <2> HIDE DEF h
  <2> QED BY <2>5, <2>6
<1>3. Nat \subseteq M
  <2> HIDE DEF M
  <2> QED BY <1>1, <1>2, CountUp
<1> QED BY <1>0, <1>3

LEMMA RoundsStay ==
  ASSUME NEW n \in Nat, NEW V, NEW g, g[0] \in V, \A i \in 1 .. n : g[i - 1] \in V => g[i] \in V
  PROVE  \A i \in 0 .. n : g[i] \in V
<1> DEFINE M == {m \in Nat : m <= n => g[m] \in V}
<1>1. 0 \in M
  OBVIOUS
<1>2. ASSUME NEW m \in Nat, m \in M
      PROVE  m + 1 \in M
  <2>1. SUFFICES ASSUME m + 1 <= n PROVE g[m + 1] \in V
    OBVIOUS
  <2>2. PICK i \in 1 .. n : i = m + 1
    BY <2>1
  <2>3. i - 1 = m /\ g[m] \in V
    BY <1>2, <2>1, <2>2
  <2> QED BY <2>2, <2>3
<1>3. Nat \subseteq M
  <2> HIDE DEF M
  <2> QED BY <1>1, <1>2, CountUp
<1> QED BY <1>3

(* Of some numbers that are not negative, one is the least.                *)
LEMMA LeastIs ==
  ASSUME NEW S, S \subseteq Nat, S # {}
  PROVE  \E n \in S : \A m \in S : n <= m
<1>1. PICK n \in S : \A m \in S : ~ (<<m, n>> \in OpToRel(<, Nat))
  BY NatLessThanWellFounded, WFMin
<1>2. \A m \in S : m \in Nat /\ n \in Nat /\ ~ (m < n)
  BY <1>1 DEF OpToRel
<1> QED BY <1>2

-----------------------------------------------------------------------------
(* Colourless mana that is missing is taken from the colours, in order.    *)
(* First(h, c) is the sum of h over the colours before c.                  *)
First(h, c) == SumFunction([e \in 1 .. (c - 1) |-> h[e]])

LEMMA FirstIs ==
  ASSUME NEW h \in [Colors -> Int]
  PROVE  /\ First(h, 1) = 0
         /\ \A c \in 1 .. NbColors : First(h, c) \in Int
         /\ \A c \in 1 .. (NbColors - 1) : First(h, c + 1) = First(h, c) + h[c]
         /\ Total(h) = h[0] + First(h, NbColors)
<1>1. ASSUME NEW c \in 1 .. NbColors
      PROVE  /\ IsFiniteSet(1 .. (c - 1)) /\ 1 .. (c - 1) \subseteq Colors
             /\ [e \in 1 .. (c - 1) |-> h[e]] \in [1 .. (c - 1) -> Int]
  <2>1. IsFiniteSet(1 .. (c - 1))
    BY ColorsAre, FS_Interval
  <2>2. 1 .. (c - 1) \subseteq Colors
    BY ColorsAre DEF Colors
  <2> QED BY <2>1, <2>2
<1>2. First(h, 1) = 0
  <2> DEFINE z == [e \in 1 .. (1 - 1) |-> h[e]]
  <2>1. 1 \in 1 .. NbColors /\ 1 .. (1 - 1) = {}
    BY ColorsAre
  <2>2. z \in [1 .. (1 - 1) -> Int] /\ IsFiniteSet(1 .. (1 - 1)) /\ \A e \in 1 .. (1 - 1) : z[e] = 0
    BY <1>1, <2>1
  <2> HIDE DEF z
  <2>3. SumFunction(z) = 0
    BY <2>2, SumOfZeros
  <2> QED BY <2>3 DEF z, First
<1>3. \A c \in 1 .. NbColors : First(h, c) \in Int
  BY <1>1, SumIsNumber DEF First
<1>4. ASSUME NEW c \in 1 .. (NbColors - 1)
      PROVE  First(h, c + 1) = First(h, c) + h[c]
  <2> DEFINE S == 1 .. ((c + 1) - 1)
             R == 1 .. (c - 1)
             g == [e \in S |-> h[e]]
             k == [e \in R |-> h[e]]
  <2>1. c \in 1 .. NbColors /\ c + 1 \in 1 .. NbColors /\ c \in S /\ R = S \ {c} /\ c \in Colors
    BY ColorsAre
  <2>2. g \in [S -> Int] /\ IsFiniteSet(S) /\ k \in [R -> Int]
    BY <1>1, <2>1
  <2>3. g[c] = h[c] /\ \A e \in R : g[e] = k[e]
    BY <2>1
  <2> HIDE DEF S, R, g, k
  <2>4. SumFunction(g) = g[c] + SumFunction(k)
    <3>1. PICK x : x = c
      OBVIOUS
    <3>2. Splits(S, g, x, k)
      BY <2>1, <2>2, <2>3, <3>1 DEF Splits
    <3>3. SumFunction(g) = g[x] + SumFunction(k)
      BY <2>2, <3>2, SumWithout
    <3> QED BY <3>1, <3>3
  <2>5. SumFunction(k) \in Int /\ h[c] \in Int
    BY <1>3, <2>1 DEF First, k, R
  <2> QED BY <2>3, <2>4, <2>5 DEF First, g, k, S, R
<1>5. Total(h) = h[0] + First(h, NbColors)
  <2> DEFINE R == 1 .. (NbColors - 1)
             k == [e \in R |-> h[e]]
  <2>1. NbColors \in 1 .. NbColors /\ R = Colors \ {0} /\ 0 \in Colors /\ IsFiniteSet(Colors)
    BY ColorsAre
  <2>2. k \in [R -> Int] /\ \A e \in R : h[e] = k[e]
    BY <1>1, <2>1
  <2> HIDE DEF R, k
  <2>3. SumFunction(h) = h[0] + SumFunction(k)
    <3>1. PICK x : x = 0
      OBVIOUS
    <3>2. Splits(Colors, h, x, k)
      BY <2>1, <2>2, <3>1 DEF Splits
    <3> QED BY <2>1, <3>1, <3>2, SumWithout
  <2> QED BY <2>3 DEF Total, First, R, k
<1> QED BY <1>2, <1>3, <1>4, <1>5

(* To show something of every First, count up.                             *)
LEMMA ColorsUp ==
  ASSUME NEW T, 1 \in T, \A c \in 1 .. (NbColors - 1) : c \in T => c + 1 \in T
  PROVE  1 .. NbColors \subseteq T
<1> DEFINE M == {n \in Nat : n + 1 \in 1 .. NbColors => n + 1 \in T}
<1>1. 0 \in M
  OBVIOUS
<1>2. \A n \in Nat : n \in M => n + 1 \in M
  BY ColorsAre
<1>3. Nat \subseteq M
  <2> HIDE DEF M
  <2> QED BY <1>1, <1>2, CountUp
<1>4. ASSUME NEW c \in 1 .. NbColors PROVE c \in T
  <2>1. c - 1 \in Nat /\ (c - 1) + 1 = c
    BY ColorsAre
  <2>2. c - 1 \in M
    BY <1>3, <2>1
  <2> QED BY <2>1, <2>2
<1> QED BY <1>4
(* What there is of each colour, and what Generic() takes of it.           *)
Plenty(d) == [c \in Colors |-> AtLeast0(d[c])]
Debt(d) == AtLeast0(-d[0])
Took(d) == [c \in Colors |-> IF c = 0 THEN 0
              ELSE Lesser(AtLeast0(d[c]), AtLeast0(Debt(d) - First(Plenty(d), c)))]

LEMMA TookIs ==
  ASSUME NEW d \in [Colors -> Int]
  PROVE  /\ Debt(d) \in Nat /\ Plenty(d) \in [Colors -> Nat] /\ Took(d) \in [Colors -> Nat]
         /\ \A c \in Colors : Took(d)[c] <= AtLeast0(d[c])
         /\ First(Plenty(d), NbColors) \in Int
         /\ \A c \in 1 .. NbColors : /\ First(Plenty(d), c) \in Int
                                    /\ First(Took(d), c) = Lesser(Debt(d), First(Plenty(d), c))
         /\ Total(Took(d)) = Lesser(Debt(d), First(Plenty(d), NbColors))
<1>1. \A c \in Colors : AtLeast0(d[c]) \in Nat
  BY AtLeast0Is
<1>2. Debt(d) \in Nat
  BY AtLeast0Is, ColorsAre DEF Debt
<1>3. Plenty(d) \in [Colors -> Nat] /\ \A c \in Colors : Plenty(d)[c] = AtLeast0(d[c])
  BY <1>1 DEF Plenty
<1>4. /\ First(Plenty(d), 1) = 0
      /\ \A c \in 1 .. NbColors : First(Plenty(d), c) \in Int
      /\ \A c \in 1 .. (NbColors - 1) : First(Plenty(d), c + 1) = First(Plenty(d), c) + Plenty(d)[c]
  <2>1. Plenty(d) \in [Colors -> Int]
    BY <1>3
  <2> QED BY <2>1, FirstIs
<1>5. \A c \in 1 .. (NbColors - 1) : c \in Colors /\ c # 0 /\ c \in 1 .. NbColors /\ c + 1 \in 1 .. NbColors
  BY ColorsAre
<1>6. \A c \in Colors : c = 0 \/ c \in 1 .. (NbColors - 1)
  BY ColorsAre
<1>7. ASSUME NEW c \in 1 .. (NbColors - 1)
      PROVE  /\ Took(d)[c] = Lesser(Plenty(d)[c], AtLeast0(Debt(d) - First(Plenty(d), c)))
             /\ Took(d)[c] \in Nat /\ Took(d)[c] <= AtLeast0(d[c])
  <2>1. c \in Colors /\ c # 0 /\ First(Plenty(d), c) \in Int /\ Plenty(d)[c] \in Nat
    BY <1>3, <1>4, <1>5
  <2>2. Took(d)[c] = Lesser(Plenty(d)[c], AtLeast0(Debt(d) - First(Plenty(d), c)))
    BY <1>3, <2>1 DEF Took
  <2>3. PICK p \in Nat, f \in Int, b \in Nat : p = Plenty(d)[c] /\ f = First(Plenty(d), c) /\ b = Debt(d)
    BY <1>2, <2>1
  <2>4. Lesser(p, AtLeast0(b - f)) \in Nat /\ Lesser(p, AtLeast0(b - f)) <= p
    BY AtLeast0Is, LesserIs
  <2> QED BY <1>3, <2>1, <2>2, <2>3, <2>4
<1>8. Took(d)[0] = 0 /\ 0 <= AtLeast0(d[0])
  BY <1>1, ColorsAre DEF Took
<1>9. \A c \in Colors : Took(d)[c] \in Nat /\ Took(d)[c] <= AtLeast0(d[c])
  BY <1>6, <1>7, <1>8
<1>10. Took(d) \in [Colors -> Nat]
  BY <1>9 DEF Took
<1>11. /\ First(Took(d), 1) = 0
       /\ \A c \in 1 .. NbColors : First(Took(d), c) \in Int
       /\ \A c \in 1 .. (NbColors - 1) : First(Took(d), c + 1) = First(Took(d), c) + Took(d)[c]
       /\ Total(Took(d)) = Took(d)[0] + First(Took(d), NbColors)
  <2>1. Took(d) \in [Colors -> Int]
    BY <1>10
  <2> QED BY <2>1, FirstIs
<1> DEFINE T == {c \in 1 .. NbColors : First(Plenty(d), c) >= 0
                                       /\ First(Took(d), c) = Lesser(Debt(d), First(Plenty(d), c))}
<1>12. 1 \in T
  BY <1>2, <1>4, <1>11, LesserIs, ColorsAre
<1>13. ASSUME NEW c \in 1 .. (NbColors - 1), c \in T
       PROVE  c + 1 \in T
  <2>1. PICK p \in Nat, f \in Int, b \in Nat, t \in Int, g \in Int, u \in Int, k \in Nat :
          /\ p = Plenty(d)[c] /\ f = First(Plenty(d), c) /\ b = Debt(d) /\ t = First(Took(d), c)
          /\ g = First(Plenty(d), c + 1) /\ u = First(Took(d), c + 1) /\ k = Took(d)[c]
    BY <1>2, <1>3, <1>4, <1>5, <1>7, <1>11
  <2>2. g = f + p /\ u = t + k /\ f >= 0 /\ t = Lesser(b, f) /\ k = Lesser(p, AtLeast0(b - f))
    BY <1>4, <1>7, <1>11, <1>13, <2>1
  <2>3. g >= 0 /\ u = Lesser(b, g)
    BY <2>2, AtLeast0Is, LesserIs
  <2> QED BY <1>5, <2>1, <2>3
<1>14. 1 .. NbColors \subseteq T /\ NbColors \in T
  <2>1. 1 .. NbColors \subseteq T
    <3> HIDE DEF T
    <3> QED BY <1>12, <1>13, ColorsUp
  <2> QED BY <2>1, ColorsAre
<1>15. First(Plenty(d), NbColors) \in Int
  BY <1>4, ColorsAre
<1>16. Total(Took(d)) = Lesser(Debt(d), First(Plenty(d), NbColors))
  BY <1>8, <1>11, <1>14, ColorsAre
<1>17. \A c \in 1 .. NbColors : First(Took(d), c) = Lesser(Debt(d), First(Plenty(d), c))
  BY <1>14
<1> QED BY <1>2, <1>3, <1>4, <1>9, <1>10, <1>15, <1>16, <1>17

LEMMA GenericTakes ==
  ASSUME NEW d \in [Colors -> Int]
  PROVE  Generic(d) = IF Debt(d) = 0 THEN d
                      ELSE [c \in Colors |-> IF c = 0 THEN d[0] + Total(Took(d)) ELSE d[c] - Took(d)[c]]
<1>1. ASSUME NEW c \in Colors \ {0}
      PROVE  SumFunction([e \in 1 .. (c - 1) |-> AtLeast0(d[e])]) = First(Plenty(d), c)
  <2>1. \A e \in 1 .. (c - 1) : Plenty(d)[e] = AtLeast0(d[e])
    BY ColorsAre DEF Plenty, Colors
  <2>2. [e \in 1 .. (c - 1) |-> AtLeast0(d[e])] = [e \in 1 .. (c - 1) |-> Plenty(d)[e]]
    BY <2>1
  <2> QED BY <2>2 DEF First
<1>2. Took(d) = [c \in Colors |-> IF c = 0 THEN 0
                   ELSE Lesser(AtLeast0(d[c]), AtLeast0(AtLeast0(-d[0])
                          - SumFunction([e \in 1 .. (c - 1) |-> AtLeast0(d[e])])))]
  BY <1>1 DEF Took, Debt
<1> QED BY <1>2 DEF Generic, Debt

(* What is left: what is owed in a colour stays owed, nothing else is, and *)
(* the colourless debt is paid if the colours have enough.                 *)
Covered(d) == d[0] >= 0 \/ First(Plenty(d), NbColors) >= -d[0]
LEMMA GenericIs ==
  ASSUME NEW d \in [Colors -> Int]
  PROVE  /\ Generic(d) \in [Colors -> Int]
         /\ \A c \in Colors \ {0} :
               IF d[c] < 0 THEN Generic(d)[c] = d[c]
               ELSE Generic(d)[c] >= 0 /\ Generic(d)[c] <= d[c]
         /\ IF d[0] >= 0 THEN Generic(d)[0] = d[0]
            ELSE /\ d[0] <= Generic(d)[0] /\ Generic(d)[0] <= 0
                 /\ Generic(d)[0] = 0 <=> Covered(d)
<1>1. Generic(d) = IF Debt(d) = 0 THEN d
                   ELSE [c \in Colors |-> IF c = 0 THEN d[0] + Total(Took(d)) ELSE d[c] - Took(d)[c]]
  BY GenericTakes
<1>2. d[0] \in Int /\ Debt(d) = IF d[0] >= 0 THEN 0 ELSE -d[0]
  BY ColorsAre, AtLeast0Is DEF Debt
<1>3. CASE d[0] >= 0
  <2>1. Generic(d) = d
    BY <1>1, <1>2, <1>3
  <2> QED BY <1>2, <1>3, <2>1
<1>4. CASE d[0] < 0
  <2>1. PICK g : g = Generic(d)
    OBVIOUS
  <2>2. PICK t \in [Colors -> Nat] : t = Took(d)
    BY TookIs
  <2>3. PICK n \in Int, f \in Int : n = Total(t) /\ f = First(Plenty(d), NbColors) /\ n = Lesser(-d[0], f)
                                    /\ t \in [Colors -> Int]
    <3>1. t \in [Colors -> Int]
      BY <2>2
    <3> QED BY <1>2, <1>4, <2>2, <3>1, TookIs, TotalType
  <2>4. g = [c \in Colors |-> IF c = 0 THEN d[0] + n ELSE d[c] - t[c]]
    BY <1>1, <1>2, <1>4, <2>1, <2>2, <2>3
  <2>5. \A c \in Colors : d[c] \in Int /\ t[c] \in Nat /\ t[c] <= IF d[c] >= 0 THEN d[c] ELSE 0
    BY <2>2, TookIs, AtLeast0Is
  <2>6. g \in [Colors -> Int]
    BY <1>2, <2>3, <2>4, <2>5
  <2>7. \A c \in Colors \ {0} : IF d[c] < 0 THEN g[c] = d[c] ELSE g[c] >= 0 /\ g[c] <= d[c]
    BY <2>4, <2>5
  <2>8. f >= 0
    <3>1. Total(t) \in Nat
      BY <2>2, ColorsAre, SumIsNat DEF Total
    <3> QED BY <1>2, <1>4, <2>3, <3>1, LesserIs
  <2>9. g[0] = d[0] + n
    BY <2>4, ColorsAre
  <2>10. d[0] <= g[0] /\ g[0] <= 0 /\ (g[0] = 0 <=> f >= -d[0])
    BY <1>2, <1>4, <2>3, <2>8, <2>9, LesserIs
  <2> QED BY <1>2, <1>4, <2>1, <2>3, <2>6, <2>7, <2>10 DEF Covered
<1> QED BY <1>2, <1>3, <1>4
(* If no colour is owed, the debt is covered when the whole is not owed.   *)
LEMMA CoveredIs ==
  ASSUME NEW d \in [Colors -> Int], \A c \in Colors \ {0} : d[c] >= 0
  PROVE  Covered(d) <=> Total(d) >= 0
<1> DEFINE R == 1 .. (NbColors - 1)
           k == [e \in R |-> d[e]]
<1>1. Plenty(d) \in [Colors -> Int] /\ First(Plenty(d), NbColors) \in Int
  BY TookIs
<1>2. IsFiniteSet(R) /\ k \in [R -> Nat]
  <2>1. IsFiniteSet(R)
    BY ColorsAre, FS_Interval
  <2>2. \A e \in R : d[e] \in Nat
    BY ColorsAre
  <2> QED BY <2>1, <2>2
<1>3. First(Plenty(d), NbColors) = SumFunction(k)
  <2>1. \A e \in R : Plenty(d)[e] = d[e]
    BY ColorsAre, AtLeast0Is DEF Plenty
  <2> QED BY <2>1 DEF First
<1>4. SumFunction(k) \in Nat
  <2> HIDE DEF R, k
  <2> QED BY <1>2, SumIsNat
<1>5. Total(d) = d[0] + SumFunction(k)
  BY FirstIs DEF First
<1>6. d[0] \in Int
  BY ColorsAre
<1> HIDE DEF R, k
<1> QED BY <1>3, <1>4, <1>5, <1>6 DEF Covered

-----------------------------------------------------------------------------
(* Hybrids.                                                                *)

LEMMA SideIs ==
  ASSUME NEW h \in Hybrids, NEW s \in {1, 2}
  PROVE  Side(h, s).color \in Colors /\ Side(h, s).value \in Nat
         /\ (Side(h, s).color # 0 => Side(h, s).value = 1)
BY DEF Side, Hybrids

LEMMA TakesIs ==
  ASSUME NEW hs \in Seq(Hybrids), NEW ch \in SideChoices(hs), NEW c \in Colors
  PROVE  /\ Takes(hs, ch, c) \in Nat
         /\ (\A i \in DOMAIN hs : Side(hs[i], ch[i]).color # c) => Takes(hs, ch, c) = 0
<1> DEFINE f == [i \in DOMAIN hs |->
                   IF Side(hs[i], ch[i]).color = c THEN Side(hs[i], ch[i]).value ELSE 0]
<1>1. IsFiniteSet(DOMAIN hs)
  BY FS_Interval
<1>2. \A i \in DOMAIN hs : Side(hs[i], ch[i]).value \in Nat
  BY SideIs DEF SideChoices
<1>3. f \in [DOMAIN hs -> Nat] /\ f \in [DOMAIN hs -> Int]
  BY <1>2
<1>4. (\A i \in DOMAIN hs : Side(hs[i], ch[i]).color # c) => \A i \in DOMAIN hs : f[i] = 0
  OBVIOUS
<1> HIDE DEF f
<1>5. SumFunction(f) \in Nat
  BY <1>1, <1>3, SumIsNat
<1>6. (\A i \in DOMAIN hs : Side(hs[i], ch[i]).color # c) => SumFunction(f) = 0
  BY <1>1, <1>3, <1>4, SumOfZeros
<1> QED BY <1>5, <1>6 DEF Takes, f

LEMMA ChoicesAre ==
  ASSUME NEW hs \in Seq(Hybrids)
  PROVE  /\ [i \in DOMAIN hs |-> 1] \in SideChoices(hs)
         /\ \A ch \in SideChoices(hs) : ch \in Seq({1, 2}) /\ Len(ch) \in Nat
<1>1. SideChoices(hs) = [1 .. Len(hs) -> {1, 2}] /\ Len(hs) \in Nat
  BY DEF SideChoices
<1>2. \A ch \in SideChoices(hs) : ch \in Seq({1, 2})
  BY <1>1, SeqDef
<1> QED BY <1>1, <1>2 DEF SideChoices

Ranks(n, ch, g) ==
  g \in [0 .. n -> Nat] /\ g[0] = 0 /\ \A i \in 1 .. n : g[i] = 2 * g[i - 1] + ch[n + 1 - i] - 1
LEMMA RankIs ==
  ASSUME NEW hs \in Seq(Hybrids), NEW ch \in SideChoices(hs)
  PROVE  \E g : Ranks(Len(hs), ch, g) /\ Rank(ch) = g[Len(hs)]
<1>1. PICK n \in Nat : n = Len(ch) /\ n = Len(hs) /\ ch \in [1 .. n -> {1, 2}]
  <2>1. ch \in Seq({1, 2}) /\ DOMAIN ch = 1 .. Len(hs) /\ Len(hs) \in Nat
    BY ChoicesAre DEF SideChoices
  <2> QED BY <2>1
<1>2. ASSUME NEW i \in 1 .. n, NEW v \in Nat
      PROVE  2 * v + ch[n + 1 - i] - 1 \in Nat
  <2>1. n + 1 - i \in 1 .. n
    OBVIOUS
  <2>2. ch[n + 1 - i] \in {1, 2}
    BY <1>1, <2>1
  <2> QED BY <2>2
<1> DEFINE F == [i \in 1 .. n |-> [v \in Nat |-> 2 * v + ch[n + 1 - i] - 1]]
<1>3. F \in [1 .. n -> [Nat -> Nat]]
  BY <1>2
<1>4. \E g : g = [i \in 0 .. n |-> IF i = 0 THEN 0 ELSE 2 * g[i - 1] + ch[n + 1 - i] - 1]
  <2>1. PICK g \in [0 .. n -> Nat] : g[0] = 0 /\ \A i \in 1 .. n : g[i] = F[i][g[i - 1]]
    <3>1. PICK k, V, z, f : V = Nat /\ z = 0 /\ k = n /\ f = F
      OBVIOUS
    <3>2. Rounds(k, V, z, f)
      BY <1>3, <3>1 DEF Rounds
    <3> HIDE DEF F
    <3>3. \E g \in [0 .. k -> V] : g[0] = z /\ \A i \in 1 .. k : g[i] = f[i][g[i - 1]]
      BY <3>2, RoundsExist
    <3> QED BY <3>1, <3>3
  <2>2. ASSUME NEW i \in 0 .. n
        PROVE  g[i] = IF i = 0 THEN 0 ELSE 2 * g[i - 1] + ch[n + 1 - i] - 1
    <3>1. CASE i = 0
      BY <2>1, <3>1
    <3>2. CASE i # 0
      <4>1. i \in 1 .. n /\ g[i - 1] \in Nat
        BY <3>2
      <4> QED BY <2>1, <3>2, <4>1
    <3> QED BY <3>1, <3>2
  <2> QED BY <2>2
<1>5. PICK g : g = CHOOSE h : h = [i \in 0 .. n |-> IF i = 0 THEN 0 ELSE 2 * h[i - 1] + ch[n + 1 - i] - 1]
  OBVIOUS
<1>6. g = [i \in 0 .. n |-> IF i = 0 THEN 0 ELSE 2 * g[i - 1] + ch[n + 1 - i] - 1]
  BY <1>4, <1>5
<1>7. Rank(ch) = g[n]
  BY <1>1, <1>5 DEF Rank
<1>8. g[0] \in Nat /\ \A i \in 1 .. n : g[i - 1] \in Nat => g[i] \in Nat
  <2>1. g[0] = 0
    BY <1>6
  <2>2. \A i \in 1 .. n : g[i] = 2 * g[i - 1] + ch[n + 1 - i] - 1
    BY <1>6
  <2> QED BY <1>2, <2>1, <2>2
<1>9. \A i \in 0 .. n : g[i] \in Nat
  BY <1>8, RoundsStay
<1>10. g \in [0 .. n -> Nat] /\ g[0] = 0 /\ \A i \in 1 .. n : g[i] = 2 * g[i - 1] + ch[n + 1 - i] - 1
  BY <1>6, <1>9
<1> QED BY <1>1, <1>7, <1>10 DEF Ranks

LEMMA RankType ==
  ASSUME NEW hs \in Seq(Hybrids), NEW ch \in SideChoices(hs)
  PROVE  Rank(ch) \in Nat
<1>1. PICK g : Ranks(Len(hs), ch, g) /\ Rank(ch) = g[Len(hs)]
  BY RankIs
<1>2. Len(hs) \in Nat
  OBVIOUS
<1> QED BY <1>1, <1>2 DEF Ranks

(* The sides paid are a choice, and if any fits, the first that does.      *)
LEMMA PaidSidesAre ==
  ASSUME NEW hs \in Seq(Hybrids), NEW left
  PROVE  /\ PaidSides(hs, left) \in SideChoices(hs)
         /\ \A ch \in SideChoices(hs) : Fits(hs, ch, left) =>
               Fits(hs, PaidSides(hs, left), left) /\ Rank(PaidSides(hs, left)) <= Rank(ch)
<1> DEFINE ways == {ch \in SideChoices(hs) : Fits(hs, ch, left)}
<1>1. CASE ways = {}
  <2>1. PaidSides(hs, left) = [i \in DOMAIN hs |-> 1]
    BY <1>1 DEF PaidSides
  <2> QED BY <1>1, <2>1, ChoicesAre
<1>2. CASE ways # {}
  <2>1. PaidSides(hs, left) = CHOOSE ch \in ways : \A o \in ways : Rank(ch) <= Rank(o)
    BY <1>2 DEF PaidSides
  <2> DEFINE S == {Rank(ch) : ch \in ways}
  <2>2. S \subseteq Nat /\ S # {}
    BY <1>2, RankType
  <2>3. PICK n \in S : \A m \in S : n <= m
    <3> HIDE DEF S
    <3> QED BY <2>2, LeastIs
  <2>4. \E ch \in ways : \A o \in ways : Rank(ch) <= Rank(o)
    BY <2>3
  <2>5. PaidSides(hs, left) \in ways /\ \A o \in ways : Rank(PaidSides(hs, left)) <= Rank(o)
    <3> HIDE DEF ways
    <3> QED BY <2>1, <2>4
  <2> QED BY <2>5
<1> QED BY <1>1, <1>2
-----------------------------------------------------------------------------
(* Diff(), in parts: the mana without what the cost needs, the sides that  *)
(* are paid, and what is left then.                                        *)
Needed(m, cost) == [c \in Colors |-> Wrap(m[c] - cost.need[c])]
Paying(m, cost) == PaidSides(cost.hybrids, Needed(m, cost))
Sided(m, cost) == IF cost.hybrids = <<>> THEN Needed(m, cost)
                  ELSE [c \in Colors |-> Wrap(Needed(m, cost)[c]
                                              - Takes(cost.hybrids, Paying(m, cost), c))]

LEMMA CostIs ==
  ASSUME NEW cost \in CostRecords
  PROVE  /\ cost.need \in [Colors -> Int] /\ cost.hybrids \in Seq(Hybrids)
         /\ cost.x \in Colors \cup {NoX}
BY DEF CostRecords

LEMMA SidedType ==
  ASSUME NEW m \in [Colors -> Int], NEW cost \in CostRecords
  PROVE  /\ Needed(m, cost) \in Mana /\ Sided(m, cost) \in Mana
         /\ Paying(m, cost) \in SideChoices(cost.hybrids)
<1>1. \A c \in Colors : m[c] - cost.need[c] \in Int
  BY CostIs
<1>2. Needed(m, cost) \in Mana
  BY <1>1, WrapType DEF Needed, Mana
<1>3. Paying(m, cost) \in SideChoices(cost.hybrids)
  BY CostIs, PaidSidesAre DEF Paying
<1>4. \A c \in Colors : Takes(cost.hybrids, Paying(m, cost), c) \in Int
  BY <1>3, CostIs, TakesIs
<1>5. ASSUME NEW c \in Colors
      PROVE  Needed(m, cost)[c] - Takes(cost.hybrids, Paying(m, cost), c) \in Int
  <2>1. Needed(m, cost)[c] \in Int
    BY <1>2, SmallIs DEF Mana
  <2>2. Takes(cost.hybrids, Paying(m, cost), c) \in Int
    BY <1>4
  <2> QED BY <2>1, <2>2
<1>6. [c \in Colors |-> Wrap(Needed(m, cost)[c] - Takes(cost.hybrids, Paying(m, cost), c))] \in Mana
  BY <1>5, WrapType DEF Mana
<1> QED BY <1>2, <1>3, <1>6 DEF Sided

(* What is left keeps to the width of the numbers; X takes nothing that is *)
(* owed.                                                                   *)
LEMMA PayIs ==
  ASSUME NEW m \in [Colors -> Int], NEW cost \in CostRecords
  PROVE  /\ Pay(m, cost) \in Mana
         /\ CanAfford(m, cost) <=> \A c \in Colors : Generic(Sided(m, cost))[c] >= 0
         /\ \A c \in Colors : Generic(Sided(m, cost))[c] >= 0 =>
               Pay(m, cost)[c] >= 0 /\ Pay(m, cost)[c] <= Generic(Sided(m, cost))[c]
<1>1. PICK d : d = Sided(m, cost)
  OBVIOUS
<1>2. PICK g : g = Generic(d)
  OBVIOUS
<1>3. Pay(m, cost) = IF cost.x = NoX THEN g
                     ELSE [c \in Colors |-> IF ForX(cost.x, c) /\ g[c] > 0 THEN 0 ELSE g[c]]
  BY <1>1, <1>2 DEF Pay, Diff, Sided, Paying, Needed
<1>4. d \in Mana /\ d \in [Colors -> Int]
  BY <1>1, SidedType, SmallIs DEF Mana
<1>5. /\ g \in [Colors -> Int]
      /\ \A c \in Colors \ {0} : IF d[c] < 0 THEN g[c] = d[c] ELSE g[c] >= 0 /\ g[c] <= d[c]
      /\ IF d[0] >= 0 THEN g[0] = d[0] ELSE d[0] <= g[0] /\ g[0] <= 0
  BY <1>2, <1>4, GenericIs
<1>6. \A c \in Colors : d[c] \in Int /\ d[c] >= -Half /\ d[c] < Half
  BY <1>4, ManaAssumption DEF Mana, Small
<1>7. \A c \in Colors : g[c] \in Small
  BY <1>5, <1>6, ManaAssumption DEF Small
<1>8. Pay(m, cost) \in Mana
  BY <1>3, <1>5, <1>7, SmallIs DEF Mana
<1>9. \A c \in Colors : /\ Pay(m, cost)[c] >= 0 <=> g[c] >= 0
                        /\ g[c] >= 0 => Pay(m, cost)[c] >= 0 /\ Pay(m, cost)[c] <= g[c]
  BY <1>3, <1>5
<1>10. CanAfford(m, cost) <=> \A c \in Colors : g[c] >= 0
  BY <1>9 DEF CanAfford, IsPositive, Pay
<1> QED BY <1>1, <1>2, <1>8, <1>9, <1>10

(* Of mana that is not owed, no number that a proper cost asks for is too  *)
(* large: nothing wraps round.                                             *)
LEMMA ProperIs ==
  ASSUME NEW cost, Proper(cost)
  PROVE  /\ cost \in CostRecords /\ cost.hybrids \in Seq(Hybrids)
         /\ cost.need \in [Colors -> Nat] /\ \A c \in Colors : cost.need[c] <= Half
<1>1. cost \in CostRecords /\ cost.hybrids \in Seq(Hybrids) /\ cost.need \in [Colors -> Nat]
  BY CostIs DEF Proper
<1>2. ASSUME NEW c \in Colors PROVE cost.need[c] <= Half
  <2>1. PICK ch \in SideChoices(cost.hybrids) : TRUE
    BY <1>1, ChoicesAre
  <2>2. Takes(cost.hybrids, ch, c) \in Nat /\ cost.need[c] \in Nat
    BY <1>1, TakesIs
  <2>3. cost.need[c] + Takes(cost.hybrids, ch, c) <= Half
    BY DEF Proper
  <2> QED BY <2>2, <2>3, ManaAssumption
<1> QED BY <1>1, <1>2

LEMMA NothingWraps ==
  ASSUME NEW m \in Mana, IsPositive(m), NEW cost, Proper(cost)
  PROVE  \A c \in Colors :
            /\ Needed(m, cost)[c] = m[c] - cost.need[c]
            /\ Sided(m, cost)[c] = m[c] - (cost.need[c] + Takes(cost.hybrids, Paying(m, cost), c))
<1> SUFFICES ASSUME NEW c \in Colors
             PROVE  /\ Needed(m, cost)[c] = m[c] - cost.need[c]
                    /\ Sided(m, cost)[c]
                         = m[c] - (cost.need[c] + Takes(cost.hybrids, Paying(m, cost), c))
  OBVIOUS
<1>1. PICK h : h = cost.hybrids
  OBVIOUS
<1>2. m \in [Colors -> Int]
  BY SmallIs DEF Mana
<1>3. /\ cost \in CostRecords /\ cost.need[c] \in Nat /\ cost.need[c] <= Half /\ h \in Seq(Hybrids)
      /\ Paying(m, cost) \in SideChoices(h)
  BY <1>1, <1>2, ProperIs, SidedType
<1>4. PICK t \in Nat : t = Takes(h, Paying(m, cost), c) /\ cost.need[c] + t <= Half
  BY <1>1, <1>3, TakesIs DEF Proper
<1>5. m[c] \in Nat /\ m[c] < Half
  BY ManaAssumption DEF IsPositive, Mana, Small
<1>6. m[c] - cost.need[c] \in Small /\ m[c] - cost.need[c] - t \in Small
  <2>1. PICK a \in Nat, b \in Nat : a = m[c] /\ b = cost.need[c] /\ a < Half /\ b + t <= Half
    BY <1>3, <1>4, <1>5
  <2>2. a - b \in Small /\ a - b - t \in Small
    BY <2>1, ManaAssumption DEF Small
  <2> QED BY <2>1, <2>2
<1>7. Needed(m, cost)[c] = m[c] - cost.need[c]
  BY <1>6, WrapSame DEF Needed
<1>8. CASE h = <<>>
  <2>1. \A i \in DOMAIN h : FALSE
    BY <1>8
  <2>2. t = 0
    BY <1>3, <1>4, <2>1, TakesIs
  <2> QED BY <1>1, <1>3, <1>4, <1>5, <1>7, <1>8, <2>2 DEF Sided
<1>9. CASE h # <<>>
  <2>1. Sided(m, cost)[c] = Wrap(Needed(m, cost)[c] - t)
    BY <1>1, <1>4, <1>9 DEF Sided
  <2> QED BY <1>1, <1>3, <1>4, <1>5, <1>6, <1>7, <2>1, WrapSame
<1> QED BY <1>8, <1>9
-----------------------------------------------------------------------------
(* What is asked for in all, when a choice of sides is paid.               *)
Asked(cost, ch) == [c \in Colors |-> cost.need[c] + Takes(cost.hybrids, ch, c)]
Covers(m, cost, ch) ==
  /\ \A c \in Colors \ {0} : Asked(cost, ch)[c] <= m[c]
  /\ Total(Asked(cost, ch)) <= Total(m)

LEMMA AskedType ==
  ASSUME NEW cost, Proper(cost), NEW ch \in SideChoices(cost.hybrids)
  PROVE  Asked(cost, ch) \in [Colors -> Nat] /\ Asked(cost, ch) \in [Colors -> Int]
<1>1. \A c \in Colors : cost.need[c] \in Nat /\ Takes(cost.hybrids, ch, c) \in Nat
  BY ProperIs, TakesIs
<1>2. \A c \in Colors : cost.need[c] + Takes(cost.hybrids, ch, c) \in Nat
  BY <1>1
<1> QED BY <1>2 DEF Asked

LEMMA PayableIs ==
  ASSUME NEW m, NEW cost
  PROVE  Payable(m, cost) <=> \E ch \in SideChoices(cost.hybrids) : Covers(m, cost, ch)
<1>1. ASSUME NEW ch
      PROVE  /\ \A c \in Colors : Asked(cost, ch)[c] = cost.need[c] + Takes(cost.hybrids, ch, c)
             /\ Total(Asked(cost, ch)) = Total([c \in Colors |-> cost.need[c] + Takes(cost.hybrids, ch, c)])
  BY DEF Asked
<1> QED BY <1>1 DEF Payable, Covers

(* canAfford() is right about the sides it pays; and of what is affordable *)
(* no more is taken than there is.                                         *)
LEMMA AffordIs ==
  ASSUME NEW m \in Mana, IsPositive(m), NEW cost, Proper(cost)
  PROVE  /\ CanAfford(m, cost) <=> Covers(m, cost, Paying(m, cost))
         /\ CanAfford(m, cost) => \A c \in Colors : Pay(m, cost)[c] >= 0 /\ Pay(m, cost)[c] <= m[c]
<1>1. PICK d, g, a, p : /\ d = Sided(m, cost) /\ g = Generic(d) /\ a = Asked(cost, Paying(m, cost))
                        /\ p = Pay(m, cost)
  OBVIOUS
<1>2. m \in [Colors -> Int] /\ cost \in CostRecords
  BY SmallIs, ProperIs DEF Mana
<1>3. d \in [Colors -> Int]
  BY <1>1, <1>2, SidedType, SmallIs DEF Mana
<1>4. a \in [Colors -> Nat] /\ a \in [Colors -> Int]
  BY <1>1, <1>2, SidedType, AskedType
<1>5. \A c \in Colors : d[c] = m[c] - a[c]
  BY <1>1, NothingWraps DEF Asked
<1>6. \A c \in Colors : m[c] = d[c] + a[c]
  BY <1>2, <1>3, <1>4, <1>5
<1>7. Total(m) = Total(d) + Total(a) /\ Total(d) \in Int /\ Total(a) \in Int
  BY <1>2, <1>3, <1>4, <1>6, ColorsAre, SumAdds, TotalType DEF Total
<1>8. /\ \A c \in Colors \ {0} : IF d[c] < 0 THEN g[c] = d[c] ELSE g[c] >= 0 /\ g[c] <= d[c]
      /\ IF d[0] >= 0 THEN g[0] = d[0]
         ELSE g[0] <= 0 /\ (g[0] = 0 <=> Covered(d))
      /\ g \in [Colors -> Int]
  BY <1>1, <1>3, GenericIs
<1>9. (\A c \in Colors \ {0} : d[c] >= 0) => (Covered(d) <=> Total(d) >= 0)
  BY <1>3, CoveredIs
<1>10. d[0] \in Int /\ 0 \in Colors /\ g[0] \in Int
  BY <1>3, <1>8, ColorsAre
<1>11. g[0] >= 0 <=> Covered(d)
  BY <1>8, <1>10 DEF Covered
<1>12. (\A c \in Colors : g[c] >= 0) <=> (\A c \in Colors \ {0} : d[c] >= 0) /\ Covered(d)
  BY <1>3, <1>8, <1>10, <1>11
<1>13. Covers(m, cost, Paying(m, cost)) <=> (\A c \in Colors \ {0} : d[c] >= 0) /\ Total(d) >= 0
  <2>1. (\A c \in Colors \ {0} : a[c] <= m[c]) <=> (\A c \in Colors \ {0} : d[c] >= 0)
    BY <1>2, <1>4, <1>5
  <2>2. Total(a) <= Total(m) <=> Total(d) >= 0
    BY <1>7
  <2> QED BY <1>1, <2>1, <2>2 DEF Covers
<1>14. /\ CanAfford(m, cost) <=> \A c \in Colors : g[c] >= 0
       /\ \A c \in Colors : g[c] >= 0 => p[c] >= 0 /\ p[c] <= g[c]
       /\ p \in [Colors -> Int]
  BY <1>1, <1>2, PayIs, SmallIs DEF Mana
<1>15. ASSUME CanAfford(m, cost), NEW c \in Colors
       PROVE  p[c] >= 0 /\ p[c] <= m[c]
  <2>1. g[c] >= 0 /\ p[c] >= 0 /\ p[c] <= g[c] /\ p[c] \in Int /\ g[c] \in Int
    BY <1>8, <1>14, <1>15
  <2>2. d[c] \in Int /\ m[c] \in Nat /\ d[c] <= m[c]
    BY <1>2, <1>3, <1>4, <1>5 DEF IsPositive
  <2>3. CASE c = 0
    BY <1>8, <2>1, <2>2, <2>3
  <2>4. CASE c # 0
    BY <1>8, <2>1, <2>2, <2>4
  <2> QED BY <2>3, <2>4
<1> QED BY <1>1, <1>9, <1>12, <1>13, <1>14, <1>15

LEMMA AffordSound ==
  ASSUME NEW m \in Mana, IsPositive(m), NEW cost, Proper(cost), CanAfford(m, cost)
  PROVE  Payable(m, cost)
<1>1. m \in [Colors -> Int] /\ cost \in CostRecords
  BY SmallIs, ProperIs DEF Mana
<1>2. Paying(m, cost) \in SideChoices(cost.hybrids)
  BY <1>1, SidedType
<1> QED BY <1>2, AffordIs, PayableIs
(* Whichever sides are paid of hybrids that have two colours: it is as     *)
(* much mana.                                                              *)
LEMMA TakesInAll ==
  ASSUME NEW hs \in Seq(Hybrids), NEW ch \in SideChoices(hs),
         \A i \in DOMAIN hs, s \in {1, 2} : Side(hs[i], s).color # 0
  PROVE  Total([c \in Colors |-> Takes(hs, ch, c)]) = SumFunction([i \in DOMAIN hs |-> 1])
<1> DEFINE D == DOMAIN hs
           kind == [i \in D |-> Side(hs[i], ch[i]).color]
           one == [i \in D |-> 1]
<1>1. \A i \in D : kind[i] \in Colors /\ Side(hs[i], ch[i]).value = 1
  BY SideIs DEF SideChoices
<1>2. \A c \in Colors : OfKind(D, kind, one, c)
                          = [i \in D |-> IF Side(hs[i], ch[i]).color = c
                                         THEN Side(hs[i], ch[i]).value ELSE 0]
  BY <1>1 DEF OfKind
<1>3. ByKind(D, kind, one, Colors) = [c \in Colors |-> Takes(hs, ch, c)]
  BY <1>2 DEF ByKind, Takes
<1>4. kind \in [D -> Colors] /\ one \in [D -> Int] /\ IsFiniteSet(D)
  BY <1>1, FS_Interval
<1> HIDE DEF D, kind, one
<1>5. SumFunction(ByKind(D, kind, one, Colors)) = SumFunction(one)
  BY <1>4, ColorsAre, SumByKind
<1> QED BY <1>3, <1>5 DEF Total, one, D

(* If some choice of colours is covered, canAfford() finds one: the sides  *)
(* fit, so that no colour they need is short, and in all it is as much.    *)
LEMMA AffordExact ==
  ASSUME NEW m \in Mana, IsPositive(m), NEW cost, Proper(cost), Colored(cost), Payable(m, cost)
  PROVE  CanAfford(m, cost)
<1>1. PICK h, ps : h = cost.hybrids /\ ps = Paying(m, cost)
  OBVIOUS
<1>2. PICK ch \in SideChoices(h) : Covers(m, cost, ch)
  BY <1>1, PayableIs
<1>3. m \in [Colors -> Int] /\ cost \in CostRecords /\ h \in Seq(Hybrids) /\ ps \in SideChoices(h)
  BY <1>1, SmallIs, ProperIs, SidedType DEF Mana
<1>4. \A i \in DOMAIN h, s \in {1, 2} : Side(h[i], s).color # 0 /\ Side(h[i], s).color \in Colors
  <2>1. \A i \in DOMAIN h : h[i] \in Hybrids
    BY <1>3
  <2> QED BY <1>1, <2>1, SideIs DEF Colored
<1>5. \A c \in Colors : /\ Takes(h, ch, c) \in Nat /\ Takes(h, ps, c) \in Nat
                        /\ cost.need[c] \in Nat /\ m[c] \in Int
                        /\ Asked(cost, ch)[c] = cost.need[c] + Takes(h, ch, c)
                        /\ Asked(cost, ps)[c] = cost.need[c] + Takes(h, ps, c)
                        /\ Needed(m, cost)[c] = m[c] - cost.need[c]
  BY <1>1, <1>3, TakesIs, ProperIs, NothingWraps DEF Asked
<1>6. Fits(h, ch, Needed(m, cost))
  <2>1. SUFFICES ASSUME NEW i \in DOMAIN h
                 PROVE  Takes(h, ch, Side(h[i], ch[i]).color) <= Needed(m, cost)[Side(h[i], ch[i]).color]
    BY DEF Fits
  <2>2. PICK c : c = Side(h[i], ch[i]).color
    OBVIOUS
  <2>3. c \in Colors \ {0}
    BY <1>4, <2>2 DEF SideChoices
  <2>4. Asked(cost, ch)[c] <= m[c]
    BY <1>2, <2>3 DEF Covers
  <2> QED BY <1>5, <2>2, <2>3, <2>4
<1>7. Fits(h, ps, Needed(m, cost))
  BY <1>1, <1>3, <1>6, PaidSidesAre DEF Paying
<1>8. ASSUME NEW c \in Colors \ {0}
      PROVE  Asked(cost, ps)[c] <= m[c]
  <2>1. CASE \E i \in DOMAIN h : Side(h[i], ps[i]).color = c
    <3>1. Takes(h, ps, c) <= Needed(m, cost)[c]
      BY <1>7, <2>1 DEF Fits
    <3> QED BY <1>5, <3>1
  <2>2. CASE ~ \E i \in DOMAIN h : Side(h[i], ps[i]).color = c
    <3>1. Takes(h, ps, c) = 0
      BY <1>3, <2>2, TakesIs
    <3>2. Asked(cost, ch)[c] <= m[c]
      BY <1>2 DEF Covers
    <3> QED BY <1>5, <3>1, <3>2
  <2> QED BY <2>1, <2>2
<1>9. Total(Asked(cost, ps)) = Total(Asked(cost, ch))
  <2> DEFINE t == [c \in Colors |-> Takes(h, ch, c)]
             u == [c \in Colors |-> Takes(h, ps, c)]
  <2>1. t \in [Colors -> Int] /\ u \in [Colors -> Int] /\ cost.need \in [Colors -> Int]
    BY <1>3, <1>5, CostIs
  <2>2. Asked(cost, ch) \in [Colors -> Int] /\ Asked(cost, ps) \in [Colors -> Int]
    BY <1>1, <1>3, AskedType
  <2>3. /\ \A c \in Colors : Asked(cost, ch)[c] = cost.need[c] + t[c]
        /\ \A c \in Colors : Asked(cost, ps)[c] = cost.need[c] + u[c]
    BY <1>5
  <2>4. Total(t) = Total(u)
    BY <1>3, <1>4, TakesInAll
  <2> HIDE DEF t, u
  <2>5. PICK n : n = cost.need
    OBVIOUS
  <2>6. Total(Asked(cost, ch)) = Total(n) + Total(t) /\ Total(Asked(cost, ps)) = Total(n) + Total(u)
    BY <2>1, <2>2, <2>3, <2>5, ColorsAre, SumAdds, SMTT(60) DEF Total
  <2> QED BY <2>4, <2>6
<1>10. Covers(m, cost, ps)
  BY <1>2, <1>8, <1>9 DEF Covers
<1> QED BY <1>1, <1>10, AffordIs
-----------------------------------------------------------------------------
(* Kickers.                                                                *)

LEMMA PlusType ==
  ASSUME NEW a \in [Colors -> Int], NEW b \in [Colors -> Int]
  PROVE  Plus(a, b) \in Mana /\ Plus(a, b) \in [Colors -> Int]
<1>1. \A c \in Colors : a[c] + b[c] \in Int
  OBVIOUS
<1> QED BY <1>1, WrapType, SmallIs DEF Plus, Mana

LEMMA AddCostType ==
  ASSUME NEW a \in CostRecords, NEW b \in CostRecords
  PROVE  AddCost(a, b) \in CostRecords
<1>1. PICK n, h : n = Plus(a.need, b.need) /\ h = a.hybrids \o b.hybrids
  OBVIOUS
<1>2. n \in [Colors -> Int]
  BY <1>1, CostIs, PlusType
<1>3. h \in Seq(Hybrids)
  <2>1. PICK u \in Seq(Hybrids), v \in Seq(Hybrids) : u = a.hybrids /\ v = b.hybrids
    BY CostIs
  <2>2. u \o v \in Seq(Hybrids)
    BY ConcatProperties
  <2> QED BY <1>1, <2>1, <2>2
<1>4. AddCost(a, b) = [a EXCEPT !.need = n, !.hybrids = h]
  BY <1>1 DEF AddCost
<1> QED BY <1>2, <1>3, <1>4 DEF CostRecords

LEMMA TimesType ==
  ASSUME NEW n \in Nat, NEW kicker \in CostRecords, NEW cost \in CostRecords
  PROVE  Times(n, kicker, cost) \in CostRecords
<1> DEFINE F == [i \in 1 .. n |-> [v \in CostRecords |-> AddCost(v, kicker)]]
<1>1. F \in [1 .. n -> [CostRecords -> CostRecords]]
  BY AddCostType
<1>2. \E g : g = [i \in 0 .. n |-> IF i = 0 THEN cost ELSE AddCost(g[i - 1], kicker)]
  <2>1. PICK k, V, z, f : V = CostRecords /\ z = cost /\ k = n /\ f = F
    OBVIOUS
  <2>2. Rounds(k, V, z, f)
    BY <1>1, <2>1 DEF Rounds
  <2>3. PICK g \in [0 .. k -> V] : g[0] = z /\ \A i \in 1 .. k : g[i] = f[i][g[i - 1]]
    BY <2>2, RoundsExist
  <2>4. ASSUME NEW i \in 0 .. n
        PROVE  g[i] = IF i = 0 THEN cost ELSE AddCost(g[i - 1], kicker)
    <3>1. CASE i = 0
      BY <2>1, <2>3, <3>1
    <3>2. CASE i # 0
      <4>1. i \in 1 .. n /\ g[i - 1] \in CostRecords
        BY <2>1, <3>2
      <4>2. g[i] = F[i][g[i - 1]]
        BY <2>1, <2>3, <4>1
      <4> QED BY <3>2, <4>1, <4>2
    <3> QED BY <3>1, <3>2
  <2> QED BY <2>1, <2>4
<1>3. PICK g : g = CHOOSE h : h = [i \in 0 .. n |-> IF i = 0 THEN cost ELSE AddCost(h[i - 1], kicker)]
  OBVIOUS
<1>4. g = [i \in 0 .. n |-> IF i = 0 THEN cost ELSE AddCost(g[i - 1], kicker)]
  BY <1>2, <1>3
<1>5. Times(n, kicker, cost) = g[n]
  BY <1>3 DEF Times
<1>6. g[0] \in CostRecords /\ \A i \in 1 .. n : g[i - 1] \in CostRecords => g[i] \in CostRecords
  BY <1>4, AddCostType
<1>7. \A i \in 0 .. n : g[i] \in CostRecords
  BY <1>6, RoundsStay
<1> QED BY <1>5, <1>7

LEMMA PayType ==
  ASSUME NEW m \in Mana, NEW cost \in CostRecords
  PROVE  Pay(m, cost) \in Mana
<1>1. m \in [Colors -> Int]
  BY SmallIs DEF Mana
<1> QED BY <1>1, PayIs

LEMMA PayTimesType ==
  ASSUME NEW n \in Nat, NEW m \in Mana, NEW kicker \in CostRecords
  PROVE  PayTimes(m, n, kicker) \in Mana /\ (n = 0 => PayTimes(m, n, kicker) = m)
<1> DEFINE F == [i \in 1 .. n |-> [v \in Mana |-> Pay(v, kicker)]]
<1>1. F \in [1 .. n -> [Mana -> Mana]]
  BY PayType
<1>2. \E g : g = [i \in 0 .. n |-> IF i = 0 THEN m ELSE Pay(g[i - 1], kicker)]
  <2>1. PICK k, V, z, f : V = Mana /\ z = m /\ k = n /\ f = F
    OBVIOUS
  <2>2. Rounds(k, V, z, f)
    BY <1>1, <2>1 DEF Rounds
  <2>3. PICK g \in [0 .. k -> V] : g[0] = z /\ \A i \in 1 .. k : g[i] = f[i][g[i - 1]]
    BY <2>2, RoundsExist
  <2>4. ASSUME NEW i \in 0 .. n
        PROVE  g[i] = IF i = 0 THEN m ELSE Pay(g[i - 1], kicker)
    <3>1. CASE i = 0
      BY <2>1, <2>3, <3>1
    <3>2. CASE i # 0
      <4>1. i \in 1 .. n /\ g[i - 1] \in Mana
        BY <2>1, <3>2
      <4>2. g[i] = F[i][g[i - 1]]
        BY <2>1, <2>3, <4>1
      <4> QED BY <3>2, <4>1, <4>2
    <3> QED BY <3>1, <3>2
  <2> QED BY <2>1, <2>4
<1>3. PICK g : g = CHOOSE h : h = [i \in 0 .. n |-> IF i = 0 THEN m ELSE Pay(h[i - 1], kicker)]
  OBVIOUS
<1>4. g = [i \in 0 .. n |-> IF i = 0 THEN m ELSE Pay(g[i - 1], kicker)]
  BY <1>2, <1>3
<1>5. PayTimes(m, n, kicker) = g[n]
  BY <1>3 DEF PayTimes
<1>6. g[0] = m /\ \A i \in 1 .. n : g[i] = Pay(g[i - 1], kicker)
  BY <1>4
<1>7. g[0] \in Mana /\ \A i \in 1 .. n : g[i - 1] \in Mana => g[i] \in Mana
  BY <1>6, PayType
<1>8. \A i \in 0 .. n : g[i] \in Mana
  BY <1>7, RoundsStay
<1> QED BY <1>5, <1>6, <1>8

LEMMA KicksType ==
  ASSUME NEW m \in Mana, NEW cost, NEW kicker
  PROVE  Kicks(m, cost, kicker) \in Nat
<1>1. PICK N \in Nat : N = AtLeast0(Total(m))
  <2>1. m \in [Colors -> Int]
    BY SmallIs DEF Mana
  <2>2. Total(m) \in Int
    BY <2>1, TotalType
  <2> QED BY <2>2, AtLeast0Is
<1> DEFINE S == {n \in 0 .. N : \A i \in 1 .. n : CanAfford(m, Times(i, kicker, cost))}
           T == {N - n : n \in S}
<1>2. S \subseteq 0 .. N /\ 0 \in S
  OBVIOUS
<1>3. T \subseteq Nat /\ T # {}
  BY <1>2
<1>4. PICK t \in T : \A u \in T : t <= u
  <2> HIDE DEF T
  <2> QED BY <1>3, LeastIs
<1>5. PICK s \in S : t = N - s
  BY <1>4
<1>6. \A n \in S : n \in 0 .. N /\ N - n \in T /\ s >= n
  <2>1. \A n \in S : n \in 0 .. N /\ N - n \in T /\ t <= N - n
    BY <1>2, <1>4
  <2>2. s \in 0 .. N
    BY <1>2, <1>5
  <2> HIDE DEF S, T
  <2> QED BY <1>5, <2>1, <2>2
<1>7. Kicks(m, cost, kicker) = Max(S)
  BY <1>1 DEF Kicks
<1> HIDE DEF S, T
<1>8. Max(S) \in S
  BY <1>5, <1>6 DEF Max
<1>9. \A n \in S : n \in Nat
  BY <1>6
<1> QED BY <1>7, <1>8, <1>9

LEMMA PayLifeIs ==
  ASSUME life \in Int, NEW m \in Mana, NEW n \in Nat
  PROVE  /\ PayLifeOrMana(m, n).left \in Mana /\ PayLifeOrMana(m, n).life \in Int
         /\ IsPositive(m) => \A c \in Colors : /\ PayLifeOrMana(m, n).left[c] >= 0
                                               /\ PayLifeOrMana(m, n).left[c] <= m[c]
<1>1. PICK z \in Colors : z = NbColors - 1
  BY ColorsAre
<1>2. \A c \in Colors : m[c] \in Int /\ m[c] >= -Half /\ m[c] < Half
  BY ManaAssumption DEF Mana, Small
<1>3. PICK k \in Int : /\ k = ByMana(m, n) /\ (k = 0 \/ k = m[z] \/ (0 <= k /\ k <= m[z]))
  <2>1. m[z] \in Int
    BY <1>2
  <2>2. ByMana(m, n) = 0 \/ ByMana(m, n) = Lesser(n, m[z])
    BY <1>1 DEF ByMana
  <2>3. (Lesser(n, m[z]) = n /\ n <= m[z]) \/ Lesser(n, m[z]) = m[z]
    BY <2>1, LesserIs
  <2> QED BY <2>1, <2>2, <2>3
<1>4. PICK l : l = PayLifeOrMana(m, n).left
  OBVIOUS
<1>5. l = [m EXCEPT ![z] = m[z] - k] /\ PayLifeOrMana(m, n).life = life - 2 * (n - k)
  BY <1>1, <1>3, <1>4 DEF PayLifeOrMana, Mana
<1>6. l \in [Colors -> Int] /\ \A c \in Colors : l[c] = IF c = z THEN m[c] - k ELSE m[c]
  BY <1>2, <1>5 DEF Mana
<1>7. \A c \in Colors : l[c] \in Small
  BY <1>2, <1>3, <1>6, ManaAssumption DEF Small
<1>8. l \in Mana
  BY <1>6, <1>7 DEF Mana
<1>9. IsPositive(m) => \A c \in Colors : l[c] >= 0 /\ l[c] <= m[c]
  BY <1>2, <1>3, <1>6 DEF IsPositive
<1> QED BY <1>4, <1>5, <1>8, <1>9
-----------------------------------------------------------------------------
(* The card in hand.  Sunburst puts colours of the pool into its cost: they *)
(* are there, and in all it is no more than can be paid.                   *)
HandCards ==
  [hand : {TRUE}, cost : CostRecords, printed : CostRecords, kicker : CostRecords,
   multi : BOOLEAN, phyrexian : Nat, sunburst : BOOLEAN, burst : Int, kicked : Int,
   chosen : BOOLEAN]
Bursting(k) ==
  /\ Colorless(k.printed) /\ k.cost.hybrids = <<>> /\ k.cost.x = k.printed.x
  /\ Total(k.cost.need) >= Total(k.printed.need)
  /\ k.cost.x = NoX => /\ Total(k.cost.need) = Total(k.printed.need)
                        /\ k.cost.need[0] = Total(k.printed.need) - k.burst
Held(k) == /\ k \in HandCards /\ Proper(k.cost) /\ Proper(k.printed)
           /\ IF k.sunburst THEN Bursting(k) ELSE k.cost = k.printed

LEMMA PlainAfford ==
  ASSUME NEW m \in Mana, IsPositive(m), NEW cost, Proper(cost), cost.hybrids = <<>>
  PROVE  CanAfford(m, cost) <=> /\ \A c \in Colors \ {0} : cost.need[c] <= m[c]
                                /\ Total(cost.need) <= Total(m)
<1>1. PICK n, ps, h : n = cost.need /\ ps = Paying(m, cost) /\ h = cost.hybrids
  OBVIOUS
<1>2. m \in [Colors -> Int] /\ cost \in CostRecords /\ h \in Seq(Hybrids)
      /\ n \in [Colors -> Nat] /\ ps \in SideChoices(h)
  BY <1>1, SmallIs, ProperIs, SidedType DEF Mana
<1>3. \A i \in DOMAIN h : FALSE
  BY <1>1
<1>4. \A c \in Colors : Takes(h, ps, c) = 0
  BY <1>2, <1>3, TakesIs
<1>5. Asked(cost, ps) = n
  <2>1. \A c \in Colors : cost.need[c] + Takes(cost.hybrids, ps, c) = n[c]
    BY <1>1, <1>2, <1>4
  <2> QED BY <1>2, <2>1 DEF Asked
<1>6. CanAfford(m, cost) <=> Covers(m, cost, ps)
  BY <1>1, AffordIs
<1> QED BY <1>1, <1>5, <1>6 DEF Covers

(* Without hybrids, the converted cost is the sum of what is needed.       *)
LEMMA PlainConverted ==
  ASSUME NEW cost, cost.need \in [Colors -> Int], cost.hybrids = <<>>
  PROVE  Converted(cost) = Total(cost.need)
<1> DEFINE h == [i \in DOMAIN cost.hybrids |-> HybridCost(cost.hybrids[i])]
<1>1. IsFiniteSet(DOMAIN cost.hybrids) /\ h \in [DOMAIN cost.hybrids -> Int]
      /\ \A i \in DOMAIN cost.hybrids : h[i] = 0
  <2>1. DOMAIN cost.hybrids = {}
    OBVIOUS
  <2> QED BY <2>1, FS_EmptySet
<1> HIDE DEF h
<1>2. SumFunction(h) = 0
  BY <1>1, SumOfZeros
<1>3. Total(cost.need) \in Int
  BY TotalType
<1> QED BY <1>2, <1>3 DEF Converted, h

LEMMA BurstIs ==
  ASSUME pool \in Mana, NEW k, Held(k), k.sunburst, NEW c \in Colors \ {0}
  PROVE  /\ Held(Burst(k, c)) /\ Burst(k, c).sunburst
         /\ IsPositive(pool) /\ CanAfford(pool, k.cost) => CanAfford(pool, Burst(k, c).cost)
<1>1. CASE Burst(k, c) = k
  BY <1>1
<1>2. CASE Burst(k, c) # k
  <2>1. PICK n \in [Colors -> Nat] : n = k.cost.need
    BY ProperIs DEF Held
  <2>2. /\ pool[c] # 0 /\ ~ HasColor(k.cost, c)
        /\ k.burst < Converted(k.cost) \/ k.cost.x = AnyX
        /\ Burst(k, c) = [k EXCEPT !.cost.need[c] = @ + 1, !.cost.need[0] = @ - Lesser(@, 1),
                                   !.burst = @ + 1]
    BY <1>2 DEF Burst
  <2>3. n[c] = 0 /\ n[0] \in Nat /\ 0 \in Colors /\ c # 0
    BY <2>1, <2>2, ColorsAre DEF HasColor
  <2>4. PICK x \in Nat : x = n[0] - Lesser(n[0], 1) /\ x = IF n[0] = 0 THEN 0 ELSE n[0] - 1
    BY <2>3, LesserIs
  <2>5. PICK nn : nn = [n EXCEPT ![c] = 1, ![0] = x]
    OBVIOUS
  <2>6. nn \in [Colors -> Nat] /\ \A e \in Colors : nn[e] = IF e = 0 THEN x ELSE IF e = c THEN 1 ELSE n[e]
    BY <2>3, <2>4, <2>5
  <2>7. PICK cost : cost = [k.cost EXCEPT !.need = nn]
    OBVIOUS
  <2>8. k \in HandCards /\ k.cost \in CostRecords /\ k.cost.hybrids = <<>> /\ Proper(k.cost)
        /\ Bursting(k) /\ Proper(k.printed)
    BY DEF Held, HandCards, Bursting
  <2>9. nn \in [Colors -> Int]
    BY <2>6
  <2>10. cost \in CostRecords /\ cost.need = nn /\ cost.hybrids = <<>>
    BY <2>7, <2>8, <2>9 DEF CostRecords
  <2>11. PICK j : j = [k EXCEPT !.cost = cost, !.burst = k.burst + 1]
    OBVIOUS
  <2>15. /\ j \in HandCards /\ j.cost = cost /\ j.sunburst = k.sunburst
         /\ j.printed = k.printed /\ j.burst = k.burst + 1
    <3>1. PICK b \in Int : b = k.burst + 1
      BY <2>8 DEF HandCards
    <3> QED BY <2>8, <2>10, <2>11, <3>1 DEF HandCards
  <2>16. Burst(k, c) = j
    <3>1. PICK n1, r1, k1 : /\ n1 = [n EXCEPT ![c] = 1] /\ r1 = [k.cost EXCEPT !.need = n1]
                            /\ k1 = [k EXCEPT !.cost = r1]
      OBVIOUS
    <3>2. n1 \in [Colors -> Nat] /\ n1[0] = n[0] /\ nn = [n1 EXCEPT ![0] = x] /\ n1 \in [Colors -> Int]
      BY <2>3, <2>5, <3>1
    <3>3. r1 \in CostRecords /\ r1.need = n1 /\ cost = [r1 EXCEPT !.need = nn]
      BY <2>7, <2>8, <3>1, <3>2 DEF CostRecords
    <3>4. k1 \in HandCards /\ k1.cost = r1 /\ k1.burst = k.burst
      BY <2>8, <3>1, <3>3 DEF HandCards
    <3>5. j = [k1 EXCEPT !.cost = cost, !.burst = k.burst + 1]
      BY <2>11, <3>1
    <3>6. [k EXCEPT !.cost.need[c] = @ + 1] = k1
      BY <2>1, <2>3, <3>1
    <3>7. PICK k2 : k2 = [k1 EXCEPT !.cost = cost]
      OBVIOUS
    <3>8. [k1 EXCEPT !.cost.need[0] = @ - Lesser(@, 1)] = k2
      <4>1. k1.cost.need = n1 /\ n1[0] - Lesser(n1[0], 1) = x
        BY <2>4, <3>2, <3>3, <3>4
      <4> QED BY <3>2, <3>3, <3>4, <3>7, <4>1
    <3>9. k2 \in HandCards /\ k2.burst = k.burst
      BY <2>10, <3>4, <3>7 DEF HandCards
    <3>10. [k2 EXCEPT !.burst = @ + 1] = j
      BY <3>5, <3>7, <3>9
    <3>11. PICK u, w, b : u = k.cost.need[c] + 1 /\ b = k.burst + 1
                          /\ w = k.cost.need[0] - Lesser(k.cost.need[0], 1)
      OBVIOUS
    <3>12. Burst(k, c) = [k EXCEPT !.cost.need[c] = u, !.cost.need[0] = w, !.burst = b]
      BY <2>2, <3>11
    <3>13. @ = [[[k EXCEPT !.cost.need[c] = u] EXCEPT !.cost.need[0] = w] EXCEPT !.burst = b]
      OBVIOUS
    <3>14. [k EXCEPT !.cost.need[c] = u] = k1
      BY <3>6, <3>11
    <3>15. [k1 EXCEPT !.cost.need[0] = w] = k2
      <4>1. k1.cost.need[0] = k.cost.need[0]
        BY <2>1, <3>2, <3>3, <3>4
      <4> QED BY <3>8, <3>11, <4>1
    <3>16. [k2 EXCEPT !.burst = b] = j
      BY <3>9, <3>10, <3>11
    <3> QED BY <3>12, <3>13, <3>14, <3>15, <3>16
  <2>12. Proper(cost)
    <3>1. ASSUME NEW ch \in SideChoices(cost.hybrids), NEW e \in Colors
          PROVE  cost.need[e] + Takes(cost.hybrids, ch, e) <= Half
      <4>1. cost.hybrids \in Seq(Hybrids) /\ \A i \in DOMAIN cost.hybrids : FALSE
        BY <2>10
      <4>2. Takes(cost.hybrids, ch, e) = 0
        BY <4>1, TakesIs
      <4>3. n[e] <= Half /\ n[0] <= Half /\ n[e] \in Nat
        BY <2>1, <2>8, ProperIs, ColorsAre
      <4>4. nn[e] <= Half /\ nn[e] \in Nat
        BY <2>3, <2>4, <2>6, <4>3, ManaAssumption
      <4> QED BY <2>10, <4>2, <4>4
    <3> QED BY <2>6, <2>10, <3>1 DEF Proper
  <2>17. /\ Total(nn) = IF n[0] = 0 THEN Total(n) + 1 ELSE Total(n)
         /\ Total(n) \in Int /\ Total(nn) \in Int
    <3>1. n \in [Colors -> Int] /\ nn \in [Colors -> Int]
      BY <2>6
    <3>2. PICK u : u = [n EXCEPT ![c] = 1]
      OBVIOUS
    <3>3. u \in [Colors -> Int] /\ \A e \in Colors : u[e] = IF e = c THEN 1 ELSE n[e]
      BY <3>2
    <3>4. Total(u) = Total(n) - n[c] + u[c]
      BY <3>1, <3>3, ColorsAre, SumChange DEF Total
    <3>5. PICK z \in Colors : z = 0
      BY <2>3
    <3>6. \A e \in Colors \ {z} : u[e] = nn[e]
      BY <2>6, <3>3, <3>5
    <3>7. Total(nn) = Total(u) - u[z] + nn[z]
      BY <3>1, <3>3, <3>6, ColorsAre, SumChange DEF Total
    <3>8. u[c] = 1 /\ u[z] = n[0] /\ nn[z] = x /\ Total(n) \in Int /\ Total(u) \in Int
      BY <2>3, <2>6, <3>1, <3>3, <3>5, TotalType
    <3>9. PICK a \in Int, b \in Int, d \in Nat : a = Total(n) /\ b = Total(u) /\ d = n[0]
      BY <2>3, <3>8
    <3>10. b = a + 1 /\ Total(nn) = b - d + x /\ x = IF d = 0 THEN 0 ELSE d - 1
      BY <2>3, <2>4, <3>4, <3>7, <3>8, <3>9
    <3> QED BY <3>9, <3>10
  <2>18. Bursting(j)
    <3>1. PICK t \in Int, b \in Int : t = Total(k.printed.need) /\ b = k.burst
      <4>1. k.printed.need \in [Colors -> Int]
        BY <2>8, ProperIs
      <4> QED BY <2>8, <4>1, TotalType DEF HandCards
    <3>2. Total(n) >= t /\ k.cost.x = k.printed.x /\ k.printed.x \in {NoX, AnyX}
          /\ (k.cost.x = NoX => Total(n) = t /\ n[0] = t - b)
      BY <2>1, <2>8, <3>1 DEF Bursting, Colorless
    <3>3. cost.x = k.cost.x
      BY <2>7, <2>8 DEF CostRecords
    <3>4. Converted(k.cost) = Total(n)
      <4>1. k.cost.need \in [Colors -> Int]
        BY <2>8, CostIs
      <4> QED BY <2>1, <2>8, <4>1, PlainConverted
    <3>5. Total(nn) >= t
      BY <2>17, <3>2
    <3>6. ASSUME cost.x = NoX
          PROVE  Total(nn) = t /\ nn[0] = t - (b + 1)
      <4>1. b < t /\ n[0] = t - b /\ Total(n) = t
        BY <2>2, <3>1, <3>2, <3>3, <3>4, <3>6 DEF NoX, AnyX
      <4> QED BY <2>3, <2>4, <2>6, <2>17, <4>1
    <3> QED BY <2>8, <2>10, <2>15, <3>1, <3>2, <3>3, <3>5, <3>6 DEF Bursting
  <2>13. Held(Burst(k, c)) /\ Burst(k, c).sunburst /\ Burst(k, c).cost = cost
    BY <2>8, <2>10, <2>12, <2>15, <2>16, <2>18 DEF Held
  <2>14. ASSUME IsPositive(pool), CanAfford(pool, k.cost)
         PROVE  CanAfford(pool, cost)
    <3>1. (\A e \in Colors \ {0} : n[e] <= pool[e]) /\ Total(n) <= Total(pool)
      BY <2>1, <2>8, <2>14, PlainAfford
    <3>2. \A e \in Colors : pool[e] \in Nat
      BY <2>14, ManaIs
    <3>3. \A e \in Colors \ {0} : nn[e] <= pool[e]
      BY <2>2, <2>6, <3>1, <3>2
    <3>4. Total(nn) <= Total(pool)
      <4>1. pool \in [Colors -> Int] /\ n \in [Colors -> Int] /\ nn \in [Colors -> Int]
        BY <2>6, ManaIs
      <4>2. CASE n[0] = 0
        <5>1. \A e \in Colors : nn[e] <= pool[e]
          BY <2>4, <2>6, <3>2, <3>3, <4>2
        <5> QED BY <4>1, <5>1, ColorsAre, SumGrows DEF Total
      <4>3. CASE n[0] # 0
        BY <3>1, <4>3, <2>17
      <4> QED BY <4>2, <4>3
    <3> QED BY <2>10, <2>12, <2>14, <3>3, <3>4, PlainAfford
  <2> QED BY <2>13, <2>14
<1> QED BY <1>1, <1>2
LEMMA LookedIs ==
  ASSUME pool \in Mana, NEW k, Held(k)
  PROVE  /\ Held(Looked(k))
         /\ IsPositive(pool) /\ CanAfford(pool, k.cost) => CanAfford(pool, Looked(k).cost)
<1>1. CASE ~ (k.sunburst /\ CanAfford(pool, k.cost))
  BY <1>1 DEF Looked
<1>2. CASE k.sunburst /\ CanAfford(pool, k.cost)
  <2> DEFINE V == {j \in HandCards : Held(j) /\ j.sunburst
                                     /\ (IsPositive(pool) => CanAfford(pool, j.cost))}
  <2>1. k \in V
    BY <1>2 DEF Held
  <2>2. ASSUME NEW j \in V, NEW c \in Colors \ {0}
        PROVE  Burst(j, c) \in V
    <3>1. Held(j) /\ j.sunburst /\ (IsPositive(pool) => CanAfford(pool, j.cost))
      BY <2>2
    <3>2. /\ Held(Burst(j, c)) /\ Burst(j, c).sunburst
          /\ IsPositive(pool) /\ CanAfford(pool, j.cost) => CanAfford(pool, Burst(j, c).cost)
      BY <3>1, BurstIs
    <3>3. Burst(j, c) \in HandCards
      BY <3>2 DEF Held
    <3> QED BY <3>1, <3>2, <3>3
  <2>3. \A j \in V : Held(j) /\ (IsPositive(pool) => CanAfford(pool, j.cost))
    OBVIOUS
  <2> HIDE DEF V
  <2>4. PICK n \in Nat : n = NbColors - 1 /\ Colors = 0 .. n /\ Colors \ {0} = 1 .. n
    BY ColorsAre DEF Colors
  <2> DEFINE F == [c \in 1 .. n |-> [j \in V |-> Burst(j, c)]]
  <2>5. F \in [1 .. n -> [V -> V]]
    BY <2>2, <2>4
  <2>6. \E g : g = [c \in Colors |-> IF c = 0 THEN k ELSE Burst(g[c - 1], c)]
    <3>1. PICK z, f : z = k /\ f = F
      OBVIOUS
    <3>2. PICK i : i = n
      OBVIOUS
    <3>3. Rounds(i, V, z, f)
      BY <2>1, <2>5, <3>1, <3>2 DEF Rounds
    <3>4. PICK g \in [0 .. i -> V] : g[0] = z /\ \A c \in 1 .. i : g[c] = f[c][g[c - 1]]
      BY <3>3, RoundsExist
    <3>5. ASSUME NEW c \in Colors
          PROVE  g[c] = IF c = 0 THEN k ELSE Burst(g[c - 1], c)
      <4>1. CASE c = 0
        BY <3>1, <3>4, <4>1
      <4>2. CASE c # 0
        <5>1. c \in 1 .. n /\ g[c - 1] \in V
          BY <2>4, <3>2, <4>2
        <5>2. g[c] = F[c][g[c - 1]]
          BY <3>1, <3>2, <3>4, <5>1
        <5> QED BY <4>2, <5>1, <5>2
      <4> QED BY <4>1, <4>2
    <3>6. g = [c \in Colors |-> g[c]]
      BY <2>4, <3>2
    <3> QED BY <3>5, <3>6
  <2>7. PICK g : g = CHOOSE h : h = [c \in Colors |-> IF c = 0 THEN k ELSE Burst(h[c - 1], c)]
    OBVIOUS
  <2>8. g = [c \in Colors |-> IF c = 0 THEN k ELSE Burst(g[c - 1], c)]
    BY <2>6, <2>7
  <2>9. Looked(k) = g[n]
    BY <1>2, <2>4, <2>7 DEF Looked
  <2>10. g[0] \in V /\ \A c \in 1 .. n : g[c - 1] \in V => g[c] \in V
    <3>1. g[0] = k /\ \A c \in 1 .. n : c \in Colors /\ g[c] = Burst(g[c - 1], c)
      BY <2>4, <2>8, ColorsAre
    <3> QED BY <2>1, <2>2, <2>4, <3>1
  <2>11. \A c \in 0 .. n : g[c] \in V
    BY <2>10, RoundsStay
  <2> QED BY <2>3, <2>9, <2>11
<1> QED BY <1>1, <1>2

-----------------------------------------------------------------------------
(* The invariant: the pool and its icons, and the card in hand.            *)
Kept(p, ic, o) ==
  /\ p \in Mana /\ ic \in [Colors -> Nat] /\ o \subseteq {"overflow", "removed", "kicker"}
  /\ o \cap {"kicker", "overflow"} = {} => IsPositive(p)
  /\ o = {} => ic = p

IInv == /\ Kept(pool, icons, odd) /\ life \in Int
        /\ card = NoCard \/ Held(card)

(* Of a pool that owes nothing no more is spent than there is.             *)
Spent(p, q) ==
  q \in Mana /\ (IsPositive(p) => \A c \in Colors : q[c] >= 0 /\ q[c] <= p[c])

LEMMA ZeroIs == Zero \in Mana /\ Zero \in [Colors -> Nat] /\ IsPositive(Zero)
BY SmallIs DEF Zero, Mana, IsPositive

LEMMA SpentKeeps ==
  ASSUME NEW p, NEW ic, NEW o, Kept(p, ic, o), NEW q, Spent(p, q)
  PROVE  Kept(q, Wither(ic, p, q), o)
<1>1. p \in Mana /\ p \in [Colors -> Int] /\ q \in Mana /\ q \in [Colors -> Int] /\ ic \in [Colors -> Nat]
  BY ManaIs DEF Kept, Spent
<1>2. PICK w : w = Wither(ic, p, q)
  OBVIOUS
<1>3. w = [c \in Colors |-> AtLeast0(ic[c] - AtLeast0(p[c] - q[c]))]
  BY <1>2 DEF Wither
<1>4. ASSUME NEW c \in Colors
      PROVE  /\ w[c] \in Nat
             /\ ic[c] = p[c] /\ q[c] >= 0 /\ q[c] <= p[c] => w[c] = q[c]
  <2>1. PICK a \in Int, b \in Int, i \in Nat : a = p[c] /\ b = q[c] /\ i = ic[c]
    BY <1>1
  <2>2. AtLeast0(i - AtLeast0(a - b)) \in Nat
        /\ (i = a /\ b >= 0 /\ b <= a => AtLeast0(i - AtLeast0(a - b)) = b)
    BY AtLeast0Is
  <2> QED BY <1>3, <2>1, <2>2
<1>5. w \in [Colors -> Nat]
  BY <1>3, <1>4
<1>6. IsPositive(p) => IsPositive(q)
  BY DEF Spent, IsPositive
<1>7. ASSUME o = {} PROVE w = q
  <2>1. ic = p /\ IsPositive(p)
    BY <1>7 DEF Kept
  <2>2. \A c \in Colors : w[c] = q[c]
    BY <1>4, <2>1 DEF Spent
  <2> QED BY <1>1, <1>5, <2>2
<1> QED BY <1>1, <1>2, <1>5, <1>6, <1>7 DEF Kept

(* What is paid for a proper cost, and Phyrexian mana after it, is spent.  *)
LEMMA PaySpends ==
  ASSUME NEW p \in Mana, NEW cost, Proper(cost), CanAfford(p, cost)
  PROVE  Spent(p, Pay(p, cost))
<1>1. cost \in CostRecords
  BY ProperIs
<1>2. Pay(p, cost) \in Mana
  BY <1>1, PayType
<1>3. IsPositive(p) => \A c \in Colors : Pay(p, cost)[c] >= 0 /\ Pay(p, cost)[c] <= p[c]
  BY AffordIs
<1> QED BY <1>2, <1>3 DEF Spent

LEMMA PayLifeSpends ==
  ASSUME life \in Int, NEW p \in Mana, NEW q, Spent(p, q), NEW n \in Nat
  PROVE  Spent(p, PayLifeOrMana(q, n).left) /\ PayLifeOrMana(q, n).life \in Int
<1>1. PICK r, l : r = PayLifeOrMana(q, n).left /\ l = PayLifeOrMana(q, n).life
  OBVIOUS
<1>2. q \in Mana
  BY DEF Spent
<1>3. r \in Mana /\ l \in Int /\ (IsPositive(q) => \A c \in Colors : r[c] >= 0 /\ r[c] <= q[c])
  BY <1>1, <1>2, PayLifeIs
<1>4. ASSUME IsPositive(p), NEW c \in Colors
      PROVE  r[c] >= 0 /\ r[c] <= p[c]
  <2>1. IsPositive(q) /\ q[c] <= p[c]
    BY <1>4 DEF Spent, IsPositive
  <2>2. q[c] \in Int /\ r[c] \in Int /\ p[c] \in Int
    BY <1>2, <1>3, ManaIs
  <2> QED BY <1>3, <2>1, <2>2
<1> QED BY <1>1, <1>3, <1>4 DEF Spent
(* All of the pool pays for itself.                                        *)
LEMMA PayAllSpends ==
  ASSUME NEW p \in Mana
  PROVE  Spent(p, Pay(p, AsCost(p)))
<1>1. PICK cost : cost = AsCost(p)
  OBVIOUS
<1>2. /\ cost.need = p /\ cost.hybrids = <<>> /\ cost.hybrids \in Seq(Hybrids) /\ cost \in CostRecords
      /\ p \in [Colors -> Int]
  <2>1. p \in [Colors -> Int]
    BY ManaIs
  <2>2. PICK h : h = <<>>
    OBVIOUS
  <2>3. h \in Seq(Hybrids)
    BY <2>2, EmptySeq
  <2> QED BY <1>1, <2>1, <2>2, <2>3 DEF AsCost, CostRecords
<1>3. Pay(p, cost) \in Mana
  BY <1>2, PayType
<1>4. ASSUME IsPositive(p)
      PROVE  Spent(p, Pay(p, cost))
  <2>1. p \in [Colors -> Nat] /\ \A c \in Colors : p[c] <= Half
    <3>1. \A c \in Colors : p[c] \in Small
      BY DEF Mana
    <3> QED BY <1>4, <3>1, ManaIs, ManaAssumption DEF Small
  <2>2. Proper(cost)
    <3>1. ASSUME NEW ch \in SideChoices(cost.hybrids), NEW c \in Colors
          PROVE  cost.need[c] + Takes(cost.hybrids, ch, c) <= Half
      <4>1. \A i \in DOMAIN cost.hybrids : FALSE
        BY <1>2
      <4>2. Takes(cost.hybrids, ch, c) = 0
        BY <1>2, <4>1, TakesIs
      <4> QED BY <1>2, <2>1, <4>2
    <3> QED BY <1>2, <2>1, <3>1 DEF Proper
  <2>3. CanAfford(p, cost)
    <3>1. Total(p) \in Int
      BY <1>2, TotalType
    <3>2. (\A c \in Colors \ {0} : cost.need[c] <= p[c]) /\ Total(cost.need) <= Total(p)
      BY <1>2, <3>1
    <3> QED BY <1>2, <1>4, <2>2, <3>2, PlainAfford
  <2> QED BY <2>2, <2>3, PaySpends
<1>5. ~ IsPositive(p) => Spent(p, Pay(p, cost))
  BY <1>3 DEF Spent
<1> QED BY <1>1, <1>4, <1>5

(* What is added, unless it is too much, adds to pool and icons.           *)
LEMMA EngageKeeps ==
  ASSUME NEW p, NEW ic, NEW o, Kept(p, ic, o), NEW m \in Mana, IsPositive(p) => IsPositive(m)
  PROVE  Kept(Plus(p, m), [c \in Colors |-> ic[c] + AtLeast0(m[c])],
              IF Overflow(p, m) THEN o \cup {"overflow"} ELSE o)
<1>1. p \in Mana /\ p \in [Colors -> Int] /\ m \in [Colors -> Int] /\ ic \in [Colors -> Nat]
  BY ManaIs DEF Kept
<1>2. PICK q, j, w : /\ q = Plus(p, m) /\ j = [c \in Colors |-> ic[c] + AtLeast0(m[c])]
                     /\ w = IF Overflow(p, m) THEN o \cup {"overflow"} ELSE o
  OBVIOUS
<1>3. q \in Mana
  BY <1>1, <1>2, PlusType
<1>4. \A c \in Colors : AtLeast0(m[c]) \in Nat
  BY <1>1, AtLeast0Is
<1>5. j \in [Colors -> Nat]
  BY <1>1, <1>2, <1>4
<1>6. CASE Overflow(p, m)
  BY <1>2, <1>3, <1>5, <1>6 DEF Kept
<1>7. CASE ~ Overflow(p, m)
  <2>1. w = o /\ q = [c \in Colors |-> q[c]] /\ \A c \in Colors : q[c] = p[c] + m[c]
    BY <1>2, <1>7 DEF Overflow, Plus
  <2>2. ASSUME IsPositive(p)
        PROVE  IsPositive(q) /\ (ic = p => j = q)
    <3>1. \A c \in Colors : p[c] \in Nat /\ m[c] \in Nat
      BY <1>1, <2>2 DEF IsPositive
    <3>2. \A c \in Colors : AtLeast0(m[c]) = m[c]
      BY <3>1 DEF AtLeast0
    <3>3. IsPositive(q)
      BY <2>1, <3>1 DEF IsPositive
    <3>4. ic = p => j = q
      BY <1>2, <2>1, <3>2
    <3> QED BY <3>3, <3>4
  <2> QED BY <1>2, <1>3, <1>5, <2>1, <2>2 DEF Kept
<1> QED BY <1>6, <1>7

(* What is removed without an event: the icons stay.                       *)
LEMMA RemovedKeeps ==
  ASSUME NEW p, NEW ic, NEW o, Kept(p, ic, o), NEW q, Spent(p, q)
  PROVE  Kept(q, ic, o \cup {"removed"})
<1>1. q \in Mana /\ (IsPositive(p) => IsPositive(q))
  BY DEF Spent, IsPositive
<1> QED BY <1>1 DEF Kept

LEMMA RemoveSpends ==
  ASSUME NEW p \in Mana, NEW m \in [Colors -> 0 .. (Half - 1)]
  PROVE  /\ Spent(p, [c \in Colors |-> p[c] - Lesser(p[c], m[c])])
         /\ Spent(p, [c \in Colors |-> IF m[c] # 0 THEN 0 ELSE p[c]])
<1>1. \A c \in Colors : p[c] \in Int /\ p[c] >= -Half /\ p[c] < Half /\ m[c] \in Nat
  BY ManaAssumption DEF Mana, Small
<1>2. ASSUME NEW c \in Colors
      PROVE  /\ p[c] - Lesser(p[c], m[c]) \in Small
             /\ p[c] >= 0 => p[c] - Lesser(p[c], m[c]) >= 0 /\ p[c] - Lesser(p[c], m[c]) <= p[c]
  <2>1. PICK a \in Int, b \in Nat : a = p[c] /\ b = m[c] /\ a >= -Half /\ a < Half
    BY <1>1
  <2>2. a - Lesser(a, b) \in Small /\ (a >= 0 => a - Lesser(a, b) >= 0 /\ a - Lesser(a, b) <= a)
    BY <2>1, LesserIs, ManaAssumption DEF Small
  <2> QED BY <2>1, <2>2
<1>3. Spent(p, [c \in Colors |-> p[c] - Lesser(p[c], m[c])])
  BY <1>2 DEF Spent, IsPositive, Mana
<1>4. \A c \in Colors : (IF m[c] # 0 THEN 0 ELSE p[c]) \in Small
  BY <1>1, SmallIs, ManaAssumption DEF Small
<1>5. Spent(p, [c \in Colors |-> IF m[c] # 0 THEN 0 ELSE p[c]])
  BY <1>1, <1>4 DEF Spent, IsPositive, Mana
<1> QED BY <1>3, <1>5
-----------------------------------------------------------------------------
(* The steps.                                                              *)

LEMMA InitIInv == Init => IInv
<1> SUFFICES ASSUME Init PROVE IInv
  OBVIOUS
<1>1. Kept(pool, icons, odd)
  BY ZeroIs DEF Init, Kept
<1> QED BY <1>1 DEF Init, IInv

LEMMA InHand ==
  ASSUME IInv
  PROVE  card.hand => Held(card) /\ card \in HandCards /\ Proper(card.cost)
<1>1. card = NoCard => ~ card.hand
  BY DEF NoCard
<1>2. Held(card) => card \in HandCards /\ Proper(card.cost)
  BY DEF Held
<1> QED BY <1>1, <1>2 DEF IInv

LEMMA ProduceStep ==
  ASSUME IInv, NEW m \in Outputs, Produce(m)
  PROVE  IInv'
<1>1. m \in Mana /\ (IsPositive(pool) => IsPositive(m))
  <2>1. m \in [Colors -> 0 .. (Half - 1)]
    BY PoolAssumption
  <2>2. \A c \in Colors : m[c] \in Small /\ m[c] >= 0
    BY <2>1, ManaAssumption DEF Small
  <2> QED BY <2>1, <2>2 DEF Mana, IsPositive
<1>2. /\ pool' = Plus(pool, m) /\ icons' = [c \in Colors |-> icons[c] + AtLeast0(m[c])]
      /\ odd' = IF Overflow(pool, m) THEN odd \cup {"overflow"} ELSE odd
      /\ life' = life /\ card' = card
  BY DEF Produce, Engage
<1>3. Kept(pool, icons, odd)
  BY DEF IInv
<1>4. Kept(pool', icons', odd')
  BY <1>1, <1>2, <1>3, EngageKeeps
<1> QED BY <1>2, <1>4 DEF IInv, Held, Kept, IsPositive

LEMMA DoubleStep ==
  ASSUME IInv, NEW a \in Abilities, ProduceDouble(a.cost)
  PROVE  IInv'
<1>1. PICK paid, ic : paid = Pay(pool, a.cost) /\ ic = Wither(icons, pool, paid)
  OBVIOUS
<1>2. Kept(pool, icons, odd) /\ pool \in Mana
  BY DEF IInv, Kept
<1>3. Proper(a.cost) /\ CanAfford(pool, a.cost)
  BY PoolAssumption DEF ProduceDouble
<1>4. Spent(pool, paid)
  BY <1>1, <1>2, <1>3, PaySpends
<1>5. Kept(paid, ic, odd)
  BY <1>1, <1>2, <1>4, SpentKeeps
<1>6. paid \in Mana
  BY <1>4 DEF Spent
<1>7. /\ pool' = Plus(paid, paid) /\ icons' = [c \in Colors |-> ic[c] + AtLeast0(paid[c])]
      /\ odd' = IF Overflow(paid, paid) THEN odd \cup {"overflow"} ELSE odd
      /\ life' = life /\ card' = card
  BY <1>1 DEF ProduceDouble
<1>8. Kept(pool', icons', odd')
  BY <1>5, <1>6, <1>7, EngageKeeps
<1> QED BY <1>7, <1>8 DEF IInv, Held, Kept, IsPositive

LEMMA EmptyStep == IInv /\ Empty => IInv'
<1> SUFFICES ASSUME IInv, Empty PROVE IInv'
  OBVIOUS
<1>1. pool' = Zero /\ icons' = Zero /\ odd' = {} /\ life' = life /\ card' = card
  BY DEF Empty
<1>2. Kept(pool', icons', odd')
  BY <1>1, ZeroIs DEF Kept
<1> QED BY <1>1, <1>2 DEF IInv, Held, Kept, IsPositive

LEMMA RemoveStep ==
  ASSUME IInv, NEW m \in Outputs, RemoveMana(m) \/ RemoveAllOf(m)
  PROVE  IInv'
<1>1. m \in [Colors -> 0 .. (Half - 1)]
  BY PoolAssumption
<1>2. Kept(pool, icons, odd) /\ pool \in Mana
  BY DEF IInv, Kept
<1>3. /\ Spent(pool, pool') /\ icons' = icons /\ odd' = odd \cup {"removed"}
      /\ life' = life /\ card' = card
  BY <1>1, <1>2, RemoveSpends DEF RemoveMana, RemoveAllOf
<1>4. Kept(pool', icons', odd')
  BY <1>2, <1>3, RemovedKeeps
<1> QED BY <1>3, <1>4 DEF IInv, Held, Kept, IsPositive

LEMMA PayAllStep == IInv /\ PayAll => IInv'
<1> SUFFICES ASSUME IInv, PayAll PROVE IInv'
  OBVIOUS
<1>1. PICK q : q = Pay(pool, AsCost(pool))
  OBVIOUS
<1>2. Kept(pool, icons, odd) /\ pool \in Mana
  BY DEF IInv, Kept
<1>3. /\ pool' = q /\ icons' = Wither(icons, pool, q) /\ odd' = odd /\ life' = life /\ card' = card
  BY <1>1 DEF PayAll
<1>4. Spent(pool, q)
  BY <1>1, <1>2, PayAllSpends
<1>5. Kept(pool', icons', odd')
  BY <1>2, <1>3, <1>4, SpentKeeps
<1> QED BY <1>3, <1>5 DEF IInv, Held, Kept, IsPositive

LEMMA ActivateStep ==
  ASSUME IInv, NEW a \in Abilities, Activate(a)
  PROVE  IInv'
<1>1. PICK q, r : q = Pay(pool, a.cost) /\ r = PayLifeOrMana(q, a.phyrexian)
  OBVIOUS
<1>2. Kept(pool, icons, odd) /\ pool \in Mana /\ life \in Int
  BY DEF IInv, Kept
<1>3. Proper(a.cost) /\ CanAfford(pool, a.cost) /\ a.phyrexian \in Nat
  BY PoolAssumption DEF Activate
<1>4. Spent(pool, q)
  BY <1>1, <1>2, <1>3, PaySpends
<1>5. Spent(pool, r.left) /\ r.life \in Int
  BY <1>1, <1>2, <1>3, <1>4, PayLifeSpends
<1>6. /\ pool' = r.left /\ icons' = Wither(icons, pool, r.left) /\ odd' = odd /\ life' = r.life
      /\ card' = card
  BY <1>1 DEF Activate
<1>7. Kept(pool', icons', odd')
  BY <1>2, <1>5, <1>6, SpentKeeps
<1> QED BY <1>5, <1>6, <1>7 DEF IInv, Held, Kept, IsPositive

(* The money stays where it is, and another card is in hand, or none.      *)
LEMMA CardStep ==
  ASSUME IInv, card' = NoCard \/ Held(card'), UNCHANGED <<pool, icons, life, odd>>
  PROVE  IInv'
<1>1. Kept(pool', icons', odd')
  BY DEF IInv
<1>2. life' \in Int
  BY DEF IInv
<1>3. (card = NoCard \/ Held(card))'
  BY DEF NoCard, Held
<1> QED BY <1>1, <1>2, <1>3 DEF IInv, Kept, IsPositive

LEMMA DrawStep ==
  ASSUME IInv, NEW k \in Costs, Draw(k)
  PROVE  IInv'
<1>1. /\ Proper(k.cost) /\ k.cost \in CostRecords /\ k.kicker \in CostRecords /\ k.phyrexian \in Nat
      /\ k.sunburst \in BOOLEAN /\ k.multi \in BOOLEAN /\ k.targets \in BOOLEAN
      /\ k.sunburst => Colorless(k.cost)
  BY PoolAssumption
<1>2. card' = [hand |-> TRUE, cost |-> k.cost, printed |-> k.cost, kicker |-> k.kicker,
               multi |-> k.multi, phyrexian |-> k.phyrexian, sunburst |-> k.sunburst,
               burst |-> 0, kicked |-> 0, chosen |-> ~ k.targets]
  BY DEF Draw
<1>3. /\ card' \in HandCards /\ card'.cost = k.cost /\ card'.sunburst = k.sunburst
      /\ card'.printed = k.cost /\ card'.burst = 0
  BY <1>1, <1>2 DEF HandCards
<1>4. Held(card')
  <2>1. ASSUME k.sunburst PROVE k.cost.need[0] = Total(k.cost.need) /\ Total(k.cost.need) \in Int
    <3>1. PICK n \in [Colors -> Int] : n = k.cost.need
      BY <1>1, ProperIs
    <3>2. \A c \in Colors \ {0} : n[c] = 0
      BY <1>1, <2>1, <3>1 DEF Colorless
    <3>3. PICK z, o : z \in Colors /\ z = 0 /\ o = [c \in Colors |-> 0]
      BY ColorsAre
    <3>4. o \in [Colors -> Int] /\ Total(o) = 0 /\ o[z] = 0
      BY <3>3, ColorsAre, SumOfZeros DEF Total
    <3>5. Total(n) = Total(o) - o[z] + n[z]
      BY <3>1, <3>2, <3>3, <3>4, ColorsAre, SumChange DEF Total
    <3> QED BY <3>1, <3>3, <3>4, <3>5
  <2>2. k.sunburst => Bursting(card')
    BY <1>1, <1>3, <2>1 DEF Bursting, Colorless
  <2> QED BY <1>1, <1>3, <2>2 DEF Held
<1>5. UNCHANGED <<pool, icons, life, odd>>
  BY DEF Draw
<1> QED BY <1>4, <1>5, CardStep
LEMMA LookStep == IInv /\ Look => IInv'
<1> SUFFICES ASSUME IInv, Look PROVE IInv'
  OBVIOUS
<1>1. card.hand /\ card' = Looked(card) /\ UNCHANGED <<pool, icons, life, odd>>
  BY DEF Look
<1>2. Held(card) /\ pool \in Mana
  BY <1>1, InHand DEF IInv, Kept
<1>3. Held(card')
  BY <1>1, <1>2, LookedIs
<1> QED BY <1>1, <1>3, CardStep

LEMMA DiscardStep == IInv /\ Discard => IInv'
BY CardStep DEF Discard

(* The kickers are counted into the card, and into its cost.               *)
LEMMA KickerCostsAre ==
  ASSUME IInv, card.hand
  PROVE  KickerCosts.cost \in CostRecords /\ Held(KickerCosts.card)
         /\ KickerCosts.card.phyrexian \in Nat
<1>1. Held(card) /\ card \in HandCards /\ pool \in Mana
  BY InHand DEF IInv, Kept
<1>2. card.cost \in CostRecords /\ card.kicker \in CostRecords
  BY <1>1 DEF HandCards
<1>3. PICK n \in Nat : n = 1 + Kicks(pool, card.cost, card.kicker)
  <2>1. Kicks(pool, card.cost, card.kicker) \in Nat
    BY <1>1, KicksType
  <2> QED BY <2>1
<1>4. /\ KickerCosts.cost = IF card.multi THEN Times(n, card.kicker, card.cost)
                            ELSE AddCost(card.cost, card.kicker)
      /\ KickerCosts.card = IF card.multi THEN [card EXCEPT !.kicked = @ + n - 1] ELSE card
  BY <1>3 DEF KickerCosts
<1>5. KickerCosts.cost \in CostRecords
  BY <1>2, <1>3, <1>4, TimesType, AddCostType
<1>6. PICK b \in Int : b = card.kicked + n - 1
  BY <1>1 DEF HandCards
<1>7. PICK k : k = [card EXCEPT !.kicked = b]
  OBVIOUS
<1>8. /\ k \in HandCards /\ k.cost = card.cost /\ k.sunburst = card.sunburst
      /\ k.printed = card.printed /\ k.burst = card.burst
  BY <1>1, <1>6, <1>7 DEF HandCards
<1>9. Held(k)
  BY <1>1, <1>8 DEF Held, Bursting
<1>10. KickerCosts.card = k \/ KickerCosts.card = card
  BY <1>4, <1>6, <1>7
<1>11. Held(KickerCosts.card)
  BY <1>1, <1>9, <1>10
<1>12. KickerCosts.card.phyrexian \in Nat
  BY <1>1, <1>8, <1>10 DEF HandCards
<1> QED BY <1>5, <1>11, <1>12

LEMMA ChosenHeld ==
  ASSUME NEW k, Held(k)
  PROVE  Held([k EXCEPT !.chosen = TRUE])
<1>1. PICK j, b : b = TRUE /\ j = [k EXCEPT !.chosen = b]
  OBVIOUS
<1>2. k \in HandCards /\ b \in BOOLEAN
  BY <1>1 DEF Held
<1>3. /\ j \in HandCards /\ j.cost = k.cost /\ j.sunburst = k.sunburst
      /\ j.printed = k.printed /\ j.burst = k.burst
  BY <1>1, <1>2 DEF HandCards
<1>4. Held(j)
  BY <1>3 DEF Held, Bursting
<1> QED BY <1>1, <1>4

LEMMA AskStep == IInv /\ Ask => IInv'
<1> SUFFICES ASSUME IInv, Ask PROVE IInv'
  OBVIOUS
<1>1. card.hand /\ UNCHANGED <<pool, icons, life, odd>>
  BY DEF Ask
<1>2. Held(card) /\ pool \in Mana
  BY <1>1, InHand DEF IInv, Kept
<1>3. Held(Looked(card)) /\ Held(KickerCosts.card)
  BY <1>1, <1>2, LookedIs, KickerCostsAre
<1>4. card' = [KickerCosts.card EXCEPT !.chosen = TRUE] \/ card' = [Looked(card) EXCEPT !.chosen = TRUE]
  BY DEF Ask
<1>5. Held(card')
  BY <1>3, <1>4, ChosenHeld
<1> QED BY <1>1, <1>5, CardStep

(* A spell is paid for: with a kicker the pool may owe, else what is left  *)
(* is spent.                                                               *)
LEMMA CastForStep ==
  ASSUME IInv, NEW k, NEW left, NEW result, CastFor(k, left, result),
         k.phyrexian \in Nat, left \in Mana, result # "kicker" => Spent(pool, left)
  PROVE  IInv'
<1>1. PICK r : r = PayLifeOrMana(left, k.phyrexian)
  OBVIOUS
<1>2. /\ pool' = r.left /\ life' = r.life /\ icons' = Wither(icons, pool, r.left) /\ card' = NoCard
      /\ odd' = IF result = "kicker" THEN odd \cup {"kicker"} ELSE odd
  BY <1>1 DEF CastFor
<1>3. Kept(pool, icons, odd) /\ pool \in Mana /\ life \in Int
  BY DEF IInv, Kept
<1>4. r.left \in Mana /\ r.life \in Int
  BY <1>1, <1>3, PayLifeIs
<1>5. CASE result # "kicker"
  <2>1. Spent(pool, r.left)
    BY <1>1, <1>3, <1>5, PayLifeSpends
  <2>2. Kept(pool', icons', odd')
    BY <1>2, <1>3, <1>5, <2>1, SpentKeeps
  <2> QED BY <1>2, <1>4, <2>2 DEF IInv, Kept, IsPositive, NoCard
<1>6. CASE result = "kicker"
  <2>1. icons' \in [Colors -> Nat]
    <3>1. \A c \in Colors : AtLeast0(icons[c] - AtLeast0(pool[c] - r.left[c])) \in Nat
      BY DEF AtLeast0
    <3> QED BY <1>2, <3>1 DEF Wither
  <2>2. odd' = odd \cup {"kicker"} /\ odd \subseteq {"overflow", "removed", "kicker"}
    BY <1>2, <1>3, <1>6 DEF Kept
  <2>3. Kept(pool', icons', odd')
    BY <1>2, <1>4, <2>1, <2>2 DEF Kept
  <2> QED BY <1>2, <1>4, <2>3 DEF IInv, Kept, IsPositive, NoCard
<1> QED BY <1>5, <1>6

LEMMA CastStep == IInv /\ Cast => IInv'
<1> SUFFICES ASSUME IInv, Cast PROVE IInv'
  OBVIOUS
<1> DEFINE k == Looked(card)
           kicks == IF ~ alwaysKick \/ k.kicker = NoKicker THEN 0
                    ELSE IF k.multi THEN Kicks(pool, k.cost, k.kicker)
                    ELSE IF CanAfford(pool, AddCost(k.cost, k.kicker)) THEN 1 ELSE 0
           multi == alwaysKick /\ k.kicker # NoKicker /\ k.multi
           base == Pay(pool, k.cost)
           left == IF k.kicker = NoKicker THEN base ELSE PayTimes(base, kicks, k.kicker)
           j == [k EXCEPT !.kicked = IF multi THEN @ + kicks ELSE @]
           result == IF kicks > 0 \/ multi THEN "kicker" ELSE "paid"
<1>1. card.hand /\ CanAfford(pool, card.cost) /\ CastFor(j, left, result)
  BY DEF Cast
<1>2. Held(card) /\ pool \in Mana
  BY <1>1, InHand DEF IInv, Kept
<1>3. Held(k) /\ (IsPositive(pool) => CanAfford(pool, k.cost))
  BY <1>1, <1>2, LookedIs
<1>4. k \in HandCards /\ Proper(k.cost) /\ k.cost \in CostRecords /\ k.kicker \in CostRecords
      /\ k.phyrexian \in Nat
  BY <1>3 DEF Held, HandCards
<1>5. Spent(pool, base)
  <2>1. IsPositive(pool) => Spent(pool, base)
    BY <1>2, <1>3, <1>4, PaySpends
  <2>2. base \in Mana
    BY <1>2, <1>4, PayType
  <2>3. ~ IsPositive(pool) => Spent(pool, base)
    BY <2>2 DEF Spent
  <2> QED BY <2>1, <2>3
<1>6. kicks \in Nat
  <2>1. Kicks(pool, k.cost, k.kicker) \in Nat
    BY <1>2, KicksType
  <2> QED BY <2>1
<1>7. j.phyrexian = k.phyrexian
  BY <1>4 DEF HandCards
<1> HIDE DEF k, j
<1>8. left \in Mana /\ (result # "kicker" => left = base)
  <2>1. base \in Mana
    BY <1>5 DEF Spent
  <2>2. result # "kicker" => kicks = 0
    BY <1>6
  <2> HIDE DEF kicks, base, result
  <2>3. PayTimes(base, kicks, k.kicker) \in Mana /\ (kicks = 0 => PayTimes(base, kicks, k.kicker) = base)
    BY <1>4, <1>6, <2>1, PayTimesType
  <2> QED BY <2>1, <2>2, <2>3
<1> HIDE DEF left, result, base
<1> QED BY <1>1, <1>4, <1>5, <1>7, <1>8, CastForStep

LEMMA CastKickedStep == IInv /\ CastKicked => IInv'
<1> SUFFICES ASSUME IInv, CastKicked PROVE IInv'
  OBVIOUS
<1>1. PICK k, cost : k = KickerCosts.card /\ cost = KickerCosts.cost
  OBVIOUS
<1>2. card.hand /\ CastFor(k, Pay(pool, cost), "kicker")
  BY <1>1 DEF CastKicked, KickerClick
<1>3. cost \in CostRecords /\ k.phyrexian \in Nat
  BY <1>1, <1>2, KickerCostsAre
<1>4. PICK left \in Mana : left = Pay(pool, cost)
  <2>1. pool \in Mana
    BY DEF IInv, Kept
  <2> QED BY <1>3, <2>1, PayType
<1>5. PICK result : result = "kicker"
  OBVIOUS
<1> QED BY <1>2, <1>3, <1>4, <1>5, CastForStep

LEMMA NextIInv == IInv /\ [Next]_vars => IInv'
<1> SUFFICES ASSUME IInv, [Next]_vars PROVE IInv'
  OBVIOUS
<1>1. ASSUME NEW m \in Outputs, Produce(m) \/ RemoveMana(m) \/ RemoveAllOf(m)
      PROVE  IInv'
  BY <1>1, ProduceStep, RemoveStep
<1>2. ASSUME NEW a \in Abilities, Activate(a) \/ ProduceDouble(a.cost)
      PROVE  IInv'
  BY <1>2, ActivateStep, DoubleStep
<1>3. ASSUME NEW k \in Costs, Draw(k)
      PROVE  IInv'
  BY <1>3, DrawStep
<1>4. CASE Empty \/ PayAll \/ Look \/ Cast \/ CastKicked \/ Ask \/ Discard
  BY <1>4, EmptyStep, PayAllStep, LookStep, CastStep, CastKickedStep, AskStep, DiscardStep
<1>5. CASE UNCHANGED vars
  BY <1>5, CardStep DEF vars, IInv
<1> QED BY <1>1, <1>2, <1>3, <1>4, <1>5 DEF Next

(* The inductive invariant holds in every reachable state.                 *)
THEOREM Invariant == Spec => []IInv
BY InitIInv, NextIInv, PTL DEF Spec

(* The pool holds numbers of its width, and owes mana only for a kicker    *)
(* or when a number overflowed (ManaCost::Diff(), ManaPool::pay()).        *)
THEOREM PoolAlwaysSound == Spec => []PoolSound
<1>1. IInv => PoolSound
  BY DEF IInv, Kept, Mana, Small, PoolSound, TypeOK, OnlyKickersOwe
<1> QED
  BY <1>1, Invariant, PTL

(* The icons show the pool, however it was paid from, until mana is taken  *)
(* without an event, overflows, or is owed (GuiMana::receiveEventMinus()). *)
THEOREM IconsAlwaysShowPool == Spec => []IconsShowPool
<1>1. IInv => IconsShowPool
  BY DEF IInv, Kept, IconsShowPool
<1> QED
  BY <1>1, Invariant, PTL

(* canAfford() says of the card in hand what the rules of the game say:    *)
(* what it affirms can be paid, and if the hybrids have two colours it     *)
(* misses no way to pay (ManaCost::canAfford(), tryToPayHybrids()).        *)
THEOREM AffordIsAlwaysRight == Spec => []AffordIsRight
<1>1. IInv => AffordIsRight
  <2>1. SUFFICES ASSUME IInv, card.hand, IsPositive(pool)
                 PROVE  /\ CanAfford(pool, card.cost) => Payable(pool, card.cost)
                        /\ Colored(card.cost) =>
                             (CanAfford(pool, card.cost) <=> Payable(pool, card.cost))
    BY DEF AffordIsRight, AffordIsExact, AffordIsSound
  <2>2. pool \in Mana /\ Proper(card.cost)
    BY <2>1, InHand DEF IInv, Kept
  <2>3. CanAfford(pool, card.cost) => Payable(pool, card.cost)
    BY <2>1, <2>2, AffordSound
  <2>4. Colored(card.cost) /\ Payable(pool, card.cost) => CanAfford(pool, card.cost)
    BY <2>1, <2>2, AffordExact
  <2> QED BY <2>3, <2>4
<1> QED
  BY <1>1, Invariant, PTL

-----------------------------------------------------------------------------
(* What is paid for a spell.  Generic mana only changes its colour: in all *)
(* there is as much left.                                                  *)
LEMMA GenericKeepsTotal ==
  ASSUME NEW d \in [Colors -> Int]
  PROVE  Total(Generic(d)) = Total(d)
<1>1. PICK g \in [Colors -> Int], t \in [Colors -> Int] :
        g = Generic(d) /\ t = Took(d) /\ t[0] = 0
  <2>1. Took(d) \in [Colors -> Int]
    BY TookIs
  <2>2. Took(d)[0] = 0
    BY ColorsAre DEF Took
  <2> QED BY <2>1, <2>2, GenericIs
<1>2. PICK n \in Int : n = Total(t)
  BY TotalType
<1>3. CASE Debt(d) = 0
  BY <1>3, GenericTakes
<1>4. CASE Debt(d) # 0
  <2>1. g = [c \in Colors |-> IF c = 0 THEN d[0] + n ELSE d[c] - t[c]]
    BY <1>1, <1>2, <1>4, GenericTakes
  <2>2. PICK u : u = [c \in Colors |-> IF c = 0 THEN -n ELSE t[c]]
    OBVIOUS
  <2>3. u \in [Colors -> Int] /\ u[0] = -n
    BY <2>2, ColorsAre
  <2>4. \A c \in Colors : d[c] = g[c] + u[c]
    BY <2>1, <2>2
  <2>5. First(u, NbColors) = First(t, NbColors)
    <3>1. \A e \in 1 .. (NbColors - 1) : u[e] = t[e]
      BY <2>2, ColorsAre
    <3> QED BY <3>1 DEF First
  <2>6. First(t, NbColors) = n /\ Total(u) = -n + First(u, NbColors)
    <3>1. NbColors \in 1 .. NbColors
      BY ColorsAre
    <3>2. First(t, NbColors) \in Int /\ n = 0 + First(t, NbColors) /\ Total(u) = u[0] + First(u, NbColors)
      BY <1>1, <1>2, <2>3, <3>1, FirstIs
    <3> QED BY <2>3, <3>2
  <2>7. Total(d) = Total(g) + Total(u)
    BY <2>3, <2>4, ColorsAre, SumAdds DEF Total
  <2>8. Total(g) \in Int /\ Total(u) = 0
    BY <2>5, <2>6, TotalType
  <2> QED BY <1>1, <2>7, <2>8
<1> QED BY <1>3, <1>4

(* A choice of sides is told by its rank.                                  *)
LEMMA RankTells ==
  ASSUME NEW hs \in Seq(Hybrids), NEW a \in SideChoices(hs), NEW b \in SideChoices(hs),
         Rank(a) = Rank(b)
  PROVE  a = b
<1>1. PICK n \in Nat : n = Len(hs) /\ a \in [1 .. n -> {1, 2}] /\ b \in [1 .. n -> {1, 2}]
  BY DEF SideChoices
<1>2. PICK g, h : Ranks(n, a, g) /\ Ranks(n, b, h) /\ g[n] = h[n]
  <2>1. PICK g : Ranks(Len(hs), a, g) /\ Rank(a) = g[Len(hs)]
    BY RankIs
  <2>2. PICK h : Ranks(Len(hs), b, h) /\ Rank(b) = h[Len(hs)]
    BY RankIs
  <2> QED BY <1>1, <2>1, <2>2
<1>3. ASSUME NEW i \in 1 .. n
      PROVE  /\ g[i] = h[i] => g[i - 1] = h[i - 1] /\ a[n + 1 - i] = b[n + 1 - i]
  <2>1. g[i - 1] \in Nat /\ h[i - 1] \in Nat /\ a[n + 1 - i] \in {1, 2} /\ b[n + 1 - i] \in {1, 2}
    <3>1. i - 1 \in 0 .. n /\ n + 1 - i \in 1 .. n
      OBVIOUS
    <3> QED BY <1>1, <1>2, <3>1 DEF Ranks
  <2>2. g[i] = 2 * g[i - 1] + a[n + 1 - i] - 1 /\ h[i] = 2 * h[i - 1] + b[n + 1 - i] - 1
    BY <1>2 DEF Ranks
  <2>3. PICK u \in Nat, v \in Nat, x \in {1, 2}, y \in {1, 2} :
          u = g[i - 1] /\ v = h[i - 1] /\ x = a[n + 1 - i] /\ y = b[n + 1 - i]
    BY <2>1
  <2>4. 2 * u + x - 1 = 2 * v + y - 1 => u = v /\ x = y
    OBVIOUS
  <2> QED BY <2>2, <2>3, <2>4
<1> DEFINE T == {j \in Nat : j <= n => g[n - j] = h[n - j]}
<1>4. 0 \in T
  BY <1>2
<1>5. ASSUME NEW j \in Nat, j \in T
      PROVE  j + 1 \in T
  <2>1. SUFFICES ASSUME j + 1 <= n PROVE g[n - (j + 1)] = h[n - (j + 1)]
    OBVIOUS
  <2>2. n - j \in 1 .. n /\ (n - j) - 1 = n - (j + 1) /\ g[n - j] = h[n - j]
    BY <1>5, <2>1
  <2> QED BY <1>3, <2>2
<1>6. Nat \subseteq T
  <2> HIDE DEF T
  <2> QED BY <1>4, <1>5, CountUp
<1>7. ASSUME NEW e \in 1 .. n PROVE a[e] = b[e]
  <2>1. PICK i \in 1 .. n, j \in Nat : i = n + 1 - e /\ n + 1 - i = e /\ j = n - i /\ j <= n /\ n - j = i
    <3>1. n + 1 - e \in 1 .. n /\ n - (n + 1 - e) \in Nat
      OBVIOUS
    <3> QED BY <3>1
  <2>2. j \in T
    BY <1>6, <2>1
  <2>3. g[i] = h[i]
    BY <2>1, <2>2
  <2> QED BY <1>3, <2>1, <2>3
<1> QED BY <1>1, <1>7

(* If the sides that are paid of some mana fit in less of it, then they    *)
(* are paid of that, too.                                                  *)
LEMMA SameSides ==
  ASSUME NEW hs \in Seq(Hybrids), NEW m \in [Colors -> Int], NEW p \in [Colors -> Int],
         \A c \in Colors : p[c] <= m[c], Fits(hs, PaidSides(hs, m), p)
  PROVE  PaidSides(hs, p) = PaidSides(hs, m)
<1>1. PICK a \in SideChoices(hs), b \in SideChoices(hs) : a = PaidSides(hs, m) /\ b = PaidSides(hs, p)
  BY PaidSidesAre
<1>2. ASSUME NEW ch \in SideChoices(hs), Fits(hs, ch, p)
      PROVE  Fits(hs, ch, m)
  <2>1. ASSUME NEW i \in DOMAIN hs
        PROVE  Takes(hs, ch, Side(hs[i], ch[i]).color) <= m[Side(hs[i], ch[i]).color]
    <3>1. PICK c \in Colors : c = Side(hs[i], ch[i]).color
      <4>1. hs[i] \in Hybrids /\ ch[i] \in {1, 2}
        BY DEF SideChoices
      <4> QED BY <4>1, SideIs
    <3>2. Takes(hs, ch, c) <= p[c]
      BY <1>2, <3>1 DEF Fits
    <3>3. PICK t \in Nat : t = Takes(hs, ch, c)
      BY TakesIs
    <3> QED BY <3>1, <3>2, <3>3
  <2> QED BY <2>1 DEF Fits
<1>3. Fits(hs, b, p) /\ Rank(b) <= Rank(a)
  BY <1>1, PaidSidesAre
<1>4. Rank(a) <= Rank(b)
  <2>1. Fits(hs, b, m)
    BY <1>2, <1>3
  <2> QED BY <1>1, <2>1, PaidSidesAre
<1>5. Rank(a) \in Nat /\ Rank(b) \in Nat
  BY RankType
<1>6. Rank(a) = Rank(b)
  BY <1>3, <1>4, <1>5
<1> QED BY <1>1, <1>6, RankTells

-----------------------------------------------------------------------------
(* A cost that is paid of mana that owes nothing, and what X takes then.   *)
Affords(m, cost) ==
  m \in Mana /\ IsPositive(m) /\ Proper(cost) /\ Colored(cost) /\ CanAfford(m, cost)
XTakes(m, cost) ==
  [c \in Colors |-> IF cost.x # NoX /\ ForX(cost.x, c) THEN Generic(Sided(m, cost))[c] ELSE 0]

LEMMA AffordsAre ==
  ASSUME NEW m, NEW cost, Affords(m, cost)
  PROVE  /\ m \in [Colors -> Int] /\ m \in [Colors -> Nat]
         /\ cost \in CostRecords /\ cost.hybrids \in Seq(Hybrids)
         /\ cost.need \in [Colors -> Nat] /\ cost.need \in [Colors -> Int]
         /\ Paying(m, cost) \in SideChoices(cost.hybrids)
         /\ Sided(m, cost) \in [Colors -> Int] /\ Needed(m, cost) \in [Colors -> Int]
         /\ Generic(Sided(m, cost)) \in [Colors -> Nat]
         /\ \A c \in Colors : Takes(cost.hybrids, Paying(m, cost), c) \in Nat
<1>1. m \in Mana /\ Proper(cost) /\ m \in [Colors -> Int] /\ m \in [Colors -> Nat]
  BY ManaIs DEF Affords
<1>2. /\ cost \in CostRecords /\ cost.hybrids \in Seq(Hybrids) /\ cost.need \in [Colors -> Nat]
      /\ cost.need \in [Colors -> Int]
  BY <1>1, ProperIs, CostIs
<1>3. Sided(m, cost) \in Mana /\ Needed(m, cost) \in Mana
      /\ Paying(m, cost) \in SideChoices(cost.hybrids)
  BY <1>1, <1>2, SidedType
<1>4. PICK s \in [Colors -> Int] : s = Sided(m, cost)
  BY <1>3, ManaIs
<1>5. Generic(s) \in [Colors -> Int] /\ \A c \in Colors : Generic(s)[c] >= 0
  BY <1>1, <1>2, <1>4, GenericIs, PayIs DEF Affords
<1>6. Generic(s) \in [Colors -> Nat]
  BY <1>5
<1>7. Needed(m, cost) \in [Colors -> Int]
  BY <1>3, ManaIs
<1>8. \A c \in Colors : Takes(cost.hybrids, Paying(m, cost), c) \in Nat
  BY <1>2, <1>3, TakesIs
<1> QED BY <1>1, <1>2, <1>3, <1>4, <1>6, <1>7, <1>8

(* Diff(), in the same parts.                                              *)
LessX(g, x) == [c \in Colors |-> IF ForX(x, c) /\ g[c] > 0 THEN 0 ELSE g[c]]
OfX(g, x) == [c \in Colors |-> IF ForX(x, c) THEN AtLeast0(g[c]) ELSE 0]
LEMMA DiffIs ==
  ASSUME NEW m, NEW cost, NEW g, g = Generic(Sided(m, cost))
  PROVE  /\ Pay(m, cost) = IF cost.x = NoX THEN g ELSE LessX(g, cost.x)
         /\ Diff(m, cost).x = IF cost.x = NoX THEN 0 ELSE Wrap(Total(OfX(g, cost.x)))
<1>1. Diff(m, cost) = IF cost.x = NoX THEN [left |-> g, x |-> 0]
                      ELSE [left |-> LessX(g, cost.x), x |-> Wrap(Total(OfX(g, cost.x)))]
  BY DEF Diff, Sided, Paying, Needed, LessX, OfX
<1> QED BY <1>1 DEF Pay

(* A hybrid of two colours costs one mana, whichever side is paid.         *)
LEMMA ConvertedIs ==
  ASSUME NEW cost, cost \in CostRecords, Colored(cost), NEW ch \in SideChoices(cost.hybrids)
  PROVE  /\ Converted(cost) = Total(cost.need) + Total([c \in Colors |-> Takes(cost.hybrids, ch, c)])
         /\ Total([c \in Colors |-> Takes(cost.hybrids, ch, c)]) \in Nat
<1>1. PICK hs \in Seq(Hybrids) : hs = cost.hybrids
  BY CostIs
<1>2. \A i \in DOMAIN hs, s \in {1, 2} : Side(hs[i], s).color # 0
  BY <1>1 DEF Colored
<1>3. ASSUME NEW i \in DOMAIN hs PROVE HybridCost(hs[i]) = 1
  <2>1. hs[i] \in Hybrids /\ Side(hs[i], 1).color # 0 /\ Side(hs[i], 2).color # 0
    BY <1>2
  <2>2. hs[i].value1 = 1 /\ hs[i].value2 = 1
    BY <2>1 DEF Side, Hybrids
  <2> QED BY <2>2 DEF HybridCost
<1>4. [i \in DOMAIN hs |-> HybridCost(hs[i])] = [i \in DOMAIN hs |-> 1]
  BY <1>3
<1>5. Total([c \in Colors |-> Takes(hs, ch, c)]) = SumFunction([i \in DOMAIN hs |-> 1])
  BY <1>1, <1>2, TakesInAll
<1>6. SumFunction([i \in DOMAIN hs |-> 1]) \in Nat
  <2> DEFINE f == [i \in DOMAIN hs |-> 1]
  <2>1. f \in [DOMAIN hs -> Nat] /\ IsFiniteSet(DOMAIN hs)
    BY FS_Interval
  <2> HIDE DEF f
  <2>2. SumFunction(f) \in Nat
    BY <2>1, SumIsNat
  <2> QED BY <2>2 DEF f
<1> QED BY <1>1, <1>4, <1>5, <1>6 DEF Converted

(* In all, what is left is the mana without the cost and without what X    *)
(* takes; and that is what Diff() says X is, if a number can hold it.      *)
LEMMA PaidInAll ==
  ASSUME NEW m, NEW cost, Affords(m, cost)
  PROVE  /\ XTakes(m, cost) \in [Colors -> Nat] /\ Pay(m, cost) \in [Colors -> Nat]
         /\ \A c \in Colors : /\ Pay(m, cost)[c] = Generic(Sided(m, cost))[c] - XTakes(m, cost)[c]
                              /\ Pay(m, cost)[c] <= m[c]
         /\ Converted(cost) \in Nat /\ Total(XTakes(m, cost)) \in Nat
         /\ Total(m) = Total(Pay(m, cost)) + Converted(cost) + Total(XTakes(m, cost))
         /\ Diff(m, cost).x = IF cost.x = NoX THEN 0 ELSE Wrap(Total(XTakes(m, cost)))
<1>1. PICK g, s, x, p : g = Generic(s) /\ s = Sided(m, cost) /\ x = XTakes(m, cost) /\ p = Pay(m, cost)
  OBVIOUS
<1>2. g \in [Colors -> Nat] /\ s \in [Colors -> Int] /\ m \in [Colors -> Nat] /\ m \in [Colors -> Int]
  BY <1>1, AffordsAre
<1>3. /\ x \in [Colors -> Nat]
      /\ \A c \in Colors : x[c] = IF cost.x # NoX /\ ForX(cost.x, c) THEN g[c] ELSE 0
  BY <1>1, <1>2 DEF XTakes
<1>0. g = Generic(Sided(m, cost)) /\ g = Generic(s)
  BY <1>1
<1>4. p = IF cost.x = NoX THEN g ELSE LessX(g, cost.x)
  BY <1>0, <1>1, DiffIs
<1>5. \A c \in Colors : p[c] = g[c] - x[c] /\ p[c] \in Nat
  <2>1. ASSUME NEW c \in Colors PROVE p[c] = g[c] - x[c] /\ p[c] \in Nat
    <3>1. g[c] \in Nat
      BY <1>2
    <3>2. x[c] = IF cost.x # NoX /\ ForX(cost.x, c) THEN g[c] ELSE 0
      BY <1>3
    <3>3. CASE cost.x = NoX
      BY <1>4, <3>1, <3>2, <3>3
    <3>4. CASE cost.x # NoX
      <4>1. p[c] = IF ForX(cost.x, c) /\ g[c] > 0 THEN 0 ELSE g[c]
        BY <1>4, <3>4 DEF LessX
      <4> QED BY <3>1, <3>2, <3>4, <4>1
    <3> QED BY <3>3, <3>4
  <2> QED BY <2>1
<1>6. p \in [Colors -> Nat]
  <2>1. \E F : p = [c \in Colors |-> F[c]]
    <3>1. CASE cost.x = NoX
      BY <1>2, <1>4, <3>1
    <3>2. CASE cost.x # NoX
      BY <1>4, <3>2 DEF LessX
    <3> QED BY <3>1, <3>2
  <2> QED BY <1>5, <2>1
<1>7. \A c \in Colors : p[c] <= m[c]
  BY <1>1, AffordIs DEF Affords
<1>8. PICK t : t = [c \in Colors |-> Takes(cost.hybrids, Paying(m, cost), c)]
  OBVIOUS
<1>9. PICK n \in [Colors -> Nat] : n = cost.need /\ n \in [Colors -> Int]
  BY AffordsAre
<1>10. t \in [Colors -> Nat] /\ t \in [Colors -> Int]
  <2>1. \A c \in Colors : Takes(cost.hybrids, Paying(m, cost), c) \in Nat
    BY AffordsAre
  <2> QED BY <1>8, <2>1
<1>11. Converted(cost) = Total(n) + Total(t) /\ Total(t) \in Nat /\ Total(n) \in Nat
  <2>1. Total(n) \in Nat
    BY <1>9, ColorsAre, SumIsNat DEF Total
  <2>2. cost \in CostRecords /\ Paying(m, cost) \in SideChoices(cost.hybrids) /\ Colored(cost)
    BY AffordsAre DEF Affords
  <2> QED BY <1>8, <1>9, <2>1, <2>2, ConvertedIs
<1>12. \A c \in Colors : s[c] = m[c] - (n[c] + t[c])
  BY <1>1, <1>8, <1>9, NothingWraps DEF Affords
<1>13. Total(m) = Total(s) + Total(n) + Total(t)
  <2>1. PICK u : u = [c \in Colors |-> n[c] + t[c]]
    OBVIOUS
  <2>2. u \in [Colors -> Int] /\ \A c \in Colors : u[c] = n[c] + t[c] /\ m[c] = s[c] + u[c]
    BY <1>2, <1>9, <1>10, <1>12, <2>1
  <2>3. Total(u) = Total(n) + Total(t)
    BY <1>9, <1>10, <2>2, ColorsAre, SumAdds DEF Total
  <2>4. Total(m) = Total(s) + Total(u)
    BY <1>2, <2>2, ColorsAre, SumAdds DEF Total
  <2>5. Total(s) \in Int
    BY <1>2, TotalType
  <2> QED BY <1>11, <2>3, <2>4, <2>5
<1>14. Total(s) = Total(p) + Total(x) /\ Total(p) \in Nat /\ Total(x) \in Nat
  <2>1. Total(g) = Total(s)
    BY <1>1, <1>2, GenericKeepsTotal
  <2>2. p \in [Colors -> Int] /\ x \in [Colors -> Int] /\ g \in [Colors -> Int]
        /\ \A c \in Colors : g[c] = p[c] + x[c]
    BY <1>2, <1>3, <1>5, <1>6
  <2>3. Total(g) = Total(p) + Total(x)
    BY <2>2, ColorsAre, SumAdds DEF Total
  <2>4. Total(p) \in Nat /\ Total(x) \in Nat
    BY <1>3, <1>6, ColorsAre, SumIsNat DEF Total
  <2> QED BY <2>1, <2>3, <2>4
<1>15. Diff(m, cost).x = IF cost.x = NoX THEN 0 ELSE Wrap(Total(x))
  <2>1. CASE cost.x = NoX
    BY <1>0, <2>1, DiffIs
  <2>2. CASE cost.x # NoX
    <3>1. x = OfX(g, cost.x)
      <4>1. \A c \in Colors : x[c] = IF ForX(cost.x, c) THEN AtLeast0(g[c]) ELSE 0
        BY <1>2, <1>3, <2>2, AtLeast0Is
      <4> QED BY <1>3, <4>1 DEF OfX
    <3> QED BY <1>0, <2>2, <3>1, DiffIs
  <2> QED BY <2>1, <2>2
<1>16. Total(m) = Total(p) + Converted(cost) + Total(x) /\ Converted(cost) \in Nat
  BY <1>11, <1>13, <1>14
<1> QED BY <1>1, <1>3, <1>5, <1>6, <1>7, <1>14, <1>15, <1>16

-----------------------------------------------------------------------------
(* An X that one colour pays is read again from what was paid: it comes to *)
(* the same sides, and to the same mana taken from the other colours.      *)
PaidOf(m, cost, p, q) ==
  /\ p \in [Colors -> Int] /\ q \in [Colors -> Nat]
  /\ \A c \in Colors : p[c] = m[c] - q[c] /\ q[c] <= Pay(m, cost)[c]
  /\ \A c \in Colors : c # NbColors - 1 => q[c] = Pay(m, cost)[c]

LEMMA PaidSidesStay ==
  ASSUME NEW m, NEW cost, Affords(m, cost), NEW p, NEW q, PaidOf(m, cost, p, q)
  PROVE  /\ p \in Mana /\ IsPositive(p) /\ Paying(p, cost) = Paying(m, cost)
         /\ Sided(p, cost) \in [Colors -> Int]
         /\ \A c \in Colors : Sided(p, cost)[c] = Sided(m, cost)[c] - q[c]
<1>1. PICK hs, ps : /\ hs = cost.hybrids /\ ps = Paying(m, cost)
                    /\ hs \in Seq(Hybrids) /\ ps \in SideChoices(hs)
  BY AffordsAre
<1>2. PICK s \in [Colors -> Int], g \in [Colors -> Nat] : s = Sided(m, cost) /\ g = Generic(s)
  BY AffordsAre
<1>3. PICK n \in [Colors -> Nat] : n = cost.need
  BY AffordsAre
<1>4. /\ m \in [Colors -> Nat] /\ p \in [Colors -> Int] /\ q \in [Colors -> Nat] /\ m \in Mana
      /\ \A c \in Colors : p[c] = m[c] - q[c] /\ q[c] <= Pay(m, cost)[c] /\ Pay(m, cost)[c] <= m[c]
  BY AffordsAre, PaidInAll DEF PaidOf, Affords
<1>5. \A c \in Colors : /\ Takes(hs, ps, c) \in Nat /\ s[c] = m[c] - (n[c] + Takes(hs, ps, c))
                        /\ Needed(m, cost)[c] = m[c] - n[c]
  BY <1>1, <1>2, <1>3, TakesIs, NothingWraps DEF Affords
<1>6. ASSUME NEW c \in Colors \ {0}
      PROVE  q[c] <= s[c]
  <2>1. IF s[c] < 0 THEN g[c] = s[c] ELSE g[c] >= 0 /\ g[c] <= s[c]
    BY <1>2, GenericIs
  <2>2. Pay(m, cost)[c] = g[c] - XTakes(m, cost)[c] /\ XTakes(m, cost)[c] \in Nat
    BY <1>2, PaidInAll
  <2>3. q[c] \in Nat /\ g[c] \in Nat /\ s[c] \in Int /\ q[c] <= Pay(m, cost)[c]
    BY <1>2, <1>4
  <2> QED BY <2>1, <2>2, <2>3
<1>7. \A c \in Colors : p[c] \in Nat /\ p[c] <= m[c]
  <2>1. ASSUME NEW c \in Colors
        PROVE  p[c] \in Nat /\ p[c] <= m[c]
    <3>1. Pay(m, cost)[c] \in Nat
      BY PaidInAll
    <3> QED BY <1>4, <3>1
  <2> QED BY <2>1
<1>8. p \in Mana /\ IsPositive(p)
  <2>1. \A c \in Colors : m[c] < Half
    BY <1>4, ManaAssumption DEF Mana, Small
  <2>2. \A c \in Colors : p[c] \in Small
    BY <1>4, <1>7, <2>1, ManaAssumption DEF Small
  <2> QED BY <1>4, <1>7, <2>2 DEF Mana, IsPositive
<1>9. Proper(cost) /\ Colored(cost)
  BY DEF Affords
<1>10. PICK l \in [Colors -> Int], r \in [Colors -> Int] : l = Needed(m, cost) /\ r = Needed(p, cost)
  <2>1. Needed(p, cost) \in Mana
    BY <1>4, AffordsAre, SidedType
  <2> QED BY <2>1, AffordsAre, ManaIs
<1>11. \A c \in Colors : l[c] = m[c] - n[c] /\ r[c] = p[c] - n[c]
  BY <1>3, <1>5, <1>8, <1>9, <1>10, NothingWraps
<1>12. PaidSides(hs, l) = ps
  BY <1>1, <1>10 DEF Paying
<1>13. \A c \in Colors : r[c] <= l[c]
  BY <1>3, <1>4, <1>7, <1>11
<1>14. Fits(hs, PaidSides(hs, l), r)
  <2>1. ASSUME NEW i \in DOMAIN hs
        PROVE  Takes(hs, ps, Side(hs[i], ps[i]).color) <= r[Side(hs[i], ps[i]).color]
    <3>1. PICK c \in Colors : c = Side(hs[i], ps[i]).color /\ c # 0
      <4>1. hs[i] \in Hybrids /\ ps[i] \in {1, 2}
        BY <1>1 DEF SideChoices
      <4> QED BY <1>1, <1>9, <4>1, SideIs, SMTT(20), ZenonT(60) DEF Colored
    <3>2. Takes(hs, ps, c) \in Nat /\ s[c] = m[c] - (n[c] + Takes(hs, ps, c)) /\ q[c] <= s[c]
          /\ r[c] = p[c] - n[c] /\ p[c] = m[c] - q[c]
      BY <1>4, <1>5, <1>6, <1>11, <3>1
    <3>3. m[c] \in Nat /\ n[c] \in Nat /\ q[c] \in Nat
      BY <1>3, <1>4
    <3>4. Takes(hs, ps, c) <= r[c]
      BY <3>2, <3>3
    <3> QED BY <3>1, <3>4
  <2> QED BY <1>12, <2>1 DEF Fits
<1>15. Paying(p, cost) = ps
  <2>1. PaidSides(hs, r) = PaidSides(hs, l)
    BY <1>1, <1>13, <1>14, SameSides
  <2> QED BY <1>1, <1>10, <1>12, <2>1 DEF Paying
<1>16. \A c \in Colors : Sided(p, cost)[c] = s[c] - q[c]
  <2>1. ASSUME NEW c \in Colors
        PROVE  Sided(p, cost)[c] = s[c] - q[c]
    <3>1. Sided(p, cost)[c] = p[c] - (n[c] + Takes(hs, ps, c))
      BY <1>1, <1>3, <1>8, <1>9, <1>15, NothingWraps
    <3>2. m[c] \in Nat /\ n[c] \in Nat /\ q[c] \in Nat /\ p[c] = m[c] - q[c]
      BY <1>3, <1>4
    <3> QED BY <1>5, <3>1, <3>2
  <2> QED BY <2>1
<1>17. Sided(p, cost) \in [Colors -> Int]
  <2>1. Sided(p, cost) \in Mana
    BY <1>4, AffordsAre, SidedType
  <2> QED BY <2>1, ManaIs
<1> QED BY <1>1, <1>2, <1>8, <1>15, <1>16, <1>17

LEMMA ColorOfX ==
  ASSUME NEW m, NEW cost, Affords(m, cost), NEW p, NEW q, PaidOf(m, cost, p, q),
         NEW x \in Colors \ {0}, cost.x = x
  PROVE  Generic(Sided(p, cost))[x] = Generic(Sided(m, cost))[x]
<1>1. PICK s \in [Colors -> Int], g \in [Colors -> Nat] :
        /\ s = Sided(m, cost) /\ g = Generic(s) /\ g \in [Colors -> Int]
  <2>1. \A f \in [Colors -> Nat] : f \in [Colors -> Int]
    OBVIOUS
  <2> QED BY <2>1, AffordsAre
<1>2. PICK r \in [Colors -> Int] : r = Sided(p, cost)
  BY PaidSidesStay
<1>3. \A c \in Colors : r[c] = s[c] - q[c] /\ q[c] \in Nat
  <2>1. \A c \in Colors : Sided(p, cost)[c] = Sided(m, cost)[c] - q[c]
    BY PaidSidesStay
  <2>2. q \in [Colors -> Nat]
    BY DEF PaidOf
  <2> QED BY <1>1, <1>2, <2>1, <2>2
<1>4. x # 0 /\ x \in Colors /\ x \in 1 .. (NbColors - 1) /\ 0 # NbColors - 1 /\ 0 \in Colors
      /\ NbColors \in Nat
  BY ColorsAre
<1>5. \A c \in Colors : Pay(m, cost)[c] = g[c] - XTakes(m, cost)[c]
  BY <1>1, PaidInAll
<1>6. \A c \in Colors : XTakes(m, cost)[c] = IF c = x THEN g[c] ELSE 0
  BY <1>1, <1>4 DEF XTakes, ForX, AnyX, NoX
<1>7. /\ q[0] = g[0] /\ q[x] = 0
      /\ \A c \in Colors : c # NbColors - 1 /\ c # x => q[c] = g[c]
  <2>1. \A c \in Colors : q[c] <= Pay(m, cost)[c] /\ (c # NbColors - 1 => q[c] = Pay(m, cost)[c])
    BY DEF PaidOf
  <2>2. Pay(m, cost)[x] = 0 /\ \A c \in Colors : c # x => Pay(m, cost)[c] = g[c]
    <3>1. \A c \in Colors : g[c] \in Nat
      BY <1>1
    <3> QED BY <1>4, <1>5, <1>6, <3>1
  <2>3. q[x] \in Nat
    BY <1>3, <1>4
  <2> QED BY <1>4, <2>1, <2>2, <2>3
<1>8. Debt(r) = Debt(s)
  <2>1. s[0] \in Int /\ g[0] \in Nat /\ r[0] = s[0] - g[0]
    BY <1>1, <1>3, <1>4, <1>7
  <2>2. IF s[0] >= 0 THEN g[0] = s[0] ELSE g[0] <= 0
    BY <1>1, GenericIs
  <2> QED BY <2>1, <2>2, AtLeast0Is DEF Debt
<1>9. r[x] = s[x] /\ s[x] \in Int
  BY <1>1, <1>3, <1>4, <1>7
<1>10. CASE Debt(s) = 0
  <2>1. Generic(r) = r /\ Generic(s) = s
    BY <1>8, <1>10, GenericTakes
  <2> QED BY <1>1, <1>2, <1>9, <2>1
<1>11. CASE Debt(s) # 0
  <2>1. PICK t \in [Colors -> Nat], u \in [Colors -> Nat] : t = Took(s) /\ u = Took(r)
    BY TookIs
  <2>2. /\ \A c \in Colors \ {0} : g[c] = s[c] - t[c]
        /\ Generic(r)[x] = r[x] - u[x]
    <3>1. g = [c \in Colors |-> IF c = 0 THEN s[0] + Total(t) ELSE s[c] - t[c]]
      BY <1>1, <1>11, <2>1, GenericTakes
    <3>2. Generic(r) = [c \in Colors |-> IF c = 0 THEN r[0] + Total(u) ELSE r[c] - u[c]]
      BY <1>8, <1>11, <2>1, GenericTakes
    <3> QED BY <1>4, <3>1, <3>2
  <2>3. \A e \in 1 .. (x - 1) : Plenty(r)[e] = t[e]
    <3>1. ASSUME NEW e \in 1 .. (x - 1)
          PROVE  Plenty(r)[e] = t[e]
      <4>1. e \in Colors \ {0} /\ e # x /\ e # NbColors - 1
        BY <1>4, ColorsAre
      <4>2. q[e] = s[e] - t[e] /\ s[e] \in Int /\ t[e] \in Nat /\ r[e] = s[e] - q[e]
        BY <1>1, <1>3, <1>7, <2>1, <2>2, <4>1
      <4>3. r[e] = t[e]
        BY <4>2
      <4> QED BY <4>1, <4>2, <4>3, AtLeast0Is DEF Plenty
    <3> QED BY <3>1
  <2>4. First(Plenty(r), x) = First(t, x)
    <3>1. [e \in 1 .. (x - 1) |-> Plenty(r)[e]] = [e \in 1 .. (x - 1) |-> t[e]]
      BY <2>3
    <3> QED BY <3>1 DEF First
  <2>5. PICK b \in Nat, f \in Int : /\ b = Debt(s) /\ f = First(Plenty(s), x)
                                    /\ First(t, x) = Lesser(b, f)
    <3>1. x \in 1 .. NbColors
      BY <1>4
    <3> QED BY <2>1, <3>1, TookIs
  <2>6. AtLeast0(b - Lesser(b, f)) = AtLeast0(b - f)
    BY AtLeast0Is, LesserIs
  <2>7. u[x] = t[x]
    <3>1. u[x] = Lesser(AtLeast0(r[x]), AtLeast0(Debt(r) - First(Plenty(r), x)))
      BY <1>4, <2>1 DEF Took
    <3>2. t[x] = Lesser(AtLeast0(s[x]), AtLeast0(Debt(s) - First(Plenty(s), x)))
      BY <1>4, <2>1 DEF Took
    <3> QED BY <1>8, <1>9, <2>4, <2>5, <2>6, <3>1, <3>2
  <2> QED BY <1>1, <1>2, <1>4, <1>9, <2>2, <2>7
<1> QED BY <1>10, <1>11

(* How much there was for X is told by what was paid, of a card without    *)
(* sunburst.                                                               *)
LEMMA XIsRead ==
  ASSUME NEW m, NEW cost, Affords(m, cost), cost.x # AnyX, NEW p, NEW q, PaidOf(m, cost, p, q)
  PROVE  Diff(p, cost).x = IF cost.x = NoX THEN 0 ELSE Wrap(Total(XTakes(m, cost)))
<1>1. PICK g, f : g = Generic(Sided(m, cost)) /\ f = Generic(Sided(p, cost))
  OBVIOUS
<1>2. Diff(p, cost).x = IF cost.x = NoX THEN 0 ELSE Wrap(Total(OfX(f, cost.x)))
  BY <1>1, DiffIs
<1>3. CASE cost.x = NoX
  BY <1>2, <1>3
<1>4. CASE cost.x # NoX
  <2>1. PICK x \in Colors \ {0} : x = cost.x
    BY <1>4, AffordsAre, CostIs DEF AnyX
  <2>2. f[x] = g[x] /\ g \in [Colors -> Nat]
    BY <1>1, <2>1, ColorOfX, AffordsAre
  <2>3. \A c \in Colors : OfX(f, x)[c] = XTakes(m, cost)[c]
    <3>1. AtLeast0(f[x]) = g[x]
      BY <2>2, AtLeast0Is
    <3>2. ASSUME NEW c \in Colors
          PROVE  /\ OfX(f, x)[c] = IF c = x THEN AtLeast0(f[x]) ELSE 0
                 /\ XTakes(m, cost)[c] = IF c = x THEN g[x] ELSE 0
      BY <1>1, <1>4, <2>1 DEF OfX, XTakes, ForX, AnyX
    <3> QED BY <3>1, <3>2
  <2>4. OfX(f, x) = XTakes(m, cost)
    BY <2>3 DEF OfX, XTakes
  <2> QED BY <1>2, <1>4, <2>1, <2>4
<1> QED BY <1>3, <1>4

(* An X that any mana pays takes all that is left.                         *)
LEMMA AllForX ==
  ASSUME NEW m, NEW cost, Affords(m, cost), cost.x = AnyX
  PROVE  (\A c \in Colors : Pay(m, cost)[c] = 0) /\ Total(Pay(m, cost)) = 0
<1>1. PICK g \in [Colors -> Nat], w \in [Colors -> Nat] : g = Generic(Sided(m, cost)) /\ w = Pay(m, cost)
  BY AffordsAre, PaidInAll
<1>2. ASSUME NEW c \in Colors PROVE w[c] = 0
  <2>1. w[c] = g[c] - XTakes(m, cost)[c]
    BY <1>1, PaidInAll
  <2>2. XTakes(m, cost)[c] = g[c]
    BY <1>1 DEF XTakes, ForX, AnyX, NoX
  <2>3. g[c] \in Nat
    BY <1>1
  <2> QED BY <2>1, <2>2, <2>3
<1>3. w \in [Colors -> Int]
  BY <1>1
<1>4. Total(w) = 0
  BY <1>2, <1>3, ColorsAre, SumOfZeros DEF Total
<1> QED BY <1>1, <1>2, <1>4

(* Phyrexian mana: some of it is paid with mana of the last colour, the    *)
(* rest with life.                                                         *)
LEMMA PayLifeTakes ==
  ASSUME life \in Int, NEW m \in [Colors -> Nat], NEW n \in Nat
  PROVE  \E t \in Nat : /\ t <= m[NbColors - 1]
                        /\ PayLifeOrMana(m, n).left = [m EXCEPT ![NbColors - 1] = m[NbColors - 1] - t]
                        /\ PayLifeOrMana(m, n).life = life - 2 * (n - t)
<1>1. m[NbColors - 1] \in Nat
  BY ColorsAre
<1>2. ByMana(m, n) \in Nat /\ ByMana(m, n) <= m[NbColors - 1]
  <2>1. ByMana(m, n) = 0 \/ ByMana(m, n) = Lesser(n, m[NbColors - 1])
    BY DEF ByMana
  <2>2. PICK a \in Nat : a = m[NbColors - 1]
    BY <1>1
  <2>3. Lesser(n, a) \in Nat /\ Lesser(n, a) <= a
    BY LesserIs
  <2> QED BY <2>1, <2>2, <2>3
<1>3. PICK t \in Nat : t = ByMana(m, n) /\ t <= m[NbColors - 1]
  BY <1>2
<1>4. PayLifeOrMana(m, n) = [left |-> [m EXCEPT ![NbColors - 1] = m[NbColors - 1] - t],
                             life |-> life - 2 * (n - t)]
  BY <1>3 DEF PayLifeOrMana
<1>5. /\ PayLifeOrMana(m, n).left = [m EXCEPT ![NbColors - 1] = m[NbColors - 1] - t]
      /\ PayLifeOrMana(m, n).life = life - 2 * (n - t)
  BY <1>4
<1> QED BY <1>3, <1>5

(* What was paid is the pool without what is left.                         *)
LEMMA ReadBack ==
  ASSUME NEW m \in Mana, IsPositive(m), NEW p \in [Colors -> Nat], NEW q \in [Colors -> Nat],
         \A c \in Colors : p[c] = m[c] - q[c]
  PROVE  Diff(m, AsCost(q)).left = p
<1>1. PICK cost : cost = AsCost(q)
  OBVIOUS
<1>2. cost.need = q /\ cost.hybrids = <<>> /\ cost.x = NoX
  BY <1>1 DEF AsCost
<1>3. \A c \in Colors : Wrap(m[c] - q[c]) = p[c]
  <2>1. ASSUME NEW c \in Colors PROVE Wrap(m[c] - q[c]) = p[c]
    <3>1. p[c] \in Nat /\ q[c] \in Nat /\ p[c] = m[c] - q[c] /\ m[c] \in Nat /\ m[c] < Half
      BY ManaAssumption DEF Mana, Small, IsPositive
    <3>2. p[c] < Half
      BY <3>1, ManaAssumption
    <3> QED BY <3>1, <3>2, WrapSame, SmallIs
  <2> QED BY <2>1
<1>4. Needed(m, cost) = p
  <2>1. \A c \in Colors : Wrap(m[c] - cost.need[c]) = p[c]
    BY <1>2, <1>3
  <2> QED BY <2>1 DEF Needed
<1>5. Sided(m, cost) = p
  BY <1>2, <1>4 DEF Sided
<1>6. Generic(p) = p
  <2>1. p[0] \in Nat /\ p \in [Colors -> Int]
    BY ColorsAre
  <2>2. Debt(p) = 0
    BY <2>1, AtLeast0Is DEF Debt
  <2> QED BY <2>1, <2>2, GenericTakes
<1>7. Pay(m, cost) = p
  BY <1>2, <1>5, <1>6, DiffIs
<1> QED BY <1>1, <1>7 DEF Pay

(* A card with sunburst costs as much as is printed, if it has no X.       *)
LEMMA BurstingCosts ==
  ASSUME NEW k, Held(k), k.cost.x = NoX
  PROVE  Converted(k.cost) = Converted(k.printed)
<1>1. CASE ~ k.sunburst
  BY <1>1 DEF Held
<1>2. CASE k.sunburst
  <2>1. /\ k.cost.hybrids = <<>> /\ k.printed.hybrids = <<>>
        /\ Total(k.cost.need) = Total(k.printed.need)
    BY <1>2 DEF Held, Bursting, Colorless
  <2>2. PICK a, b : a = k.cost /\ b = k.printed
    OBVIOUS
  <2>3. a.need \in [Colors -> Int] /\ b.need \in [Colors -> Int]
    BY <2>2, ProperIs, CostIs DEF Held
  <2>4. Converted(a) = Total(a.need) /\ Converted(b) = Total(b.need)
    BY <2>1, <2>2, <2>3, PlainConverted
  <2> QED BY <2>1, <2>2, <2>4
<1> QED BY <1>1, <1>2

(* And whatever its X was paid with, what is printed could be paid.        *)
LEMMA PrintedAfforded ==
  ASSUME NEW m, NEW k, Held(k), Affords(m, k.cost)
  PROVE  Affords(m, k.printed)
<1>1. CASE ~ k.sunburst
  <2>1. k.cost = k.printed
    BY <1>1 DEF Held
  <2> QED BY <2>1
<1>2. CASE k.sunburst
  <2>1. PICK a, b : a = k.cost /\ b = k.printed
    OBVIOUS
  <2>2. /\ Proper(a) /\ Proper(b) /\ a.hybrids = <<>> /\ Total(a.need) >= Total(b.need)
        /\ b.hybrids = <<>> /\ \A c \in Colors \ {0} : b.need[c] = 0
    BY <1>2, <2>1 DEF Held, Bursting, Colorless
  <2>3. m \in Mana /\ IsPositive(m) /\ CanAfford(m, a)
    BY <2>1 DEF Affords
  <2>4. Total(a.need) \in Int /\ Total(b.need) \in Int /\ Total(m) \in Int
    <3>1. a.need \in [Colors -> Int] /\ b.need \in [Colors -> Int] /\ m \in [Colors -> Int]
      BY <2>2, <2>3, ProperIs, CostIs, ManaIs
    <3> QED BY <3>1, TotalType
  <2>5. Total(a.need) <= Total(m)
    BY <2>2, <2>3, PlainAfford
  <2>6. \A c \in Colors \ {0} : b.need[c] <= m[c]
    <3>1. \A c \in Colors : m[c] \in Nat
      BY <2>3, ManaIs
    <3> QED BY <2>2, <3>1
  <2>7. CanAfford(m, b)
    BY <2>2, <2>3, <2>4, <2>5, <2>6, PlainAfford
  <2>8. Colored(b)
    BY <2>2 DEF Colored
  <2> QED BY <2>1, <2>2, <2>3, <2>7, <2>8 DEF Affords
<1> QED BY <1>1, <1>2

(* So mana and pairs of life are paid for the cost, for X and for the      *)
(* Phyrexian mana, and for nothing else.                                   *)
LEMMA SpellPaid ==
  ASSUME life \in Int, NEW m, NEW k, Held(k), Affords(m, k.cost),
         NEW r, r = PayLifeOrMana(Pay(m, k.cost), k.phyrexian),
         NEW p, p = [c \in Colors |-> m[c] - r.left[c]], Total(p) < Half
  PROVE  2 * Total(p) + (life - r.life)
           = 2 * (Converted(k.printed) + k.phyrexian + Diff(Diff(m, AsCost(r.left)).left, k.printed).x)
<1>1. PICK cost, q, x : cost = k.cost /\ q = r.left /\ x = XTakes(m, cost)
  OBVIOUS
<1>2. PICK n \in Nat : n = k.phyrexian
  BY DEF Held, HandCards
<1>3. PICK w \in [Colors -> Nat] : w = Pay(m, cost)
  BY <1>1, PaidInAll
<1>4. PICK z \in Colors : z = NbColors - 1
  BY ColorsAre
<1>5. PICK t \in Nat : t <= w[z] /\ q = [w EXCEPT ![z] = w[z] - t] /\ r.life = life - 2 * (n - t)
  <2>1. r = PayLifeOrMana(w, n) /\ r.left = q
    BY <1>1, <1>2, <1>3
  <2>2. PICK t \in Nat : /\ t <= w[NbColors - 1]
                         /\ PayLifeOrMana(w, n).left = [w EXCEPT ![NbColors - 1] = w[NbColors - 1] - t]
                         /\ PayLifeOrMana(w, n).life = life - 2 * (n - t)
    BY PayLifeTakes
  <2> QED BY <1>4, <2>1, <2>2
<1>6. /\ q \in [Colors -> Nat] /\ q[z] = w[z] - t /\ \A c \in Colors \ {z} : q[c] = w[c]
      /\ \A c \in Colors : q[c] <= w[c]
  <2>1. w[z] \in Nat /\ w[z] - t \in Nat
    BY <1>5
  <2> QED BY <1>5, <2>1
<1>7. m \in [Colors -> Nat] /\ m \in Mana /\ IsPositive(m) /\ Affords(m, cost)
  BY <1>1, AffordsAre DEF Affords
<1>8. \A c \in Colors : w[c] <= m[c]
  BY <1>1, <1>3, PaidInAll
<1>9. p \in [Colors -> Nat] /\ \A c \in Colors : p[c] = m[c] - q[c]
  <2>1. \A c \in Colors : m[c] - q[c] \in Nat
    BY <1>3, <1>6, <1>7, <1>8
  <2> QED BY <1>1, <2>1
<1>10. PaidOf(m, cost, p, q)
  <2>1. p \in [Colors -> Int]
    BY <1>9
  <2>2. \A c \in Colors : c # NbColors - 1 => q[c] = Pay(m, cost)[c]
    BY <1>3, <1>4, <1>6
  <2> QED BY <1>3, <1>6, <1>9, <2>1, <2>2 DEF PaidOf
<1>11. Diff(m, AsCost(r.left)).left = p
  BY <1>1, <1>6, <1>7, <1>9, ReadBack
<1>12. Total(p) \in Nat /\ Total(x) \in Nat /\ Converted(cost) \in Nat /\ Converted(k.printed) \in Nat
  <2>1. Affords(m, k.printed)
    BY PrintedAfforded
  <2>2. Total(p) \in Nat
    BY <1>9, ColorsAre, SumIsNat DEF Total
  <2> QED BY <1>1, <1>7, <2>1, <2>2, PaidInAll
<1>13. Total(p) = Converted(cost) + Total(x) + t
  <2>1. w \in [Colors -> Int] /\ q \in [Colors -> Int] /\ p \in [Colors -> Int] /\ m \in [Colors -> Int]
    BY <1>3, <1>6, <1>7, <1>9
  <2>2. Total(q) = Total(w) - w[z] + q[z]
    BY <1>6, <2>1, ColorsAre, SumChange DEF Total
  <2>3. \A c \in Colors : m[c] = p[c] + q[c]
    BY <1>9, <2>1
  <2>4. Total(m) = Total(p) + Total(q)
    <3>1. PICK a \in [Colors -> Int], b \in [Colors -> Int], e \in [Colors -> Int] :
            a = m /\ b = p /\ e = q
      BY <2>1
    <3>2. \A c \in Colors : a[c] = b[c] + e[c]
      BY <2>3, <3>1
    <3>3. Total(a) = Total(b) + Total(e)
      BY <3>2, ColorsAre, SumAdds, SMTT(60) DEF Total
    <3> QED BY <3>1, <3>3
  <2>5. Total(m) = Total(w) + Converted(cost) + Total(x)
    BY <1>1, <1>3, <1>7, PaidInAll
  <2>6. Total(w) \in Int /\ Total(q) \in Int /\ w[z] \in Int /\ q[z] = w[z] - t
    BY <1>6, <2>1, TotalType
  <2> QED BY <1>12, <2>2, <2>4, <2>5, <2>6
<1>14. life - r.life = 2 * (n - t)
  BY <1>5
<1>15. CASE cost.x # AnyX
  <2>1. PICK y \in Nat : y = Total(x) /\ y < Half
    BY <1>12, <1>13, ManaAssumption
  <2>2. Diff(p, cost).x = IF cost.x = NoX THEN 0 ELSE Wrap(y)
    BY <1>1, <1>7, <1>10, <1>15, <2>1, XIsRead
  <2>3. Wrap(y) = y
    BY <2>1, WrapSame, SmallIs
  <2>4. cost.x = NoX => y = 0
    <3>1. SUFFICES ASSUME cost.x = NoX PROVE Total(x) = 0
      BY <2>1
    <3>2. x \in [Colors -> Int] /\ \A c \in Colors : x[c] = 0
      BY <1>1, <3>1 DEF XTakes
    <3> QED BY <3>2, ColorsAre, SumOfZeros DEF Total
  <2>5. Diff(p, k.printed).x = y /\ Converted(k.printed) = Converted(cost)
    <3>1. CASE ~ k.sunburst
      <4>1. k.printed = cost
        BY <1>1, <3>1 DEF Held
      <4> QED BY <2>2, <2>3, <2>4, <4>1
    <3>2. CASE k.sunburst
      <4>1. cost.x = NoX /\ k.printed.x = NoX
        BY <1>1, <1>15, <3>2 DEF Held, Bursting, Colorless
      <4>2. Diff(p, k.printed).x = 0
        BY <4>1, DiffIs
      <4> QED BY <1>1, <2>4, <4>1, <4>2, BurstingCosts
    <3> QED BY <3>1, <3>2
  <2> QED BY <1>2, <1>11, <1>12, <1>13, <1>14, <2>1, <2>5
<1>16. CASE cost.x = AnyX
  <2>1. PICK b : b = k.printed /\ b.x = AnyX /\ Affords(m, b)
    <3>1. k.printed.x = AnyX
      BY <1>1, <1>16 DEF Held, Bursting
    <3> QED BY <3>1, PrintedAfforded
  <2>2. \A c \in Colors : w[c] = 0
    BY <1>1, <1>3, <1>7, <1>16, AllForX
  <2>3. t = 0 /\ \A c \in Colors : q[c] = 0
    BY <1>4, <1>5, <1>6, <2>2
  <2>4. p = m
    BY <1>7, <1>9, <2>3
  <2>5. PICK y \in Nat : y = Total(XTakes(m, b)) /\ Total(m) = Converted(b) + y
    <3>1. /\ Total(XTakes(m, b)) \in Nat /\ Converted(b) \in Nat
          /\ Total(m) = Total(Pay(m, b)) + Converted(b) + Total(XTakes(m, b))
      BY <2>1, PaidInAll
    <3>2. Total(Pay(m, b)) = 0
      BY <2>1, AllForX
    <3> QED BY <3>1, <3>2
  <2>6. Diff(p, k.printed).x = y
    <3>1. Diff(m, b).x = Wrap(y)
      BY <2>1, <2>5, PaidInAll DEF AnyX, NoX
    <3>2. y < Half
      BY <1>12, <2>1, <2>4, <2>5, ManaAssumption
    <3> QED BY <2>1, <2>4, <3>1, <3>2, WrapSame, SmallIs
  <2> QED BY <1>2, <1>11, <1>12, <1>14, <2>1, <2>3, <2>4, <2>5, <2>6
<1> QED BY <1>15, <1>16

LEMMA CastPays ==
  ASSUME IInv, Cast
  PROVE  SpellIsPaid'
<1> DEFINE k == Looked(card)
           kicks == IF ~ alwaysKick \/ k.kicker = NoKicker THEN 0
                    ELSE IF k.multi THEN Kicks(pool, k.cost, k.kicker)
                    ELSE IF CanAfford(pool, AddCost(k.cost, k.kicker)) THEN 1 ELSE 0
           multi == alwaysKick /\ k.kicker # NoKicker /\ k.multi
           base == Pay(pool, k.cost)
           left == IF k.kicker = NoKicker THEN base ELSE PayTimes(base, kicks, k.kicker)
           j == [k EXCEPT !.kicked = IF multi THEN @ + kicks ELSE @]
           result == IF kicks > 0 \/ multi THEN "kicker" ELSE "paid"
<1>1. card.hand /\ CanAfford(pool, card.cost) /\ CastFor(j, left, result)
  BY DEF Cast
<1>2. Held(card) /\ pool \in Mana /\ life \in Int
  BY <1>1, InHand DEF IInv, Kept
<1>3. Held(k) /\ (IsPositive(pool) => CanAfford(pool, k.cost))
  BY <1>1, <1>2, LookedIs
<1>4. k \in HandCards /\ Proper(k.cost) /\ k.cost \in CostRecords /\ k.kicker \in CostRecords
  BY <1>3 DEF Held, HandCards
<1>5. kicks \in Nat
  <2>1. Kicks(pool, k.cost, k.kicker) \in Nat
    BY <1>2, KicksType
  <2> QED BY <2>1
<1>6. base \in Mana
  BY <1>2, <1>4, PayType
<1>7. result # "kicker" => left = base /\ ~ multi
  <2>1. result # "kicker" => kicks = 0 /\ ~ multi
    BY <1>5
  <2> HIDE DEF kicks, base, result, k, multi
  <2>2. PayTimes(base, kicks, k.kicker) \in Mana /\ (kicks = 0 => PayTimes(base, kicks, k.kicker) = base)
    BY <1>4, <1>5, <1>6, PayTimesType
  <2> QED BY <2>1, <2>2
<1>8. ~ multi => j = k
  BY <1>4 DEF HandCards
<1> HIDE DEF k, kicks, multi, left, j, result
<1>9. SUFFICES ASSUME odd' \cap {"kicker", "overflow"} = {}, Total(spell'.paid) < Half,
                      Colored(spell'.card.cost)
               PROVE  2 * Total(spell'.paid) + spell'.lost
                        = 2 * (Converted(spell'.card.printed) + spell'.card.phyrexian + spell'.x)
  BY DEF SpellIsPaid
<1>10. odd' = IF result = "kicker" THEN odd \cup {"kicker"} ELSE odd
  BY <1>1 DEF CastFor
<1>11. result # "kicker" /\ odd \cap {"kicker", "overflow"} = {}
  BY <1>9, <1>10
<1>12. left = base /\ j = k
  BY <1>7, <1>8, <1>11
<1>13. PICK r, p : r = PayLifeOrMana(base, k.phyrexian) /\ p = [c \in Colors |-> pool[c] - r.left[c]]
  OBVIOUS
<1>14. /\ spell'.card = k /\ spell'.paid = p /\ spell'.lost = life - r.life
       /\ spell'.x = Diff(Diff(pool, AsCost(r.left)).left, k.printed).x
  BY <1>1, <1>12, <1>13 DEF CastFor
<1>15. Affords(pool, k.cost)
  <2>1. IsPositive(pool)
    BY <1>11 DEF IInv, Kept
  <2> QED BY <1>2, <1>3, <1>4, <1>9, <1>14, <2>1 DEF Affords
<1>16. Total(p) < Half
  BY <1>9, <1>14
<1> QED BY <1>2, <1>3, <1>13, <1>14, <1>15, <1>16, SpellPaid

LEMMA NextPays == IInv /\ SpellIsPaid /\ [Next]_vars => SpellIsPaid'
<1> SUFFICES ASSUME IInv, SpellIsPaid, [Next]_vars PROVE SpellIsPaid'
  OBVIOUS
<1>1. CASE spell' = NoSpell
  BY <1>1 DEF SpellIsPaid, NoSpell
<1>2. CASE Cast
  BY <1>2, CastPays
<1>3. CASE CastKicked
  <2>1. "kicker" \in odd'
    BY <1>3 DEF CastKicked, CastFor
  <2> QED BY <2>1 DEF SpellIsPaid
<1>4. CASE UNCHANGED vars
  BY <1>4 DEF SpellIsPaid, vars
<1>5. ASSUME NEW m \in Outputs, Produce(m) \/ RemoveMana(m) \/ RemoveAllOf(m)
      PROVE  spell' = NoSpell
  BY <1>5 DEF Produce, RemoveMana, RemoveAllOf, Act
<1>6. ASSUME NEW a \in Abilities, Activate(a) \/ ProduceDouble(a.cost)
      PROVE  spell' = NoSpell
  BY <1>6 DEF Activate, ProduceDouble, Act
<1>7. ASSUME NEW k \in Costs, Draw(k)
      PROVE  spell' = NoSpell
  BY <1>7 DEF Draw, Act
<1>8. Empty \/ PayAll \/ Look \/ Ask \/ Discard => spell' = NoSpell
  BY DEF Empty, PayAll, Look, Ask, Discard, Act
<1> QED BY <1>1, <1>2, <1>3, <1>4, <1>5, <1>6, <1>7, <1>8 DEF Next

(* What is taken for a spell, in mana and in pairs of life, is its cost    *)
(* and its X and its Phyrexian mana, if no number overflows: whatever the  *)
(* pool, with hybrids and sunburst (MTGPutInPlayRule::reactToClick(),      *)
(* ManaCost::Diff(), LifeorManaCost::doPay()).                             *)
THEOREM SpellsAreAlwaysPaid == Spec => []SpellIsPaid
<1>1. Init => SpellIsPaid
  BY DEF Init, SpellIsPaid, NoSpell
<1> QED
  BY <1>1, NextPays, Invariant, PTL DEF Spec

(* However often it is looked at, and whatever is in the pool meanwhile, a *)
(* card with sunburst keeps its converted cost, if it has no X             *)
(* (MTGPutInPlayRule::isReactingToClick()).                                *)
THEOREM SunburstAlwaysKeepsTotal == Spec => []SunburstKeepsTotal
<1>1. IInv => SunburstKeepsTotal
  BY InHand, BurstingCosts DEF SunburstKeepsTotal
<1> QED
  BY <1>1, Invariant, PTL
=============================================================================
