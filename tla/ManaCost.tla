------------------------------- MODULE ManaCost -------------------------------
(* Mana costs and what paying them leaves of a pool: ManaCost::Diff(),         *)
(* canAfford() and pay().  Mana is a function from the colours 0 (colourless)  *)
(* .. NbColors - 1 to numbers from -Half to Half - 1: vector<int8_t>, 128      *)
(* there).  A cost is a record of the mana it needs, its hybrids and its X:    *)
(* NoX, AnyX, or the colour (xColor > 0) of an X that only this colour pays.   *)
EXTENDS Integers, SequencesExt, FiniteSetsExt, Functions

CONSTANTS NbColors, Half

ASSUME ManaAssumption == NbColors \in Nat \ {0} /\ Half \in Nat \ {0}

Colors == 0..(NbColors - 1)
Wrap(n) == ((n + Half) % (2 * Half)) - Half

AtLeast0(n) == IF n \in Nat THEN n ELSE 0
Lesser(m, n) == IF m < n THEN m ELSE n

Zero == [c \in Colors |-> 0]
Plus(m, n) == [c \in Colors |-> Wrap(m[c] + n[c])]
Total(m) == SumFunction(m)
NoX == -1
AnyX == 0

(* ManaCost::add(): kicker and base cost together; an X of what is added is    *)
(* lost.                                                                       *)
AddCost(a, b) == [a EXCEPT !.need = Plus(@, b.need), !.hybrids = @ \o b.hybrids]

----------------------------------------------------------------------------
(* Hybrids: each is paid by one of its two sides.                              *)

Side(h, s) == IF s = 1 THEN [color |-> h.color1, value |-> h.value1]
              ELSE [color |-> h.color2, value |-> h.value2]

(* What a choice of sides takes of a colour.                                   *)
Takes(hs, ch, c) ==
    SumFunction([i \in DOMAIN hs |->
                   IF Side(hs[i], ch[i]).color = c THEN Side(hs[i], ch[i]).value ELSE 0])

SideChoices(hs) == [DOMAIN hs -> {1, 2}]
Fits(hs, ch, left) ==
    \A i \in DOMAIN hs : LET c == Side(hs[i], ch[i]).color IN Takes(hs, ch, c) <= left[c]

(* tryToPayHybrids() begins with the last hybrid and tries its first side      *)
(* first: of two choices it comes to the one with the lower rank, a number     *)
(* with a binary digit for each hybrid, the last one's first.                  *)
Rank(ch) ==
    LET n == Len(ch)
        digits[i \in 0..n] == IF i = 0 THEN 0 ELSE 2 * digits[i - 1] + ch[n + 1 - i] - 1
    IN digits[n]

(* Mutant of PaidSides: without going back, each hybrid is paid by its first   *)
(* side.                                                                       *)
FirstSides(hs, left) == [i \in DOMAIN hs |-> 1]

(* The sides paid; all the first ones when there is no way to pay.             *)
PaidSides(hs, left) ==
    LET ways == {ch \in SideChoices(hs) : Fits(hs, ch, left)}
    IN IF ways = {} THEN [i \in DOMAIN hs |-> 1]
       ELSE CHOOSE ch \in ways : \A o \in ways : Rank(ch) <= Rank(o)

----------------------------------------------------------------------------
(* Colourless mana that is missing is taken from the colours, in order.        *)
Generic(d) ==
    LET debt == AtLeast0(-d[0])
        before(c) == SumFunction([e \in 1..(c - 1) |-> AtLeast0(d[e])])
        taken == [c \in Colors |-> IF c = 0 THEN 0
                                   ELSE Lesser(AtLeast0(d[c]), AtLeast0(debt - before(c)))]
    IN IF debt = 0 THEN d
       ELSE [c \in Colors |-> IF c = 0 THEN d[0] + Total(taken) ELSE d[c] - taken[c]]

(* X takes all that is left of the colours that pay it.                        *)
ForX(x, c) == x = AnyX \/ x = c

(* ManaCost::Diff(): what is left, and how much there is for X.                *)
Diff(m, cost) ==
    LET d1 == [c \in Colors |-> Wrap(m[c] - cost.need[c])]
        sides == PaidSides(cost.hybrids, d1)
        d2 == IF cost.hybrids = <<>> THEN d1
              ELSE [c \in Colors |-> Wrap(d1[c] - Takes(cost.hybrids, sides, c))]
        d3 == Generic(d2)
    IN IF cost.x = NoX THEN [left |-> d3, x |-> 0]
       ELSE [left |-> [c \in Colors |-> IF ForX(cost.x, c) /\ d3[c] > 0 THEN 0 ELSE d3[c]],
             x |-> Wrap(Total([c \in Colors |-> IF ForX(cost.x, c) THEN AtLeast0(d3[c]) ELSE 0]))]

IsPositive(m) == \A c \in Colors : m[c] >= 0
CanAfford(m, cost) == IsPositive(Diff(m, cost).left)
Pay(m, cost) == Diff(m, cost).left

(* A pool as a cost, as Diff() takes it.                                       *)
AsCost(m) == [need |-> m, hybrids |-> <<>>, x |-> NoX]

HybridCost(h) == IF h.value2 > h.value1 THEN h.value2 ELSE h.value1
Converted(cost) ==
    Total(cost.need) + SumFunction([i \in DOMAIN cost.hybrids |-> HybridCost(cost.hybrids[i])])

HasColor(cost, c) ==
    \/ cost.need[c] # 0
    \/ \E i \in DOMAIN cost.hybrids, s \in {1, 2} :
          Side(cost.hybrids[i], s).color = c /\ Side(cost.hybrids[i], s).value # 0

----------------------------------------------------------------------------
(* What the rules of the game say (the reference for canAfford()): some choice *)
(* of sides for the hybrids is covered colour by colour, and the whole of it   *)
(* by the whole of the pool.                                                   *)
Payable(m, cost) ==
    \E ch \in SideChoices(cost.hybrids) :
        LET all(c) == cost.need[c] + Takes(cost.hybrids, ch, c)
        IN /\ \A c \in Colors \ {0} : all(c) <= m[c]
           /\ Total([c \in Colors |-> all(c)]) <= Total(m)

(* A cost as it is read from a card: a side of a hybrid is one mana of a       *)
(* colour, or some without (ManaCost::parseManaCost()), and no colour is asked *)
(* for more often than a number can hold.                                      *)
Hybrids == {h \in [color1 : Colors, value1 : 0..9, color2 : Colors, value2 : 0..9] :
              (h.color1 # 0 => h.value1 = 1) /\ (h.color2 # 0 => h.value2 = 1)}
CostRecords == [need : [Colors -> Int], hybrids : Seq(Hybrids), x : Colors \cup {NoX}]
Colorless(cost) ==
    /\ cost.hybrids = <<>> /\ cost.x \in {NoX, AnyX}
    /\ \A c \in Colors \ {0} : cost.need[c] = 0
Proper(cost) ==
    /\ cost \in CostRecords /\ cost.need \in [Colors -> Nat]
    /\ \A ch \in SideChoices(cost.hybrids), c \in Colors :
          cost.need[c] + Takes(cost.hybrids, ch, c) <= Half

Colored(cost) == \A i \in DOMAIN cost.hybrids, s \in {1, 2} : Side(cost.hybrids[i], s).color # 0
===============================================================================
