----------------------------- MODULE DamageScreen -----------------------------
(* The amounts of the damage screen: how the power of one attacker is shared   *)
(* among its blockers, in their order, and what the keys of the player do.     *)
(* A fight is a record of the attacker's stepPower, its deathtouch and         *)
(* trample, and of the toughness and the life of the blockers.  An assignment  *)
(* is a sequence of amounts: the attacker is the only source of damage to its  *)
(* blockers, so that the list of damages of a DefenserDamaged is one number,   *)
(* 0 when the list is empty.                                                   *)
EXTENDS Integers, SequencesExt, Functions

AtLeast0(n) == IF n \in Nat THEN n ELSE 0
Lesser(m, n) == IF m < n THEN m ELSE n
First(S) == CHOOSE i \in S : \A j \in S : i <= j

Slots(f) == 1..Len(f.life)

(* What the first n blockers are given: sumDamages() summed from the front.    *)
Given(a, n) == SumFunction([i \in DOMAIN a |-> IF i <= n THEN a[i] ELSE 0])
Total(a) == SumFunction(a)

(* An entry that falls to 0 is erased, and none is made for less than 1.       *)
AddDamage(a, i, d) == [a EXCEPT ![i] = AtLeast0(@ + d)]

Lethal(f, a, i) == a[i] >= f.life[i]
Short(f, a, i) == IF f.deathtouch THEN a[i] < 1 ELSE ~Lethal(f, a, i)

Share(f, i, left) ==
    LET s == Lesser(left, AtLeast0(f.toughness[i]))
    IN IF f.deathtouch THEN Lesser(s, 1) ELSE s

(* Each blocker in turn takes its share of what is left; what remains after    *)
(* the last goes to the first, or with trample to the player.                  *)
AutoAffect(f) ==
    LET left[i \in 0..Len(f.life)] ==
            IF i = 0 THEN f.power ELSE left[i - 1] - Share(f, i, left[i - 1])
        a == [i \in Slots(f) |-> Share(f, i, left[i - 1])]
        rest == left[Len(f.life)]
    IN IF rest > 0 /\ a # <<>> /\ ~f.trample THEN AddDamage(a, 1, rest) ELSE a

(* One more for blocker i, taken from the first one the power is exceeded at.  *)
AddOne(f, a, i) ==
    LET b == AddDamage(a, i, 1)
        over == {j \in Slots(f) : Given(b, j) > f.power}
    IN IF over = {} THEN b ELSE AddDamage(b, First(over), -1)

(* Mutant of RemoveOne: it goes to the last one, without the look for who is   *)
(* short of lethal damage.                                                     *)
RemoveOneToLast(f, a, i) == AddDamage(AddDamage(a, i, -1), Len(a), 1)

(* One less for blocker i: the first that is short of lethal damage gets it,   *)
(* else the last one, or with trample the player.                              *)
RemoveOne(f, a, i) ==
    LET b == AddDamage(a, i, -1)
        short == {j \in Slots(f) : Short(f, b, j)}
    IN IF short # {} THEN AddDamage(b, First(short), 1)
       ELSE IF f.trample THEN b ELSE AddDamage(b, Len(b), 1)

KeyUp(f, a, i) == AddOne(f, a, i)
KeyDown(f, a, i) == IF a[i] <= 0 THEN a ELSE RemoveOne(f, a, i)

(* The OK key raises the amount while damage is left at this blocker, and      *)
(* then takes everything (deathtouch) or all that is lethal from it.           *)
KeyOk(f, a, i) ==
    LET times == IF f.deathtouch THEN a[i] ELSE AtLeast0(a[i] - f.toughness[i] + 1)
        after[n \in 0..times] == IF n = 0 THEN a ELSE RemoveOne(f, after[n - 1], i)
    IN IF f.power - Given(a, i) > 0 THEN AddOne(f, a, i) ELSE after[times]
===============================================================================
