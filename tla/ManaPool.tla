------------------------------- MODULE ManaPool -------------------------------
(***************************************************************************)
(* The mana pool of a player, what he pays from it, and the icons that     *)
(* show it: abilities that make and take mana, a card cast from the hand   *)
(* (MTGPutInPlayRule, MTGKickerRule), with sunburst, X, kicker and         *)
(* Phyrexian mana, abilities paid for, and the pool emptied with the       *)
(* phase.  GuiMana follows the pool by the events of ManaPool, which come  *)
(* to it in the order they are sent.                                       *)
(***************************************************************************)
EXTENDS ManaCost

CONSTANTS
  Costs,       \* the costs of cards: a cost, its kicker, Phyrexian mana, sunburst
  Abilities,   \* the costs of activated abilities
  Outputs,     \* what a mana ability adds
  MaxPool,     \* bound: nothing is added to more mana than this
  MaxActs      \* bound on the number of acts

(* The cards with sunburst cost mana without colour, or X.                  *)
ASSUME PoolAssumption ==
  /\ MaxPool \in Nat /\ MaxActs \in Nat
  /\ Costs \subseteq [cost : CostRecords, kicker : CostRecords, phyrexian : Nat,
                       sunburst : BOOLEAN, multi : BOOLEAN, targets : BOOLEAN]
  /\ \A k \in Costs : Proper(k.cost) /\ (k.sunburst => Colorless(k.cost))
  /\ Abilities \subseteq [cost : CostRecords, phyrexian : Nat]
  /\ \A a \in Abilities : Proper(a.cost)
  /\ Outputs \subseteq [Colors -> 0..(Half - 1)]

VARIABLES
  pool,     \* the mana of the pool
  icons,    \* how many icons of each colour are alive
  life,     \* the player's life
  card,     \* the card in hand: its cost, its printed cost, sunburst, kicked, chosen
  spell,    \* history: the last spell cast and what was paid
  alwaysKick, \* the option KICKER_ALWAYS, or an AI
  odd,      \* history: what happened to this pool since it was emptied
  acts

vars == <<pool, icons, life, card, spell, alwaysKick, odd, acts>>

NoKicker == AsCost(Zero)
NoCard == [hand |-> FALSE]
NoSpell == [cast |-> FALSE]
Phyrexian == AsCost([Zero EXCEPT ![NbColors - 1] = 1])

(* Mana of the pool that no number can hold any more.                       *)
Overflow(m, n) == \E c \in Colors : m[c] + n[c] # Wrap(m[c] + n[c])

(* Mutant of Wither: one event for each colour.                             *)
WitherOne(ic, was, now) == [c \in Colors |-> IF was[c] > now[c] THEN AtLeast0(ic[c] - 1) ELSE ic[c]]

(* WEventConsumeMana for all that a colour lost; an event that finds no     *)
(* icon alive changes nothing.                                              *)
Wither(ic, was, now) == [c \in Colors |-> AtLeast0(ic[c] - AtLeast0(was[c] - now[c]))]

Step == acts < MaxActs /\ acts' = acts + 1 /\ UNCHANGED alwaysKick
Act == Step /\ spell' = NoSpell

----------------------------------------------------------------------------
(* Mana comes and goes.                                                     *)

(* A mana ability resolves: one WEventEngageMana for each mana.             *)
Engage(m) ==
    /\ pool' = Plus(pool, m)
    /\ icons' = [c \in Colors |-> icons[c] + AtLeast0(m[c])]
    /\ odd' = IF Overflow(pool, m) THEN odd \cup {"overflow"} ELSE odd

Produce(m) ==
    /\ Act /\ Total(pool) <= MaxPool /\ Engage(m)
    /\ UNCHANGED <<life, card>>

(* "manapool" as what is produced (Doubling Cube): its cost is paid first,  *)
(* then the pool is copied and added.                                       *)
ProduceDouble(cost) ==
    LET paid == Pay(pool, cost)
    IN /\ Act /\ Total(pool) <= MaxPool /\ CanAfford(pool, cost)
       /\ pool' = Plus(paid, paid)
       /\ icons' = [c \in Colors |-> Wither(icons, pool, paid)[c] + AtLeast0(paid[c])]
       /\ odd' = IF Overflow(paid, paid) THEN odd \cup {"overflow"} ELSE odd
       /\ UNCHANGED <<life, card>>

(* The phase ends, the rules empty the pool: ManaPool::Empty().             *)
Empty ==
    /\ Act /\ pool' = Zero /\ icons' = Zero /\ odd' = {}
    /\ UNCHANGED <<life, card>>

(* Mutant of RemoveMana: more than there is.                                *)
RemoveBelow(m) ==
    /\ Act /\ pool' = [c \in Colors |-> pool[c] - m[c]]
    /\ odd' = odd \cup {"removed"}
    /\ UNCHANGED <<icons, life, card>>

(* AARemoveMana::resolve() with a description: the pool's own remove() is   *)
(* passed by, and no event is sent.                                         *)
RemoveMana(m) ==
    /\ Act /\ pool' = [c \in Colors |-> pool[c] - Lesser(pool[c], m[c])]
    /\ odd' = odd \cup {"removed"}
    /\ UNCHANGED <<icons, life, card>>

RemoveAllOf(m) ==
    /\ Act /\ pool' = [c \in Colors |-> IF m[c] # 0 THEN 0 ELSE pool[c]]
    /\ odd' = odd \cup {"removed"}
    /\ UNCHANGED <<icons, life, card>>

(* MTGMomirRule: the pool pays for itself.                                  *)
PayAll ==
    LET left == Pay(pool, AsCost(pool))
    IN /\ Act /\ pool' = left /\ icons' = Wither(icons, pool, left)
       /\ UNCHANGED <<life, card, odd>>

----------------------------------------------------------------------------
(* Phyrexian mana: LifeorManaCost, on top of a cost that is paid.           *)

CanPayLife(m) == CanAfford(m, Phyrexian) \/ life > 1

(* n of them in turn: mana while it is there, else two life each.           *)
ByMana(m, n) == IF CanAfford(m, Phyrexian) THEN Lesser(n, m[NbColors - 1]) ELSE 0
(* Mutant of PayLifeOrMana: one life instead of two.                        *)
PayOneLifeOrMana(m, n) ==
    LET k == ByMana(m, n)
    IN [left |-> [m EXCEPT ![NbColors - 1] = @ - k], life |-> life - (n - k)]

PayLifeOrMana(m, n) ==
    LET k == ByMana(m, n)
    IN [left |-> [m EXCEPT ![NbColors - 1] = @ - k], life |-> life - 2 * (n - k)]

(* ActivatedAbility::reactToClick().                                        *)
Activate(a) ==
    LET paid == Pay(pool, a.cost)
        rest == PayLifeOrMana(paid, a.phyrexian)
    IN /\ Act /\ CanAfford(pool, a.cost)
       /\ a.phyrexian > 0 => CanPayLife(pool)
       /\ pool' = rest.left /\ life' = rest.life
       /\ icons' = Wither(icons, pool, rest.left)
       /\ UNCHANGED <<card, odd>>

----------------------------------------------------------------------------
(* A card is drawn, looked at and cast.                                     *)

Draw(k) ==
    /\ Act /\ ~card.hand
    /\ card' = [hand |-> TRUE, cost |-> k.cost, printed |-> k.cost, kicker |-> k.kicker,
                multi |-> k.multi, phyrexian |-> k.phyrexian, sunburst |-> k.sunburst,
                burst |-> 0, kicked |-> 0, chosen |-> ~k.targets]
    /\ UNCHANGED <<pool, icons, life, odd>>

(* Mutant of Burst: the cost goes on growing with each look.                *)
BurstMore(k, c) ==
    IF ~(pool[c] # 0 /\ ~HasColor(k.cost, c)) THEN k
    ELSE [k EXCEPT !.cost.need[c] = @ + 1, !.cost.need[0] = @ - Lesser(@, 1), !.burst = @ + 1]

(* Sunburst makes colours of the pool a part of the cost, in the card in    *)
(* hand, whenever it is asked whether the card can be played.               *)
Burst(k, c) ==
    IF pool[c] # 0 /\ ~HasColor(k.cost, c) /\ (k.burst < Converted(k.cost) \/ k.cost.x = AnyX)
    THEN [k EXCEPT !.cost.need[c] = @ + 1, !.cost.need[0] = @ - Lesser(@, 1), !.burst = @ + 1]
    ELSE k

Looked(k) ==
    IF k.sunburst /\ CanAfford(pool, k.cost)
    THEN LET upto[c \in Colors] == IF c = 0 THEN k ELSE Burst(upto[c - 1], c)
         IN upto[NbColors - 1]
    ELSE k

(* isReactingToClick() asked for a menu, a tooltip or the AI.               *)
Look ==
    /\ Act /\ card.hand /\ card' = Looked(card) /\ card' # card
    /\ UNCHANGED <<pool, icons, life, odd>>

(* How often the kicker can be added to the cost: the loops of both rules.  *)
Times(n, kicker, cost) ==
    LET sum[i \in 0..n] == IF i = 0 THEN cost ELSE AddCost(sum[i - 1], kicker) IN sum[n]
Kicks(m, cost, kicker) ==
    Max({n \in 0..AtLeast0(Total(m)) : \A i \in 1..n : CanAfford(m, Times(i, kicker, cost))})
(* Mutant of PayTimes: however often it was kicked, it is paid once.        *)
PayOnce(m, n, kicker) == IF n = 0 THEN m ELSE Pay(m, kicker)

PayTimes(m, n, kicker) ==
    LET left[i \in 0..n] == IF i = 0 THEN m ELSE Pay(left[i - 1], kicker) IN left[n]

(* What both rules end with: Phyrexian mana, and the spell with what was    *)
(* paid for it.  X is counted from the printed cost.                        *)
CastFor(k, left, result) ==
    LET rest == PayLifeOrMana(left, k.phyrexian)
        paid == [c \in Colors |-> pool[c] - rest.left[c]]
    IN /\ pool' = rest.left /\ life' = rest.life
       /\ icons' = Wither(icons, pool, rest.left)
       /\ spell' = [cast |-> TRUE, card |-> k, result |-> result, paid |-> paid,
                    lost |-> life - rest.life,
                    x |-> Diff(Diff(pool, AsCost(rest.left)).left, k.printed).x]
       /\ card' = NoCard
       /\ odd' = IF result = "kicker" THEN odd \cup {"kicker"} ELSE odd

(* MTGPutInPlayRule::reactToClick(), with the kickers that can be paid if   *)
(* the option says so.  The kicker is paid apart from the cost.             *)
Cast ==
    LET k == Looked(card)
        kicks == IF ~alwaysKick \/ k.kicker = NoKicker THEN 0
                 ELSE IF k.multi THEN Kicks(pool, k.cost, k.kicker)
                 ELSE IF CanAfford(pool, AddCost(k.cost, k.kicker)) THEN 1 ELSE 0
        multi == alwaysKick /\ k.kicker # NoKicker /\ k.multi
        base == Pay(pool, k.cost)
        left == IF k.kicker = NoKicker THEN base ELSE PayTimes(base, kicks, k.kicker)
    IN /\ Step /\ card.hand /\ CanAfford(pool, card.cost) /\ k.chosen
       /\ CastFor([k EXCEPT !.kicked = IF multi THEN @ + kicks ELSE @], left,
                  IF kicks > 0 \/ multi THEN "kicker" ELSE "paid")

(* MTGKickerRule::reactToClick(): the kickers are counted first.            *)
KickerCosts ==
    LET n == 1 + Kicks(pool, card.cost, card.kicker)
    IN [cost |-> IF card.multi THEN Times(n, card.kicker, card.cost)
                 ELSE AddCost(card.cost, card.kicker),
        card |-> IF card.multi THEN [card EXCEPT !.kicked = @ + n - 1] ELSE card]

KickerClick ==
    /\ ~alwaysKick /\ card.hand /\ card.kicker # NoKicker
    /\ CanAfford(pool, AddCost(card.cost, card.kicker))

CastKicked ==
    /\ Step /\ KickerClick /\ card.chosen
    /\ CastFor(KickerCosts.card, Pay(pool, KickerCosts.cost), "kicker")

(* Its targets are not chosen yet: that comes first, and the same click     *)
(* again.                                                                   *)
Ask ==
    /\ Act /\ card.hand /\ ~card.chosen
    /\ \/ KickerClick /\ card' = [KickerCosts.card EXCEPT !.chosen = TRUE]
       \/ CanAfford(pool, card.cost) /\ card' = [Looked(card) EXCEPT !.chosen = TRUE]
    /\ UNCHANGED <<pool, icons, life, odd>>

Discard ==
    /\ Act /\ card.hand /\ card' = NoCard /\ UNCHANGED <<pool, icons, life, odd>>

----------------------------------------------------------------------------
Init ==
    /\ pool = Zero /\ icons = Zero /\ odd = {} /\ life = 20 /\ alwaysKick \in BOOLEAN
    /\ card = NoCard /\ spell = NoSpell /\ acts = 0

Next ==
    \/ \E m \in Outputs : Produce(m) \/ RemoveMana(m) \/ RemoveAllOf(m)
    \/ \E a \in Abilities : Activate(a) \/ ProduceDouble(a.cost)
    \/ \E k \in Costs : Draw(k)
    \/ Empty \/ PayAll \/ Look \/ Cast \/ CastKicked \/ Ask \/ Discard

Spec == Init /\ [][Next]_vars

----------------------------------------------------------------------------
(* Properties.                                                              *)

TypeOK ==
    /\ pool \in [Colors -> (-Half)..(Half - 1)]
    /\ icons \in [Colors -> Nat] /\ life \in Int
    /\ odd \subseteq {"overflow", "removed", "kicker"}

(* canAfford() is right about the card in hand, if its hybrids have two     *)
(* colours, for every pool that owes nothing: no way to pay is missed.      *)
AffordIsExact ==
    card.hand /\ IsPositive(pool) /\ Colored(card.cost) =>
        (CanAfford(pool, card.cost) <=> Payable(pool, card.cost))

(* Nor does it ever say so of a cost that cannot be paid.                   *)
AffordIsSound ==
    card.hand /\ IsPositive(pool) /\ CanAfford(pool, card.cost) => Payable(pool, card.cost)

(* The icons show the pool, however it was paid from, until mana is taken   *)
(* without an event, overflows, or is owed.                                 *)
IconsShowPool == odd = {} => icons = pool

(* A pool owes mana only for a kicker, or when a number overflowed.         *)
OnlyKickersOwe == odd \cap {"kicker", "overflow"} = {} => IsPositive(pool)

(* However often it is looked at, and whatever is in the pool meanwhile, a  *)
(* card with sunburst and a generic cost keeps its converted cost.          *)
SunburstKeepsTotal ==
    card.hand /\ card.cost.x = NoX => Converted(card.cost) = Converted(card.printed)

(* What is taken for a spell, in mana and in pairs of life, is its cost and *)
(* its X, as long as no number overflows.                                   *)
SpellIsPaid ==
    LET k == spell.card
    IN spell.cast /\ odd \cap {"kicker", "overflow"} = {}
         /\ Total(spell.paid) < Half /\ Colored(k.cost)
       => 2 * Total(spell.paid) + spell.lost =
             2 * (Converted(k.printed) + k.phyrexian + spell.x)

(* With kickers, or from a pool that owes one, the kickers are paid too:    *)
(* whatever is paid apart from the cost is paid once.  MTGKickerRule takes  *)
(* one kicker too many for a kicker of many times.                          *)
KickedIsPaid ==
    LET k == spell.card
        times == IF spell.result = "paid" THEN 0 ELSE IF k.multi THEN k.kicked ELSE 1
    IN spell.cast /\ "kicker" \in odd /\ "overflow" \notin odd
         /\ Total(spell.paid) < Half /\ Colored(k.cost) /\ ~(k.multi /\ ~alwaysKick)
       => 2 * Total(spell.paid) + spell.lost =
             2 * (Converted(k.printed) + k.phyrexian + spell.x + times * Converted(k.kicker))

(* What is affordable is what the rules of the game say, and no more.       *)
AffordIsRight == AffordIsExact /\ AffordIsSound

(* The pool holds numbers of its width, below zero only by a kicker.        *)
PoolSound == TypeOK /\ OnlyKickersOwe
===============================================================================
