----------------------------- MODULE CombatDamage -----------------------------
(***************************************************************************)
(* What damage does: the damage screen, the damages of a combat, their     *)
(* resolution one by one and the events that follow, the counters, the     *)
(* prevention and regeneration of damage, and the test that sends dead     *)
(* creatures to the graveyard.                                             *)
(*                                                                         *)
(* One attacker of player 0 fights the blockers of player 1.  Between      *)
(* fights abilities put counters, prevent, regenerate and burn.  The       *)
(* events that Damage::resolve() sends are queued (GameObserver::          *)
(* receiveEvent() is busy with the combat step), and are handled when the  *)
(* last damage of the stack is dealt.                                      *)
(***************************************************************************)
EXTENDS DamageScreen

CONSTANTS
  Attacker, Blockers, \* the creatures
  Casts,              \* a cast: power, toughness and abilities of each creature
  Amounts,            \* how much damage an ability deals or prevents
  Batches,            \* how many counters it puts, or with n < 0 takes
  MaxActs             \* bound on what is done besides resolving

Card == Blockers \cup {Attacker}

ASSUME DamageAssumption ==
  /\ Attacker \notin Blockers /\ IsFiniteSet(Blockers)
  /\ Casts \subseteq [Card -> [power : Nat, toughness : Nat \ {0}, has : SUBSET STRING,
                             zone : {"inPlay", "graveyard"}]]
  /\ Amounts \subseteq Nat \ {0} /\ Batches \subseteq Int \ {0} /\ MaxActs \in Nat

VARIABLES
  cards,     \* the creatures, as the object that was last in play
  players,   \* life, poison counters and preventable of each player
  shields,   \* the replacement effects that prevent damage, in order
  phase,     \* "free", "screen", "dealing", "events" or "settled"
  line,      \* the blockers, in the order of damage
  blocked,   \* whether the attacker was blocked
  amounts,   \* what the screen gives each of them
  damages,   \* the damages of the stack
  dealt,     \* how many of them are still to be dealt
  queue,     \* the events waiting
  currentPlayer,
  acts,      \* how many acts there were
  before     \* history: the creatures as the damages were made

table == <<cards, players, shields>>
combat == <<line, blocked, amounts, damages, dealt, queue, before>>
vars == <<table, combat, phase, currentPlayer, acts>>

Sides == {"+", "-"} \* the +1/+1 and the -1/-1 counters
Sign(s) == IF s = "+" THEN 1 ELSE -1
Opposite(s) == IF s = "+" THEN "-" ELSE "+"
Owner(c) == IF c = Attacker THEN 0 ELSE 1
InPlay(k) == k.zone = "inPlay"

----------------------------------------------------------------------------
(* Death of a card.                                                         *)

Bury(k) ==
    IF ~InPlay(k) THEN k
    ELSE IF "exiledeath" \in k.has THEN [k EXCEPT !.zone = "exile"]
    ELSE IF "indestructible" \in k.has THEN k
    ELSE [k EXCEPT !.zone = "graveyard"]

(* Mutant of Destroy: a regenerated creature keeps its wounds.              *)
DestroyUnhealed(k) ==
    IF k.regenerateTokens = 0 \/ "cantregen" \in k.has THEN Bury(k)
    ELSE [k EXCEPT !.regenerateTokens = @ - 1]

Destroy(k) ==
    IF k.regenerateTokens = 0 \/ "cantregen" \in k.has THEN Bury(k)
    ELSE LET r == [k EXCEPT !.regenerateTokens = @ - 1, !.life = k.toughness]
         IN IF r.life < 1 THEN Bury(r) ELSE r

AfterDamage(k) ==
    IF ~k.doDamageTest THEN k
    ELSE LET t == [k EXCEPT !.doDamageTest = FALSE]
         IN IF t.life <= 0 /\ InPlay(t) THEN Destroy(t) ELSE t

(* A creature whose toughness is gone dies even when it is indestructible.  *)
GraveIfShrunk(k) ==
    IF k.toughness <= 0 /\ "indestructible" \in k.has /\ InPlay(k)
    THEN [k EXCEPT !.zone = "graveyard"] ELSE k

----------------------------------------------------------------------------
(* Counters.                                                                *)

(* Mutant of Count: the change of toughness asks for no test.               *)
CountUntested(k, s, n) ==
    [k EXCEPT !.nb[s] = @ + n, !.power = @ + n * Sign(s),
              !.toughness = @ + n * Sign(s), !.life = @ + n * Sign(s)]

(* n more, or with n < 0 fewer, counters of a family: power, toughness and  *)
(* life follow.                                                             *)
Count(k, s, n) ==
    [k EXCEPT !.nb[s] = @ + n, !.power = @ + n * Sign(s),
              !.toughness = @ + n * Sign(s), !.life = @ + n * Sign(s),
              !.doDamageTest = TRUE]

(* The first counter of a family is followed by the test for death.         *)
AddCounter(k, s) ==
    IF "nocounters" \in k.has THEN k
    ELSE IF s \in k.families THEN Count(k, s, 1)
    ELSE AfterDamage([Count(k, s, 1) EXCEPT !.families = @ \cup {s}])

AddCounters(k, s, n) ==
    IF n = 0 \/ "nocounters" \in k.has THEN k
    ELSE IF n = 1 THEN AddCounter(k, s) ELSE Count(AddCounter(k, s), s, n - 1)

(* n times removeCounter(), which finds none to remove at some time.        *)
RemoveCounters(k, s, n) ==
    LET m == Lesser(n, k.nb[s]) IN IF m = 0 THEN k ELSE Count(k, s, -m)

(* Mutant of CancelCounter: one pair instead of all.                        *)
CancelOne(k, s) ==
    IF k.nb["+"] = 0 \/ k.nb["-"] = 0 THEN k ELSE Count(Count(k, Opposite(s), -1), s, -1)

CancelCounter(k, s) ==
    LET n == Lesser(k.nb["+"], k.nb["-"])
    IN IF n = 0 THEN k ELSE Count(Count(k, Opposite(s), -n), s, -n)

(* AACounter::resolve().  A counter for a card that has left is put on the  *)
(* next object of the card, which is of no concern here.                    *)
PutCounters(k, s, n) ==
    LET put == IF n < 0 THEN RemoveCounters(k, s, -n)
               ELSE IF InPlay(AddCounter(k, s)) THEN AddCounters(k, s, n) ELSE AddCounter(k, s)
        tested == AfterDamage([put EXCEPT !.doDamageTest = TRUE])
        done == IF InPlay(tested) THEN CancelCounter(tested, s) ELSE tested
    IN IF s = "-" THEN GraveIfShrunk(done) ELSE done

----------------------------------------------------------------------------
(* One damage.                                                              *)

Protected(k, src) == "protection" \in k.has /\ "red" \in src.has

(* The damage that is left after the abilities of a creature, and what they *)
(* do to it.                                                                *)
Soak(k, src, n) ==
    LET a1 == IF Protected(k, src) \/ "phantom" \in k.has THEN 0 ELSE n
        k1 == IF "phantom" \in k.has THEN RemoveCounters(k, "+", 1) ELSE k
        a2 == IF "absorb" \in k.has THEN AtLeast0(a1 - 1) ELSE a1
        k2 == IF "wilting" \in k.has THEN AddCounters(k1, "-", a2)
              ELSE IF "vigor" \in k.has THEN AddCounters(k1, "+", a2)
              ELSE IF "hydra" \in k.has THEN RemoveCounters(k1, "+", a2) ELSE k1
    IN [card |-> k2,
        left |-> IF k.has \cap {"wilting", "vigor", "hydra"} # {} THEN 0 ELSE a2]

(* Mutant of Wound: a creature is tested as soon as it is wounded.          *)
WoundAndTest(k, src, n) == AfterDamage([k EXCEPT !.life = @ - n])

Wound(k, src, n) ==
    IF src.has \cap {"wither", "infect"} # {} THEN GraveIfShrunk(AddCounters(k, "-", n))
    ELSE [k EXCEPT !.life = @ - n]

Toxin(src) == IF "toxic" \in src.has THEN 1 ELSE 0

WoundPlayer(p, src, n) ==
    IF src.has \cap {"infect", "poisondamager"} # {} THEN [p EXCEPT !.poisonCount = @ + n]
    ELSE [p EXCEPT !.life = @ - n, !.poisonCount = @ + Toxin(src)]

(* The first shield that is up and meant for this damage prevents all of    *)
(* it; a one-shot is then spent.                                            *)
Stops(sh, d) ==
    /\ sh.up /\ d.source \in sh.from /\ d.target \in sh.to
    /\ sh.type \in {"all", d.type}
Stopper(ss, d) == {i \in DOMAIN ss : Stops(ss[i], d)}

(* Mutant of Prevented: all that is preventable is taken off.               *)
PreventedAll(n, k) == k.preventable
(* How much of a damage the next prevention of its target takes.            *)
Prevented(n, k) == Lesser(n, k.preventable)

(* Damage::resolve() on the table: the cards, the players, the shields, and *)
(* the amount its event carries, 0 if there is no event.  A damage that is  *)
(* prevented by its target's own abilities is not resolved well.            *)
Deal(d) ==
    LET src == cards[d.source]
        stop == Stopper(shields, d)
        none == [cards |-> cards, players |-> players, shields |-> shields,
                 event |-> 0, ok |-> TRUE]
    IN IF stop # {}
       THEN [none EXCEPT !.shields[First(stop)].up = ~shields[First(stop)].once]
       ELSE IF d.target \in Card
       THEN LET k == cards[d.target]
                n == Prevented(d.amount, k)
                s == Soak([k EXCEPT !.preventable = @ - n], src, d.amount - n)
            IN IF s.left = 0
               THEN [none EXCEPT !.cards[d.target] = s.card, !.ok = FALSE]
               ELSE [none EXCEPT !.event = s.left, !.cards[d.target] =
                        Wound([s.card EXCEPT !.doDamageTest = TRUE], src, s.left)]
       ELSE LET p == players[d.target]
                n == Prevented(d.amount, p)
            IN [none EXCEPT !.event = d.amount - n, !.players[d.target] =
                    WoundPlayer([p EXCEPT !.preventable = @ - n], src, d.amount - n)]

(* The deathtouch rule hears the event of a damage.                         *)
Hear(k, src, n) == IF n > 0 /\ "deathtouch" \in src.has THEN Destroy(k) ELSE k

----------------------------------------------------------------------------
(* Between fights.                                                          *)

(* What is left of a fight that is over is of no use any more.              *)
Free ==
    /\ phase \in {"free", "settled"} /\ phase' = "free"
    /\ line' = <<>> /\ blocked' = FALSE /\ amounts' = <<>> /\ damages' = <<>>
    /\ dealt' = 0 /\ queue' = <<>> /\ before' = <<>>
Act == Free /\ acts < MaxActs /\ acts' = acts + 1

Effect(c, Op(_)) ==
    /\ Act /\ InPlay(cards[c])
    /\ cards' = [cards EXCEPT ![c] = Op(@)]
    /\ UNCHANGED <<players, shields, currentPlayer>>

Counter(c, s, n) == Effect(c, LAMBDA k : PutCounters(k, s, n))
Regenerate(c) ==
    Effect(c, LAMBDA k : [k EXCEPT !.regenerateTokens = IF "cantregen" \in k.has THEN @ ELSE @ + 1])
PreventCard(c, n) == Effect(c, LAMBDA k : [k EXCEPT !.preventable = @ + n])

PreventPlayer(p, n) ==
    /\ Act
    /\ players' = [players EXCEPT ![p].preventable = @ + n]
    /\ UNCHANGED <<cards, shields, currentPlayer>>

(* A circle of protection for player 1 against the attacker, or a fog.      *)
Circle == [from |-> {Attacker}, to |-> {1}, type |-> "all", once |-> TRUE, up |-> TRUE]
Fog == [from |-> Card, to |-> Card \cup {0, 1}, type |-> "combat", once |-> FALSE, up |-> TRUE]

AddShield(sh) ==
    /\ Act /\ Len(shields) < 1
    /\ shields' = Append(shields, sh)
    /\ UNCHANGED <<cards, players, currentPlayer>>

(* An ability deals damage: dealt, heard and tested at once.                *)
Burn(c, t, n) ==
    LET w == Deal([source |-> c, target |-> t, amount |-> n, type |-> "other"])
    IN /\ Act /\ InPlay(cards[c]) /\ (t \in Card => InPlay(cards[t]))
       /\ cards' = IF t \notin Card THEN w.cards
                   ELSE [w.cards EXCEPT ![t] = AfterDamage(Hear(@, cards[c], w.event))]
       /\ players' = w.players /\ shields' = w.shields
       /\ UNCHANGED currentPlayer

(* gameStateBasedEffects() tests every creature in play.                    *)
StateBased ==
    /\ Free /\ \E c \in Card : InPlay(cards[c]) /\ cards[c].doDamageTest
    /\ cards' = [c \in Card |-> IF InPlay(cards[c]) THEN AfterDamage(cards[c]) ELSE cards[c]]
    /\ UNCHANGED <<players, shields, currentPlayer, acts>>

(* The cleanup phase heals the creatures; the turn that follows drops their *)
(* regeneration and prevention, and the prevention of the player whose turn *)
(* it is now.                                                               *)
EndTurn ==
    LET next == 1 - currentPlayer
        Fresh(k) == [k EXCEPT !.life = k.toughness, !.regenerateTokens = 0, !.preventable = 0]
    IN /\ Act /\ \A c \in Card : ~(InPlay(cards[c]) /\ cards[c].doDamageTest)
       /\ cards' = [c \in Card |-> IF InPlay(cards[c]) THEN Fresh(cards[c]) ELSE cards[c]]
       /\ shields' = <<>>
       /\ players' = [players EXCEPT ![next].preventable = 0]
       /\ currentPlayer' = next

----------------------------------------------------------------------------
(* A fight.                                                                 *)

Fight == [power |-> AtLeast0(cards[Attacker].power),
          toughness |-> [i \in DOMAIN line |-> cards[line[i]].toughness],
          life |-> [i \in DOMAIN line |-> cards[line[i]].life],
          deathtouch |-> "deathtouch" \in cards[Attacker].has,
          trample |-> "trample" \in cards[Attacker].has]

(* The damage step begins: every amount is affected, and the player is      *)
(* shown the screen if there is something to choose.                        *)
Orders(S) == {q \in [1..Cardinality(S) -> S] : \A i, j \in DOMAIN q : q[i] = q[j] => i = j}

BeginDamage(q, b) ==
    /\ q # <<>> => b
    /\ phase \in {"free", "settled"} /\ currentPlayer = 0
    /\ acts < MaxActs /\ acts' = acts + 1
    /\ InPlay(cards[Attacker]) /\ \A i \in DOMAIN q : InPlay(cards[q[i]])
    /\ \A c \in Card : ~(InPlay(cards[c]) /\ cards[c].doDamageTest)
    /\ UNCHANGED <<table, damages, dealt, queue, before, currentPlayer>>
    /\ line' = q /\ blocked' = b /\ amounts' = AutoAffect(Fight') /\ phase' = "screen"

Shown == Len(line) > (IF "trample" \in cards[Attacker].has THEN 0 ELSE 1)

Key(Op(_, _, _), i) ==
    /\ phase = "screen" /\ Shown
    /\ amounts' = Op(Fight, amounts, i)
    /\ UNCHANGED <<table, line, blocked, damages, dealt, queue, before, phase, currentPlayer, acts>>

Up(i) == Key(KeyUp, i)
Down(i) == Key(KeyDown, i)
Ok(i) == Key(KeyOk, i)

(* GuiCombat::resolve() makes a damage of every amount, of what is left for *)
(* the player, and of the power of every blocker, in this order.  A damage  *)
(* of 0 stands for none.                                                    *)
Blow(c, t, n) == [source |-> c, target |-> t, amount |-> AtLeast0(n), type |-> "combat",
                  ok |-> TRUE]

Resolve ==
    LET m == Len(line)
        rest == Fight.power - Total(amounts)
    IN /\ phase = "screen" /\ phase' = "dealing"
       /\ damages' = [i \in 1..(2 * m + 1) |->
              IF i <= m THEN Blow(Attacker, line[i], amounts[i])
              ELSE IF i > m + 1 THEN Blow(line[i - m - 1], Attacker, cards[line[i - m - 1]].power)
              ELSE Blow(Attacker, 1, IF ~blocked \/ Fight.trample THEN rest ELSE 0)]
       /\ dealt' = 2 * m + 1
       /\ queue' = <<>> /\ before' = [cards |-> cards, players |-> players, shields |-> shields]
       /\ UNCHANGED <<table, line, blocked, amounts, currentPlayer, acts>>

(* DamageStack::resolve() goes from the last damage to the first.           *)
DealOne ==
    LET d == damages[dealt]
        w == Deal(d)
    IN /\ phase = "dealing" /\ dealt > 0 /\ dealt' = dealt - 1
       /\ d.amount > 0
       /\ cards' = w.cards /\ players' = w.players /\ shields' = w.shields
       /\ damages' = [damages EXCEPT ![dealt].ok = w.ok]
       /\ queue' = IF w.event > 0 THEN Append(queue, [d EXCEPT !.amount = w.event]) ELSE queue
       /\ UNCHANGED <<line, blocked, amounts, before, phase, currentPlayer, acts>>

NoBlow ==
    /\ phase = "dealing" /\ dealt > 0 /\ damages[dealt].amount = 0 /\ dealt' = dealt - 1
    /\ UNCHANGED <<table, line, blocked, amounts, damages, queue, before, phase, currentPlayer, acts>>

AllDealt ==
    /\ phase = "dealing" /\ dealt = 0 /\ phase' = "events"
    /\ UNCHANGED <<table, combat, currentPlayer, acts>>

HearOne ==
    /\ phase = "events" /\ queue # <<>>
    /\ queue' = Tail(queue)
    /\ cards' = IF Head(queue).target \notin Card THEN cards
                ELSE [cards EXCEPT ![Head(queue).target] =
                        Hear(@, cards[Head(queue).source], Head(queue).amount)]
    /\ UNCHANGED <<players, shields, line, blocked, amounts, damages, dealt, before,
                   phase, currentPlayer, acts>>

(* The last event, that the stack is resolved, is the test for death of     *)
(* every target whose damage was resolved well.                             *)
StackResolved ==
    LET Hit == {damages[i].target : i \in {j \in DOMAIN damages : damages[j].ok /\ damages[j].amount > 0}}
    IN /\ phase = "events" /\ queue = <<>> /\ phase' = "settled"
       /\ cards' = [c \in Card |-> IF c \in Hit THEN AfterDamage(cards[c]) ELSE cards[c]]
       /\ UNCHANGED <<players, shields, combat, currentPlayer, acts>>

----------------------------------------------------------------------------
Init ==
    /\ \E cast \in Casts : cards = [c \in Card |->
         [power |-> cast[c].power, toughness |-> cast[c].toughness, has |-> cast[c].has,
          life |-> cast[c].toughness, nb |-> [s \in Sides |-> 0], families |-> {},
          doDamageTest |-> FALSE, regenerateTokens |-> 0, preventable |-> 0,
          zone |-> cast[c].zone, base |-> <<cast[c].power, cast[c].toughness>>]]
    /\ players = [p \in {0, 1} |-> [life |-> 20, poisonCount |-> 0, preventable |-> 0]]
    /\ shields = <<>> /\ phase = "free" /\ currentPlayer = 0 /\ acts = 0
    /\ line = <<>> /\ blocked = FALSE /\ amounts = <<>> /\ damages = <<>> /\ dealt = 0
    /\ queue = <<>> /\ before = <<>>

Acting ==
    \/ \E c \in Card : Regenerate(c) \/ \E n \in Amounts : PreventCard(c, n)
    \/ \E c \in Card, s \in Sides, n \in Batches : Counter(c, s, n)
    \/ \E p \in {0, 1}, n \in Amounts : PreventPlayer(p, n)
    \/ \E sh \in {Circle, Fog} : AddShield(sh)
    \/ \E c \in Card, t \in Card \cup {0, 1}, n \in Amounts : Burn(c, t, n)
    \/ EndTurn

Fighting ==
    \/ \E S \in SUBSET Blockers : \E q \in Orders(S) : \E b \in BOOLEAN : BeginDamage(q, b)
    \/ \E i \in DOMAIN line : Up(i) \/ Down(i) \/ Ok(i)
    \/ Resolve \/ DealOne \/ NoBlow \/ AllDealt \/ HearOne \/ StackResolved

Next == Acting \/ StateBased \/ Fighting
Spec == Init /\ [][Next]_vars

----------------------------------------------------------------------------
(* Properties.                                                              *)

TypeOK ==
    /\ \A c \in Card : /\ cards[c].zone \in {"inPlay", "graveyard", "exile"}
                        /\ cards[c].preventable \in Nat /\ cards[c].regenerateTokens \in Nat
                        /\ cards[c].nb \in [Sides -> Nat] /\ cards[c].families \subseteq Sides
    /\ \A p \in {0, 1} : players[p].preventable \in Nat /\ players[p].poisonCount \in Nat
    /\ phase \in {"free", "screen", "dealing", "events", "settled"}

(* Whatever keys are pressed, the amounts on the screen add up to the       *)
(* attacker's power, or with trample to no more than it: autoaffectDamage(),*)
(* addOne(), removeOne() and the loops of the OK key.                       *)
AmountsAddUp ==
    phase = "screen" =>
        \/ line = <<>>
        \/ Total(amounts) = Fight.power
        \/ Fight.trample /\ Total(amounts) < Fight.power

(* The order of damage is kept: a blocker is given damage, and the player   *)
(* trampled over, only when each blocker before has a lethal amount.        *)
LethalInOrder ==
    phase = "screen" =>
        \A i \in Slots(Fight) : Short(Fight, amounts, i) =>
            /\ \A j \in Slots(Fight) : j > i => amounts[j] = 0
            /\ Total(amounts) = Fight.power

(* The keys of the damage screen lead from a legal assignment of damage to  *)
(* a legal one: it adds up, and it follows the order of the blockers.  No   *)
(* blocker is without toughness: for one that stays in play nevertheless,   *)
(* as it cannot be destroyed, the OK key makes damage of nothing.           *)
AssignmentLegal ==
    (\A i \in DOMAIN line : cards[line[i]].toughness > 0) => AmountsAddUp /\ LethalInOrder

(* Power and toughness are those of the card and its counters, however they *)
(* came and went: added(), removed(), cancelCounter().                      *)
StatsAgree ==
    \A c \in Card : LET k == cards[c] n == k.nb["+"] - k.nb["-"]
                    IN k.power = k.base[1] + n /\ k.toughness = k.base[2] + n

(* Preventing damage never heals (the comment of Damage::resolve()), nor    *)
(* does anything else lift a creature's life above its toughness.           *)
NeverHealthier == \A c \in Card : cards[c].life <= cards[c].toughness

(* A creature in play that has no life left is indestructible, or will be   *)
(* tested: doDamageTest is not lost.                                        *)
DeadAreTested ==
    \A c \in Card : LET k == cards[c]
                    IN InPlay(k) /\ k.life <= 0 => k.doDamageTest \/ "indestructible" \in k.has

(* A creature has +1/+1 and -1/-1 counters at a time only if damage brought *)
(* counters: AACounter::resolve() cancels them in pairs.                    *)
Marking == {"wither", "infect", "wilting", "vigor"}
PairsCancel ==
    (\A c \in Card : cards[c].has \cap Marking = {}) =>
        \A c \in Card : InPlay(cards[c]) => cards[c].nb["+"] = 0 \/ cards[c].nb["-"] = 0

(* What is true of every creature at every moment, so that no order of      *)
(* damages, counters, prevention and tests can do harm that stays.          *)
CreaturesSound == TypeOK /\ StatsAgree /\ NeverHealthier /\ DeadAreTested

(* While the damages of a combat are dealt, only counters bury a creature;  *)
(* everything else dies of the events that follow.                          *)
OnlyCountersBuryEarly ==
    phase = "dealing" => \A c \in Card :
        InPlay(before.cards[c]) /\ ~InPlay(cards[c]) =>
            cards[c].nb["-"] > before.cards[c].nb["-"]

(* Counters are where cards say they are: in pairs they go, and they alone  *)
(* kill before the triggers of damage.                                      *)
CountersSound == PairsCancel /\ OnlyCountersBuryEarly

Sum(S) == Total([i \in DOMAIN damages |-> IF i \in S THEN damages[i].amount ELSE 0])
On(t) == {i \in DOMAIN damages : damages[i].target = t /\ damages[i].amount > 0}
By(S, t) == {i \in On(t) : cards[damages[i].source].has \cap S # {}}
Plain(k) == k.has \cap {"phantom", "absorb", "wilting", "vigor", "hydra", "protection",
                        "nocounters"} = {}

(* The damages of a combat act as if they were dealt at the same time: who  *)
(* dies, and what is left of those who live, depends on the sums and not on *)
(* the order of the stack.  Not so where the code lets the order decide:    *)
(* shields, prevention of some of a mixture, and regeneration from a death  *)
(* by counters.                                                             *)
AtTheSameTime ==
    phase = "settled" /\ before.shields = <<>> =>
      /\ \A c \in Card :
           LET k == before.cards[c]
               all == AtLeast0(Sum(On(c)) - k.preventable)
               withered == Sum(By({"wither", "infect"}, c))
               touched == Cardinality(By({"deathtouch"}, c))
               tokens == IF "cantregen" \in k.has THEN 0 ELSE k.regenerateTokens
               dies == \/ k.toughness - withered <= 0
                       \/ /\ "indestructible" \notin k.has
                          /\ IF touched > 0 THEN tokens < touched ELSE all >= k.life /\ tokens = 0
           IN /\ InPlay(k) /\ Plain(k)
              /\ k.preventable > 0 => withered + touched = 0
              /\ tokens > 0 => withered = 0
              => /\ InPlay(cards[c]) <=> ~dies
                 /\ cards[c].toughness = k.toughness - withered
                 /\ all < k.life /\ touched = 0 => cards[c].life = k.life - all
      /\ LET p == before.players[1]
             all == AtLeast0(Sum(On(1)) - p.preventable)
         IN (p.life - players[1].life) + (players[1].poisonCount - p.poisonCount)
              = all + (IF Sum(On(1)) > 0 THEN Toxin(cards[Attacker]) ELSE 0)

===============================================================================
