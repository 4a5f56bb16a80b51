------------------------ MODULE CombatDamage_proofs ------------------------
(***************************************************************************)
(* Proofs about damage and counters, for every set of creatures, whatever  *)
(* their abilities, and every amount: the types, that power and toughness  *)
(* are those of the card and its counters, that no creature is healthier   *)
(* than its toughness, that a creature without life is tested for death,   *)
(* that counters are cancelled in pairs, that while the damages of a       *)
(* combat are dealt nothing else buries a creature, and that the damage    *)
(* screen never holds an assignment that is not legal.                     *)
(*                                                                         *)
(* A creature is Sound between any two actions.  While counters come and   *)
(* go it is at least Firm: it may be dead and untested for a moment, and   *)
(* the test that follows makes it Sound.  For counters and deaths more is  *)
(* needed, and stated in the second half: Bare, Spared and Hardy.          *)
(***************************************************************************)
EXTENDS CombatDamage, Sums_proofs, SequenceTheorems, FiniteSetTheorems, TLAPS

Zones == {"inPlay", "graveyard", "exile"}
Creature == [power : Int, toughness : Int, has : SUBSET STRING, life : Int,
             nb : [Sides -> Nat], families : SUBSET Sides, doDamageTest : BOOLEAN,
             regenerateTokens : Nat, preventable : Nat, zone : Zones, base : Int \X Int]
Person == [life : Int, poisonCount : Nat, preventable : Nat]
Damage == [source : Card, target : Card \cup {0, 1}, amount : Nat, type : {"combat"}, ok : BOOLEAN]

Agrees(k) == /\ k.power = k.base[1] + (k.nb["+"] - k.nb["-"])
             /\ k.toughness = k.base[2] + (k.nb["+"] - k.nb["-"])
Firm(k) == k \in Creature /\ Agrees(k) /\ k.life <= k.toughness
Dead(k) == InPlay(k) /\ k.life <= 0 /\ "indestructible" \notin k.has
Sound(k) == Firm(k) /\ (Dead(k) => k.doDamageTest)

TablesSound ==
  /\ DOMAIN cards = Card /\ cards = [c \in Card |-> cards[c]] /\ \A c \in Card : Sound(cards[c])
  /\ players \in [{0, 1} -> Person]

(* The damages of the stack and the events that wait are real damages.     *)
StackTyped ==
  /\ line \in Seq(Blockers) /\ damages \in Seq(Damage) /\ queue \in Seq(Damage)
  /\ dealt \in 0 .. Len(damages)
  /\ phase \in {"free", "screen", "dealing", "events", "settled"}

IInv == TablesSound /\ StackTyped

-----------------------------------------------------------------------------
(* The helpers on numbers.                                                 *)

LEMMA AtLeast0Type == \A n : AtLeast0(n) \in Nat
BY DEF AtLeast0

LEMMA LesserType ==
  ASSUME NEW m \in Nat, NEW n \in Nat
  PROVE  Lesser(m, n) \in Nat /\ Lesser(m, n) <= m /\ Lesser(m, n) <= n
BY DEF Lesser

-----------------------------------------------------------------------------
(* Death leaves a firm creature sound.                                     *)

LEMMA BurySound ==
  ASSUME NEW k, Firm(k)
  PROVE  Sound(Bury(k))
BY DEF Bury, Sound, Firm, Dead, Agrees, InPlay, Creature, Zones

LEMMA DestroySound ==
  ASSUME NEW k, Firm(k)
  PROVE  Sound(Destroy(k))
<1> DEFINE r == [k EXCEPT !.regenerateTokens = @ - 1, !.life = k.toughness]
<1>1. CASE k.regenerateTokens = 0 \/ "cantregen" \in k.has
  BY <1>1, BurySound DEF Destroy
<1>2. CASE ~(k.regenerateTokens = 0 \/ "cantregen" \in k.has)
  <2>0. k.regenerateTokens - 1 \in Nat /\ k.toughness \in Int /\ k \in Creature
    BY <1>2 DEF Firm, Creature
  <2>1. Firm(r) /\ r.life \in Int
    <3>1. r \in Creature
      BY <2>0 DEF Creature
    <3>2. r.life = k.toughness /\ r.toughness = k.toughness /\ Agrees(r)
      BY <2>0 DEF Firm, Agrees, Creature
    <3> QED
      BY <2>0, <3>1, <3>2 DEF Firm
  <2>2. CASE r.life < 1
    BY <1>2, <2>1, <2>2, BurySound DEF Destroy
  <2>3. CASE ~(r.life < 1)
    <3>1. Destroy(k) = r
      BY <1>2, <2>3 DEF Destroy
    <3>2. ~Dead(r)
      BY <2>1, <2>3 DEF Dead
    <3> QED
      BY <2>1, <3>1, <3>2 DEF Sound
  <2> QED
    BY <2>2, <2>3
<1> QED
  BY <1>1, <1>2

LEMMA AfterDamageSound ==
  ASSUME NEW k, Sound(k)
  PROVE  Sound(AfterDamage(k))
<1> DEFINE t == [k EXCEPT !.doDamageTest = FALSE]
<1>1. CASE ~k.doDamageTest
  BY <1>1 DEF AfterDamage
<1>2. CASE k.doDamageTest
  <2>1. Firm(t)
    BY DEF Sound, Firm, Agrees, Creature
  <2>2. CASE t.life <= 0 /\ InPlay(t)
    BY <1>2, <2>1, <2>2, DestroySound DEF AfterDamage
  <2>3. CASE ~(t.life <= 0 /\ InPlay(t))
    BY <1>2, <2>1, <2>3 DEF AfterDamage, Sound, Dead
  <2> QED
    BY <2>2, <2>3
<1> QED
  BY <1>1, <1>2

(* A test that is owed makes any firm creature sound.                      *)
LEMMA OwedTest ==
  ASSUME NEW k, Firm(k)
  PROVE  Sound([k EXCEPT !.doDamageTest = TRUE])
BY DEF Sound, Firm, Agrees, Creature, Dead

LEMMA GraveSound ==
  ASSUME NEW k, Sound(k)
  PROVE  Sound(GraveIfShrunk(k))
BY DEF GraveIfShrunk, Sound, Firm, Agrees, Creature, Dead, InPlay, Zones

-----------------------------------------------------------------------------
(* Counters.                                                               *)

LEMMA CountSound ==
  ASSUME NEW k, Firm(k), NEW s \in Sides, NEW n \in Int, k.nb[s] + n >= 0
  PROVE  /\ Sound(Count(k, s, n)) /\ Count(k, s, n).doDamageTest
         /\ Count(k, s, n).nb = [k.nb EXCEPT ![s] = @ + n]
<1>1. k \in Creature /\ Sign(s) \in Int /\ k.nb \in [Sides -> Nat]
  BY DEF Firm, Creature, Sign
<1> DEFINE c == Count(k, s, n)
<1>2. /\ c.nb = [k.nb EXCEPT ![s] = @ + n] /\ c.power = k.power + n * Sign(s)
      /\ c.toughness = k.toughness + n * Sign(s) /\ c.life = k.life + n * Sign(s)
      /\ c.doDamageTest /\ c.base = k.base
  BY <1>1 DEF Count, Creature
<1>3. n * Sign(s) = IF s = "+" THEN n ELSE -n
  BY DEF Sign
<1>4. c.nb \in [Sides -> Nat]
  BY <1>1, <1>2
<1>5. c \in Creature
  <2>1. k.power + n * Sign(s) \in Int /\ k.toughness + n * Sign(s) \in Int /\ k.life + n * Sign(s) \in Int
    BY <1>1, <1>3 DEF Creature
  <2>2. [k.nb EXCEPT ![s] = @ + n] \in [Sides -> Nat]
    BY <1>2, <1>4
  <2> HIDE DEF c
  <2>3. c = [k EXCEPT !.nb = [k.nb EXCEPT ![s] = @ + n], !.power = k.power + n * Sign(s),
                      !.toughness = k.toughness + n * Sign(s), !.life = k.life + n * Sign(s),
                      !.doDamageTest = TRUE]
    BY <1>1 DEF c, Count, Creature
  <2> QED
    BY <1>1, <2>1, <2>2, <2>3 DEF Creature
<1>6. Agrees(c)
  <2>1. CASE s = "+"
    BY <1>1, <1>2, <1>3, <2>1 DEF Firm, Agrees, Sides, Creature
  <2>2. CASE s = "-"
    BY <1>1, <1>2, <1>3, <2>2 DEF Firm, Agrees, Sides, Creature
  <2> QED
    BY <2>1, <2>2 DEF Sides
<1>7. c.life <= c.toughness
  BY <1>1, <1>2, <1>3 DEF Firm, Creature
<1> QED
  BY <1>2, <1>5, <1>6, <1>7 DEF Sound, Firm

LEMMA NbType ==
  ASSUME NEW k, Sound(k)
  PROVE  Firm(k) /\ k \in Creature /\ \A s \in Sides : k.nb[s] \in Nat
BY DEF Sound, Firm, Creature

LEMMA AddCounterSound ==
  ASSUME NEW k, Sound(k), NEW s \in Sides
  PROVE  Sound(AddCounter(k, s))
<1> DEFINE c == Count(k, s, 1)
           f == [c EXCEPT !.families = @ \cup {s}]
<1>1. Sound(c) /\ c.doDamageTest
  <2>1. Firm(k) /\ k.nb[s] + 1 >= 0 /\ 1 \in Int
    BY NbType
  <2> QED
    BY <2>1, CountSound
<1>2. Sound(f)
  BY <1>1 DEF Sound, Firm, Agrees, Creature, Dead, InPlay
<1>3. Sound(AfterDamage(f))
  BY <1>2, AfterDamageSound
<1> QED
  BY <1>1, <1>3 DEF AddCounter

LEMMA AddCountersSound ==
  ASSUME NEW k, Sound(k), NEW s \in Sides, NEW n \in Nat
  PROVE  Sound(AddCounters(k, s, n))
<1>1. Sound(AddCounter(k, s))
  BY AddCounterSound
<1>2. CASE n > 1
  <2> DEFINE a == AddCounter(k, s)
  <2>1. Firm(a) /\ a.nb[s] + (n - 1) >= 0 /\ n - 1 \in Int
    BY <1>1, <1>2, NbType
  <2>2. Sound(Count(a, s, n - 1))
    BY <2>1, CountSound
  <2> QED
    BY <1>2, <2>2 DEF AddCounters
<1>3. CASE n <= 1
  BY <1>1, <1>3 DEF AddCounters
<1> QED
  BY <1>2, <1>3

LEMMA RemoveCountersSound ==
  ASSUME NEW k, Sound(k), NEW s \in Sides, NEW n \in Nat
  PROVE  Sound(RemoveCounters(k, s, n))
<1> DEFINE m == Lesser(n, k.nb[s])
<1>1. m \in Nat /\ m <= k.nb[s] /\ k.nb[s] \in Nat
  BY NbType, LesserType
<1>2. Sound(Count(k, s, -m))
  <2> HIDE DEF m
  <2>1. Firm(k) /\ k.nb[s] + -m >= 0 /\ -m \in Int
    BY <1>1, NbType
  <2> QED
    BY <2>1, CountSound
<1> QED
  BY <1>2 DEF RemoveCounters

LEMMA CancelSound ==
  ASSUME NEW k, Sound(k), NEW s \in Sides
  PROVE  Sound(CancelCounter(k, s))
<1> DEFINE n == Lesser(k.nb["+"], k.nb["-"])
           c == Count(k, Opposite(s), -n)
<1>1. /\ n \in Nat /\ n <= k.nb["+"] /\ n <= k.nb["-"] /\ k.nb["+"] \in Nat /\ k.nb["-"] \in Nat
  BY NbType, LesserType DEF Sides
<1>2. Opposite(s) \in Sides /\ Opposite(s) # s
  BY DEF Opposite, Sides
<1>3. n <= k.nb[s] /\ n <= k.nb[Opposite(s)] /\ k.nb[s] \in Nat /\ k.nb[Opposite(s)] \in Nat
  BY <1>1 DEF Opposite, Sides
<1>4. Sound(c) /\ c.nb = [k.nb EXCEPT ![Opposite(s)] = @ + -n]
  BY <1>1, <1>2, <1>3, NbType, CountSound
<1>5. c.nb[s] = k.nb[s]
  BY <1>2, <1>4, NbType DEF Creature
<1>6. Sound(Count(c, s, -n))
  <2> HIDE DEF c, n
  <2>1. Firm(c) /\ c.nb[s] + -n >= 0 /\ -n \in Int
    BY <1>1, <1>3, <1>4, <1>5, NbType
  <2> QED
    BY <2>1, CountSound
<1> QED
  BY <1>6 DEF CancelCounter

LEMMA PutCountersSound ==
  ASSUME NEW k, Sound(k), NEW s \in Sides, NEW n \in Int
  PROVE  Sound(PutCounters(k, s, n))
<1> DEFINE put == IF n < 0 THEN RemoveCounters(k, s, -n)
                  ELSE IF InPlay(AddCounter(k, s)) THEN AddCounters(k, s, n) ELSE AddCounter(k, s)
           owed == [put EXCEPT !.doDamageTest = TRUE]
           tested == AfterDamage(owed)
           done == IF InPlay(tested) THEN CancelCounter(tested, s) ELSE tested
<1>1. Sound(put)
  BY RemoveCountersSound, AddCountersSound, AddCounterSound
<1>2. Sound(owed)
  BY <1>1, OwedTest, NbType
<1>3. Sound(tested)
  BY <1>2, AfterDamageSound
<1>4. Sound(done)
  BY <1>3, CancelSound
<1>5. Sound(GraveIfShrunk(done))
  BY <1>4, GraveSound
<1>6. PutCounters(k, s, n) = IF s = "-" THEN GraveIfShrunk(done) ELSE done
  BY DEF PutCounters
<1> QED
  BY <1>4, <1>5, <1>6
-----------------------------------------------------------------------------
(* One damage.                                                             *)

LEMMA SoakSound ==
  ASSUME NEW k, Sound(k), NEW src, NEW n \in Nat
  PROVE  Sound(Soak(k, src, n).card) /\ Soak(k, src, n).left \in Nat
<1> DEFINE a1 == IF Protected(k, src) \/ "phantom" \in k.has THEN 0 ELSE n
           k1 == IF "phantom" \in k.has THEN RemoveCounters(k, "+", 1) ELSE k
           a2 == IF "absorb" \in k.has THEN AtLeast0(a1 - 1) ELSE a1
           k2 == IF "wilting" \in k.has THEN AddCounters(k1, "-", a2)
                 ELSE IF "vigor" \in k.has THEN AddCounters(k1, "+", a2)
                 ELSE IF "hydra" \in k.has THEN RemoveCounters(k1, "+", a2) ELSE k1
           left == IF k.has \cap {"wilting", "vigor", "hydra"} # {} THEN 0 ELSE a2
<1>1. a2 \in Nat
  BY AtLeast0Type
<1>2. "+" \in Sides /\ "-" \in Sides
  BY DEF Sides
<1>3. Sound(k1)
  BY <1>2, RemoveCountersSound
<1>4. Sound(k2)
  <2> HIDE DEF a2, k1
  <2> QED
    BY <1>1, <1>2, <1>3, AddCountersSound, RemoveCountersSound
<1>5. Soak(k, src, n) = [card |-> k2, left |-> left]
  BY DEF Soak
<1>6. left \in Nat
  BY <1>1
<1> HIDE DEF k2, left
<1> QED
  BY <1>4, <1>5, <1>6

LEMMA WoundSound ==
  ASSUME NEW k, Sound(k), k.doDamageTest, NEW src, NEW n \in Nat
  PROVE  Sound(Wound(k, src, n))
<1>1. CASE src.has \cap {"wither", "infect"} # {}
  BY <1>1, AddCountersSound, GraveSound DEF Wound, Sides
<1>2. CASE src.has \cap {"wither", "infect"} = {}
  <2> DEFINE w == [k EXCEPT !.life = @ - n]
  <2>1. k \in Creature /\ k.life - n \in Int
    BY NbType DEF Creature
  <2>2. w \in Creature
    BY <2>1 DEF Creature
  <2>3. /\ w.life <= w.toughness /\ w.doDamageTest /\ Agrees(w)
    BY <2>1 DEF Sound, Firm, Agrees, Creature
  <2>4. Wound(k, src, n) = w
    BY <1>2 DEF Wound
  <2> QED
    BY <2>2, <2>3, <2>4 DEF Sound, Firm
<1> QED
  BY <1>1, <1>2

LEMMA PreventSound ==
  ASSUME NEW k, Sound(k), NEW n \in Nat
  PROVE  /\ Sound([k EXCEPT !.preventable = @ - Prevented(n, k)])
         /\ n - Prevented(n, k) \in Nat
<1> DEFINE m == Prevented(n, k)
           w == [k EXCEPT !.preventable = @ - m]
<1>1. k \in Creature /\ k.preventable \in Nat
  BY NbType DEF Creature
<1>2. m \in Nat /\ m <= n /\ m <= k.preventable
  BY <1>1, LesserType DEF Prevented
<1> HIDE DEF m
<1>3. k.preventable - m \in Nat /\ n - m \in Nat
  BY <1>1, <1>2
<1>4. w \in Creature
  BY <1>1, <1>3 DEF Creature
<1>5. Sound(w)
  BY <1>1, <1>4 DEF Sound, Firm, Agrees, Creature, Dead, InPlay
<1> QED
  BY <1>3, <1>5 DEF m

LEMMA WoundPlayerType ==
  ASSUME NEW p \in Person, NEW src, NEW n \in Nat
  PROVE  WoundPlayer(p, src, n) \in Person
<1>1. p.poisonCount + n \in Nat /\ p.life - n \in Int /\ Toxin(src) \in Nat
  BY DEF Person, Toxin
<1>2. p.poisonCount + Toxin(src) \in Nat
  BY <1>1 DEF Person
<1> QED
  BY <1>1, <1>2 DEF WoundPlayer, Person

(* Dealing a damage keeps the tables sound, and its event has an amount.   *)
LEMMA DealSound ==
  ASSUME TablesSound, NEW d, d.source \in Card, d.target \in Card \cup {0, 1}, d.amount \in Nat
  PROVE  /\ DOMAIN Deal(d).cards = Card /\ Deal(d).cards = [c \in Card |-> Deal(d).cards[c]]
         /\ \A c \in Card : Sound(Deal(d).cards[c])
         /\ Deal(d).players \in [{0, 1} -> Person]
         /\ Deal(d).event \in Nat /\ Deal(d).ok \in BOOLEAN
<1> DEFINE src == cards[d.source]
           stop == Stopper(shields, d)
           none == [cards |-> cards, players |-> players, shields |-> shields,
                    event |-> 0, ok |-> TRUE]
<1>1. CASE stop # {}
  <2>1. Deal(d) = [none EXCEPT !.shields[First(stop)].up = ~shields[First(stop)].once]
    BY <1>1 DEF Deal
  <2> QED
    BY <2>1 DEF TablesSound
<1>2. CASE stop = {} /\ d.target \in Card
  <2> DEFINE k == cards[d.target]
             n == Prevented(d.amount, k)
             s == Soak([k EXCEPT !.preventable = @ - n], src, d.amount - n)
             x == [s.card EXCEPT !.doDamageTest = TRUE]
             w == Wound(x, src, s.left)
  <2>1. Sound(k)
    BY <1>2 DEF TablesSound
  <2>2. Sound([k EXCEPT !.preventable = @ - n]) /\ d.amount - n \in Nat
    BY <2>1, PreventSound
  <2>3. Sound(s.card) /\ s.left \in Nat
    <3> HIDE DEF n
    <3> QED
      BY <2>2, SoakSound
  <2>4. Deal(d) = IF s.left = 0 THEN [none EXCEPT !.cards[d.target] = s.card, !.ok = FALSE]
                  ELSE [none EXCEPT !.event = s.left, !.cards[d.target] = w]
    BY <1>2 DEF Deal
  <2> HIDE DEF s
  <2>5. Sound(x) /\ x.doDamageTest
    BY <2>3, NbType, OwedTest DEF Creature
  <2> HIDE DEF x
  <2>6. Sound(w)
    BY <2>3, <2>5, WoundSound
  <2> HIDE DEF w
  <2>7. CASE s.left = 0
    BY <2>3, <2>4, <2>7, <1>2 DEF TablesSound
  <2>8. CASE s.left # 0
    BY <2>3, <2>4, <2>6, <2>8, <1>2 DEF TablesSound
  <2> QED
    BY <2>7, <2>8
<1>3. CASE stop = {} /\ d.target \notin Card
  <2> DEFINE p == players[d.target]
             n == Prevented(d.amount, p)
             q == [p EXCEPT !.preventable = @ - n]
             w == WoundPlayer(q, src, d.amount - n)
  <2>1. d.target \in {0, 1} /\ p \in Person /\ p.preventable \in Nat
    BY <1>3 DEF TablesSound, Person
  <2>2. n \in Nat /\ n <= d.amount /\ n <= p.preventable
    BY <2>1, LesserType DEF Prevented
  <2>3. Deal(d) = [none EXCEPT !.event = d.amount - n, !.players[d.target] = w]
    BY <1>3 DEF Deal
  <2> HIDE DEF n
  <2>4. q \in Person /\ d.amount - n \in Nat
    BY <2>1, <2>2 DEF Person
  <2> HIDE DEF q
  <2>5. w \in Person
    BY <2>4, WoundPlayerType
  <2> HIDE DEF w, p
  <2> QED
    BY <2>1, <2>3, <2>4, <2>5 DEF TablesSound
<1> QED
  BY <1>1, <1>2, <1>3

LEMMA HearSound ==
  ASSUME NEW k, Sound(k), NEW src, NEW n
  PROVE  Sound(Hear(k, src, n))
BY NbType, DestroySound DEF Hear
-----------------------------------------------------------------------------
(* The invariant holds at first, and every action keeps it.                *)

LEMMA InitIInv == Init => IInv
<1> SUFFICES ASSUME Init PROVE IInv
  OBVIOUS
<1>1. PICK cast \in Casts : cards = [c \in Card |->
         [power |-> cast[c].power, toughness |-> cast[c].toughness, has |-> cast[c].has,
          life |-> cast[c].toughness, nb |-> [s \in Sides |-> 0], families |-> {},
          doDamageTest |-> FALSE, regenerateTokens |-> 0, preventable |-> 0,
          zone |-> cast[c].zone, base |-> <<cast[c].power, cast[c].toughness>>]]
  BY DEF Init
<1>2. ASSUME NEW c \in Card PROVE Sound(cards[c])
  <2>1. /\ cast[c].power \in Nat /\ cast[c].toughness \in Nat /\ cast[c].toughness # 0
        /\ cast[c].has \in SUBSET STRING /\ cast[c].zone \in Zones
    BY DamageAssumption DEF Zones
  <2>2. cards[c] \in Creature
    BY <1>1, <2>1 DEF Creature
  <2>3. Agrees(cards[c])
    BY <1>1, <2>1 DEF Agrees, Sides
  <2>4. cards[c].life = cards[c].toughness /\ cards[c].life \in Nat /\ cards[c].life # 0
    BY <1>1, <2>1
  <2>5. cards[c].life <= cards[c].toughness /\ ~(cards[c].life <= 0)
    BY <2>4
  <2> QED
    BY <2>2, <2>3, <2>5 DEF Sound, Firm, Dead
<1>3. TablesSound
  BY <1>1, <1>2 DEF TablesSound, Init, Person
<1>4. StackTyped
  BY DEF StackTyped, Init
<1> QED
  BY <1>3, <1>4 DEF IInv

(* An effect on one creature that keeps it sound keeps the tables sound.   *)
LEMMA OneCard ==
  ASSUME TablesSound, NEW c \in Card, NEW k, Sound(k),
         cards' = [cards EXCEPT ![c] = k], players' = players
  PROVE  TablesSound'
BY DEF TablesSound

LEMMA FreeTyped ==
  ASSUME Free PROVE StackTyped'
BY DEF Free, StackTyped

LEMMA CounterInv ==
  ASSUME IInv, NEW c \in Card, NEW s \in Sides, NEW n \in Batches, Counter(c, s, n)
  PROVE  IInv'
<1>1. Sound(PutCounters(cards[c], s, n))
  BY DamageAssumption, PutCountersSound DEF IInv, TablesSound
<1>2. cards' = [cards EXCEPT ![c] = PutCounters(cards[c], s, n)] /\ players' = players /\ Free
  BY DEF Counter, Effect, Act
<1> QED
  BY <1>1, <1>2, OneCard, FreeTyped DEF IInv

LEMMA RegenerateInv ==
  ASSUME IInv, NEW c \in Card, Regenerate(c)
  PROVE  IInv'
<1> DEFINE k == cards[c]
           n == IF "cantregen" \in k.has THEN k.regenerateTokens ELSE k.regenerateTokens + 1
           w == [k EXCEPT !.regenerateTokens = n]
<1>1. Sound(k) /\ k \in Creature /\ n \in Nat
  BY NbType DEF IInv, TablesSound, Creature
<1>2. cards' = [cards EXCEPT ![c] = w] /\ players' = players /\ Free
  BY DEF Regenerate, Effect, Act
<1> HIDE DEF n
<1>3. Sound(w)
  <2>1. w \in Creature
    BY <1>1 DEF Creature
  <2> QED
    BY <1>1, <2>1 DEF Sound, Firm, Agrees, Creature, Dead, InPlay
<1> QED
  BY <1>2, <1>3, OneCard, FreeTyped DEF IInv

LEMMA PreventCardInv ==
  ASSUME IInv, NEW c \in Card, NEW n \in Amounts, PreventCard(c, n)
  PROVE  IInv'
<1> DEFINE k == cards[c]
           w == [k EXCEPT !.preventable = @ + n]
<1>1. Sound(k) /\ k \in Creature /\ k.preventable + n \in Nat
  BY NbType, DamageAssumption DEF IInv, TablesSound, Creature
<1>2. cards' = [cards EXCEPT ![c] = w] /\ players' = players /\ Free
  BY DEF PreventCard, Effect, Act
<1>3. Sound(w)
  <2>1. w \in Creature
    BY <1>1 DEF Creature
  <2> QED
    BY <1>1, <2>1 DEF Sound, Firm, Agrees, Creature, Dead, InPlay
<1> QED
  BY <1>2, <1>3, OneCard, FreeTyped DEF IInv

LEMMA PreventPlayerInv ==
  ASSUME IInv, NEW p \in {0, 1}, NEW n \in Amounts, PreventPlayer(p, n)
  PROVE  IInv'
<1>1. /\ players' = [players EXCEPT ![p].preventable = @ + n] /\ cards' = cards /\ Free
      /\ players \in [{0, 1} -> Person] /\ n \in Nat
  BY DamageAssumption DEF PreventPlayer, Act, IInv, TablesSound
<1>2. players' \in [{0, 1} -> Person]
  BY <1>1 DEF Person
<1> QED
  BY <1>1, <1>2, FreeTyped DEF IInv, TablesSound

LEMMA AddShieldInv ==
  ASSUME IInv, NEW sh, AddShield(sh)
  PROVE  IInv'
<1>1. UNCHANGED <<cards, players>> /\ Free
  BY DEF AddShield, Act
<1> QED
  BY <1>1, FreeTyped DEF IInv, TablesSound

LEMMA BurnInv ==
  ASSUME IInv, NEW c \in Card, NEW t \in Card \cup {0, 1}, NEW n \in Amounts, Burn(c, t, n)
  PROVE  IInv'
<1> DEFINE d == [source |-> c, target |-> t, amount |-> n, type |-> "other"]
           w == Deal(d)
           k == AfterDamage(Hear(w.cards[t], cards[c], w.event))
<1>1. /\ DOMAIN w.cards = Card /\ w.cards = [x \in Card |-> w.cards[x]]
      /\ \A x \in Card : Sound(w.cards[x])
      /\ w.players \in [{0, 1} -> Person]
  <2>1. TablesSound /\ d.source \in Card /\ d.target \in Card \cup {0, 1} /\ d.amount \in Nat
    BY DamageAssumption DEF IInv
  <2> HIDE DEF d
  <2> QED
    BY <2>1, DealSound
<1>2. t \in Card => Sound(k)
  BY <1>1, HearSound, AfterDamageSound
<1>3. /\ cards' = IF t \notin Card THEN w.cards ELSE [w.cards EXCEPT ![t] = k]
      /\ players' = w.players /\ Free
  BY DEF Burn, Act
<1> HIDE DEF w, k
<1>4. TablesSound'
  BY <1>1, <1>2, <1>3 DEF TablesSound
<1> QED
  BY <1>3, <1>4, FreeTyped DEF IInv

LEMMA StateBasedInv ==
  ASSUME IInv, StateBased
  PROVE  IInv'
<1>1. \A c \in Card : Sound(cards[c]) /\ Sound(AfterDamage(cards[c]))
  BY AfterDamageSound DEF IInv, TablesSound
<1>2. /\ cards' = [c \in Card |-> IF InPlay(cards[c]) THEN AfterDamage(cards[c]) ELSE cards[c]]
      /\ players' = players /\ Free
  BY DEF StateBased
<1>3. TablesSound'
  BY <1>1, <1>2 DEF IInv, TablesSound
<1> QED
  BY <1>2, <1>3, FreeTyped DEF IInv

(* No creature owes a test as it is healed, so that its life, and with it  *)
(* its toughness, is above 0 unless it is indestructible.                  *)
LEMMA EndTurnInv ==
  ASSUME IInv, EndTurn
  PROVE  IInv'
<1> DEFINE F(k) == [k EXCEPT !.life = k.toughness, !.regenerateTokens = 0, !.preventable = 0]
<1>1. ASSUME NEW c \in Card, InPlay(cards[c]) PROVE Sound(F(cards[c]))
  <2> DEFINE k == cards[c]
  <2>1. Sound(k) /\ k \in Creature /\ ~k.doDamageTest
    BY <1>1, NbType DEF IInv, TablesSound, EndTurn
  <2>2. F(k) \in Creature /\ Agrees(F(k)) /\ F(k).life = k.toughness /\ F(k).toughness = k.toughness
    BY <2>1 DEF Sound, Firm, Agrees, Creature
  <2>3. Firm(F(k))
    BY <2>1, <2>2 DEF Firm, Creature
  <2>4. ~Dead(k) /\ k.life <= k.toughness /\ k.life \in Int /\ k.toughness \in Int
    BY <2>1 DEF Sound, Firm, Creature
  <2>5. F(k).zone = k.zone /\ F(k).has = k.has
    BY <2>1 DEF Creature
  <2>6. ~Dead(F(k))
    BY <2>2, <2>4, <2>5 DEF Dead, InPlay
  <2> QED
    BY <2>3, <2>6 DEF Sound
<1>2. /\ cards' = [c \in Card |-> IF InPlay(cards[c]) THEN F(cards[c]) ELSE cards[c]]
      /\ players' = [players EXCEPT ![1 - currentPlayer].preventable = 0] /\ Free
  BY DEF EndTurn, Act
<1> HIDE DEF F
<1>3. players' \in [{0, 1} -> Person]
  <2>1. \A p \in {0, 1} : [players[p] EXCEPT !.preventable = 0] \in Person
    BY DEF IInv, TablesSound, Person
  <2> QED
    BY <1>2, <2>1 DEF IInv, TablesSound
<1>4. TablesSound'
  BY <1>1, <1>2, <1>3 DEF IInv, TablesSound
<1> QED
  BY <1>2, <1>4, FreeTyped DEF IInv
-----------------------------------------------------------------------------
(* A fight.                                                                *)

LEMMA LineType ==
  ASSUME NEW S \in SUBSET Blockers, NEW q \in Orders(S)
  PROVE  q \in Seq(Blockers)
<1>1. IsFiniteSet(S)
  BY DamageAssumption, FS_Subset
<1>2. Cardinality(S) \in Nat
  BY <1>1, FS_CardinalityType
<1> QED
  BY <1>2 DEF Orders

LEMMA BlowType ==
  ASSUME NEW c \in Card, NEW t \in Card \cup {0, 1}, NEW n
  PROVE  Blow(c, t, n) \in Damage
<1>1. AtLeast0(n) \in Nat
  BY AtLeast0Type
<1> QED
  BY <1>1 DEF Blow, Damage

LEMMA ResolveInv ==
  ASSUME IInv, Resolve
  PROVE  IInv'
<1> DEFINE m == Len(line)
           B(i) == IF i <= m THEN Blow(Attacker, line[i], amounts[i])
                   ELSE IF i > m + 1 THEN Blow(line[i - m - 1], Attacker, cards[line[i - m - 1]].power)
                   ELSE Blow(Attacker, 1, IF ~blocked \/ Fight.trample
                                          THEN Fight.power - Total(amounts) ELSE 0)
<1>1. m \in Nat /\ \A i \in 1 .. m : line[i] \in Blockers
  BY DEF IInv, StackTyped
<1>2. Attacker \in Card /\ \A i \in 1 .. m : line[i] \in Card
  BY <1>1 DEF Card
<1>3. \A i \in 1 .. (2 * m + 1) : B(i) \in Damage
  <2> SUFFICES ASSUME NEW i \in 1 .. (2 * m + 1) PROVE B(i) \in Damage
    OBVIOUS
  <2> DEFINE r == IF ~blocked \/ Fight.trample THEN Fight.power - Total(amounts) ELSE 0
  <2>1. CASE i <= m
    <3>1. B(i) = Blow(Attacker, line[i], amounts[i])
      BY <2>1
    <3> HIDE DEF B
    <3>2. line[i] \in Card
      BY <1>1, <1>2, <2>1
    <3> QED
      BY <1>2, <3>1, <3>2, BlowType
  <2>2. CASE i > m + 1
    <3> DEFINE c == line[i - m - 1]
    <3>1. B(i) = Blow(c, Attacker, cards[c].power)
      BY <1>1, <2>2
    <3>2. c \in Card
      BY <1>1, <1>2, <2>2
    <3> HIDE DEF B, c
    <3> QED
      BY <1>2, <3>1, <3>2, BlowType
  <2>3. CASE i = m + 1
    <3>1. B(i) = Blow(Attacker, 1, r)
      BY <1>1, <2>3
    <3> HIDE DEF B, r
    <3> QED
      BY <1>2, <3>1, BlowType
  <2> QED
    BY <1>1, <2>1, <2>2, <2>3
<1>4. /\ damages' = [i \in 1 .. (2 * m + 1) |-> B(i)] /\ dealt' = 2 * m + 1
      /\ queue' = <<>> /\ line' = line /\ phase' = "dealing"
      /\ cards' = cards /\ players' = players
  BY DEF Resolve, table
<1> HIDE DEF B
<1>5. damages' \in Seq(Damage) /\ Len(damages') = 2 * m + 1
  BY <1>1, <1>3, <1>4
<1> QED
  BY <1>1, <1>4, <1>5 DEF IInv, StackTyped, TablesSound

LEMMA DealOneInv ==
  ASSUME IInv, DealOne
  PROVE  IInv'
<1> DEFINE d == damages[dealt]
           w == Deal(d)
<1>1. /\ damages \in Seq(Damage) /\ queue \in Seq(Damage) /\ dealt \in 1 .. Len(damages) /\ d \in Damage
  BY DEF IInv, StackTyped, DealOne
<1>2. /\ DOMAIN w.cards = Card /\ w.cards = [c \in Card |-> w.cards[c]]
      /\ \A c \in Card : Sound(w.cards[c])
      /\ w.players \in [{0, 1} -> Person] /\ w.event \in Nat /\ w.ok \in BOOLEAN
  <2>1. TablesSound /\ d.source \in Card /\ d.target \in Card \cup {0, 1} /\ d.amount \in Nat
    BY <1>1 DEF IInv, Damage
  <2> HIDE DEF d
  <2> QED
    BY <2>1, DealSound
<1>3. /\ cards' = w.cards /\ players' = w.players /\ dealt' = dealt - 1
      /\ damages' = [damages EXCEPT ![dealt].ok = w.ok]
      /\ queue' = IF w.event > 0 THEN Append(queue, [d EXCEPT !.amount = w.event]) ELSE queue
      /\ line' = line /\ phase' = phase
  BY DEF DealOne
<1> HIDE DEF w
<1>4. TablesSound'
  BY <1>2, <1>3 DEF TablesSound
<1>5. [d EXCEPT !.amount = w.event] \in Damage /\ [d EXCEPT !.ok = w.ok] \in Damage
  BY <1>1, <1>2 DEF Damage
<1>6. queue' \in Seq(Damage)
  BY <1>1, <1>3, <1>5
<1>7. damages' \in Seq(Damage) /\ Len(damages') = Len(damages)
  BY <1>1, <1>3, <1>5
<1>8. dealt' \in 0 .. Len(damages')
  BY <1>1, <1>3, <1>7
<1> QED
  BY <1>3, <1>4, <1>6, <1>7, <1>8 DEF IInv, StackTyped

LEMMA HearOneInv ==
  ASSUME IInv, HearOne
  PROVE  IInv'
<1> DEFINE t == Head(queue).target
           k == Hear(cards[t], cards[Head(queue).source], Head(queue).amount)
<1>1. /\ cards' = IF t \notin Card THEN cards ELSE [cards EXCEPT ![t] = k]
      /\ queue' = Tail(queue) /\ queue # <<>>
      /\ UNCHANGED <<players, line, damages, dealt, phase>>
  BY DEF HearOne
<1>2. t \in Card => Sound(k)
  BY HearSound DEF IInv, TablesSound
<1> HIDE DEF k, t
<1>3. TablesSound'
  BY <1>1, <1>2 DEF IInv, TablesSound
<1> QED
  BY <1>1, <1>3 DEF IInv, StackTyped

LEMMA StackResolvedInv ==
  ASSUME IInv, StackResolved
  PROVE  IInv'
<1>1. \A c \in Card : Sound(cards[c]) /\ Sound(AfterDamage(cards[c]))
  BY AfterDamageSound DEF IInv, TablesSound
<1> DEFINE Hit == {damages[i].target : i \in {j \in DOMAIN damages : damages[j].ok /\ damages[j].amount > 0}}
<1>2. /\ cards' = [c \in Card |-> IF c \in Hit THEN AfterDamage(cards[c]) ELSE cards[c]]
      /\ UNCHANGED <<players, line, damages, dealt, queue>> /\ phase' = "settled"
  BY DEF StackResolved, combat
<1> HIDE DEF Hit
<1>3. TablesSound'
  BY <1>1, <1>2 DEF IInv, TablesSound
<1> QED
  BY <1>2, <1>3 DEF IInv, StackTyped

LEMMA NextIInv == IInv /\ [Next]_vars => IInv'
<1> SUFFICES ASSUME IInv, [Next]_vars PROVE IInv'
  OBVIOUS
<1>1. CASE Acting
  BY <1>1, CounterInv, RegenerateInv, PreventCardInv, PreventPlayerInv, BurnInv, EndTurnInv, AddShieldInv
     DEF Acting
<1>2. CASE StateBased
  BY <1>2, StateBasedInv
<1>3. CASE Fighting
  <2>1. ASSUME NEW S \in SUBSET Blockers, NEW q \in Orders(S), NEW b \in BOOLEAN, BeginDamage(q, b)
        PROVE IInv'
    <3>1. /\ line' = q /\ phase' = "screen"
          /\ UNCHANGED <<cards, players, damages, dealt, queue>>
      BY <2>1 DEF BeginDamage, table
    <3> QED
      BY <3>1, LineType DEF IInv, StackTyped, TablesSound
  <2>2. ASSUME NEW i \in DOMAIN line, Up(i) \/ Down(i) \/ Ok(i) PROVE IInv'
    <3>1. UNCHANGED <<cards, players, line, damages, dealt, queue, phase>>
      BY <2>2 DEF Up, Down, Ok, Key, table
    <3> QED
      BY <3>1 DEF IInv, StackTyped, TablesSound
  <2>3. CASE NoBlow
    BY <2>3 DEF NoBlow, table, IInv, StackTyped, TablesSound
  <2>4. CASE AllDealt
    BY <2>4 DEF AllDealt, table, combat, IInv, StackTyped, TablesSound
  <2> QED
    BY <1>3, <2>1, <2>2, <2>3, <2>4, ResolveInv, DealOneInv, HearOneInv, StackResolvedInv DEF Fighting
<1>4. CASE UNCHANGED vars
  BY <1>4 DEF vars, table, combat, IInv, StackTyped, TablesSound
<1> QED
  BY <1>1, <1>2, <1>3, <1>4 DEF Next

LEMMA SpecIInv == Spec => []IInv
BY InitIInv, NextIInv, PTL DEF Spec

-----------------------------------------------------------------------------
(* Types: no counter, prevention or regeneration is ever less than none.   *)
THEOREM TypesHold == Spec => []TypeOK
<1>1. IInv => TypeOK
  <2> SUFFICES ASSUME IInv PROVE TypeOK
    OBVIOUS
  <2>1. \A c \in Card : cards[c] \in Creature
    BY NbType DEF IInv, TablesSound
  <2> QED
    BY <2>1 DEF IInv, TablesSound, StackTyped, TypeOK, Creature, Person, Zones
<1> QED
  BY <1>1, SpecIInv, PTL

(* Power and toughness are those of the card and its counters, whatever    *)
(* comes, goes or cancels: Counter::added(), removed(), cancelCounter().   *)
THEOREM StatsAlwaysAgree == Spec => []StatsAgree
<1>1. IInv => StatsAgree
  BY DEF IInv, TablesSound, Sound, Firm, Agrees, StatsAgree
<1> QED
  BY <1>1, SpecIInv, PTL

(* No creature is healthier than its toughness: what is prevented of a     *)
(* damage is never more than the damage (Damage::resolve()).               *)
THEOREM NeverHealed == Spec => []NeverHealthier
<1>1. IInv => NeverHealthier
  BY DEF IInv, TablesSound, Sound, Firm, NeverHealthier
<1> QED
  BY <1>1, SpecIInv, PTL

(* A creature in play without life is indestructible, or doDamageTest is   *)
(* set, so that the next state based effects bury it.                      *)
THEOREM TheDeadAreTested == Spec => []DeadAreTested
<1>1. IInv => DeadAreTested
  BY DEF IInv, TablesSound, Sound, Dead, DeadAreTested
<1> QED
  BY <1>1, SpecIInv, PTL

(* All of it together, as the run checks it.                               *)
THEOREM CreaturesAlwaysSound == Spec => []CreaturesSound
<1>1. TypeOK /\ StatsAgree /\ NeverHealthier /\ DeadAreTested => CreaturesSound
  BY DEF CreaturesSound
<1> QED
  BY <1>1, TypesHold, StatsAlwaysAgree, NeverHealed, TheDeadAreTested, PTL

-----------------------------------------------------------------------------
(* Counters, and who dies of what.  A creature without counters keeps the  *)
(* toughness of its card, which is above 0 (Bare), and one that is in play *)
(* without life, and owes no test, cannot be destroyed by one (Spared).    *)
(* So a test in the middle of a combat, which the first +1/+1 counter of a *)
(* creature brings about, finds it alive (Hardy).                          *)

Deathless(k) == "indestructible" \in k.has /\ "exiledeath" \notin k.has
Lives(k) == k.life > 0 \/ Deathless(k)
Spared(k) == InPlay(k) => k.doDamageTest \/ Lives(k)
Bare(k) == k.base[2] > 0 /\ ("nocounters" \in k.has => k.nb["+"] = 0 /\ k.nb["-"] = 0)
Fit(k) == Sound(k) /\ Spared(k) /\ Bare(k)

(* A creature that damage makes grow.                                      *)
Growing(k) == "vigor" \in k.has /\ k.has \cap {"wilting", "phantom"} = {}
Hardy(k) == Growing(k) /\ InPlay(k) => Lives(k)
Neat(k) == InPlay(k) => k.nb["+"] = 0 \/ k.nb["-"] = 0
Unmarked(k) == k.has \cap Marking = {}

(* What k became is the same creature, and has not come back.              *)
Follows(k, x) == x.has = k.has /\ x.base = k.base /\ (InPlay(x) => InPlay(k))
Keeps(k, x) == Follows(k, x) /\ x.nb = k.nb
(* What damage may do to k before the events are handled.                  *)
Worn(k, x) == /\ x.nb["-"] >= k.nb["-"]
              /\ InPlay(k) /\ ~InPlay(x) => x.nb["-"] > k.nb["-"]
Harmed(k, x) == /\ Follows(k, x)
                /\ Hardy(k) => Worn(k, x) /\ Hardy(x)

-----------------------------------------------------------------------------
(* Death.                                                                  *)

LEMMA FitType ==
  ASSUME NEW k, Fit(k)
  PROVE  /\ Sound(k) /\ Firm(k) /\ k \in Creature /\ Bare(k) /\ Spared(k)
         /\ k.nb \in [Sides -> Nat] /\ k.nb["+"] \in Nat /\ k.nb["-"] \in Nat
         /\ k.life \in Int /\ k.toughness \in Int
BY NbType DEF Fit, Creature, Sides

LEMMA BuryFit ==
  ASSUME NEW k, Firm(k), Bare(k)
  PROVE  /\ Fit(Bury(k)) /\ Keeps(k, Bury(k))
         /\ InPlay(Bury(k)) => Lives(Bury(k))
         /\ InPlay(k) /\ Deathless(k) => InPlay(Bury(k))
<1> DEFINE x == Bury(k)
<1>1. k \in Creature
  BY DEF Firm
<1>2. x.has = k.has /\ x.base = k.base /\ x.nb = k.nb /\ (InPlay(x) => InPlay(k) /\ Deathless(k))
  BY <1>1 DEF Bury, Creature, InPlay, Deathless
<1>3. InPlay(k) /\ Deathless(k) => InPlay(x)
  BY <1>1 DEF Bury, InPlay, Deathless
<1>4. Sound(x)
  BY BurySound
<1> HIDE DEF x
<1>5. InPlay(x) => Lives(x)
  BY <1>2 DEF Lives, Deathless
<1>6. Bare(x) /\ Spared(x) /\ Keeps(k, x)
  BY <1>2, <1>5 DEF Bare, Spared, Keeps, Follows
<1> QED
  BY <1>3, <1>4, <1>5, <1>6 DEF Fit, x

LEMMA DestroyFit ==
  ASSUME NEW k, Firm(k), Bare(k)
  PROVE  /\ Fit(Destroy(k)) /\ Keeps(k, Destroy(k))
         /\ InPlay(Destroy(k)) => Lives(Destroy(k))
         /\ InPlay(k) /\ Deathless(k) => InPlay(Destroy(k))
<1> DEFINE r == [k EXCEPT !.regenerateTokens = @ - 1, !.life = k.toughness]
<1>1. k \in Creature
  BY DEF Firm
<1>2. CASE k.regenerateTokens = 0 \/ "cantregen" \in k.has
  BY <1>2, BuryFit DEF Destroy
<1>3. CASE ~(k.regenerateTokens = 0 \/ "cantregen" \in k.has)
  <2>0. k.regenerateTokens - 1 \in Nat /\ k.toughness \in Int
    BY <1>1, <1>3 DEF Creature
  <2>1. r \in Creature
    BY <1>1, <2>0 DEF Creature
  <2>2. /\ r.has = k.has /\ r.base = k.base /\ r.nb = k.nb /\ r.zone = k.zone /\ r.life = k.toughness
        /\ r.toughness = k.toughness /\ r.power = k.power
    BY <1>1 DEF Creature
  <2>3. Destroy(k) = IF r.life < 1 THEN Bury(r) ELSE r
    BY <1>3 DEF Destroy
  <2>4. Sound(Destroy(k))
    BY DestroySound
  <2> HIDE DEF r
  <2>5. Firm(r) /\ Bare(r) /\ Keeps(k, r)
    BY <2>0, <2>1, <2>2 DEF Firm, Agrees, Bare, Keeps, Follows, InPlay
  <2>6. CASE r.life < 1
    BY <2>2, <2>3, <2>5, <2>6, BuryFit DEF Keeps, Follows, InPlay, Deathless
  <2>7. CASE ~(r.life < 1)
    <3>1. Destroy(k) = r /\ Lives(r)
      BY <2>0, <2>2, <2>3, <2>7 DEF Lives
    <3> QED
      BY <2>2, <2>4, <2>5, <3>1 DEF Fit, Spared, InPlay
  <2> QED
    BY <2>6, <2>7
<1> QED
  BY <1>2, <1>3

(* The test for death spares a creature that lives.                        *)
LEMMA AfterDamageFit ==
  ASSUME NEW k, Fit(k)
  PROVE  /\ Fit(AfterDamage(k)) /\ Keeps(k, AfterDamage(k))
         /\ InPlay(k) /\ Lives(k) => InPlay(AfterDamage(k)) /\ Lives(AfterDamage(k))
<1> DEFINE t == [k EXCEPT !.doDamageTest = FALSE]
           x == AfterDamage(k)
<1>1. k \in Creature /\ Firm(k) /\ Bare(k)
  BY FitType
<1>2. CASE ~k.doDamageTest
  BY <1>2 DEF AfterDamage, Keeps, Follows
<1>3. CASE k.doDamageTest
  <2>1. t \in Creature
    BY <1>1 DEF Creature
  <2>2. /\ t.has = k.has /\ t.base = k.base /\ t.nb = k.nb /\ t.zone = k.zone /\ t.life = k.life
        /\ t.toughness = k.toughness /\ t.power = k.power
    BY <1>1 DEF Creature
  <2>3. x = IF t.life <= 0 /\ InPlay(t) THEN Destroy(t) ELSE t
    BY <1>3 DEF AfterDamage
  <2>4. Sound(x)
    BY AfterDamageSound DEF Fit
  <2> HIDE DEF t, x
  <2>5. Firm(t) /\ Bare(t) /\ Keeps(k, t)
    BY <1>1, <2>1, <2>2 DEF Firm, Agrees, Bare, Keeps, Follows, InPlay
  <2>6. CASE t.life <= 0 /\ InPlay(t)
    <3>1. /\ Fit(x) /\ Keeps(t, x) /\ (InPlay(x) => Lives(x))
          /\ InPlay(t) /\ Deathless(t) => InPlay(x)
      BY <2>3, <2>5, <2>6, DestroyFit
    <3>2. InPlay(k) /\ Lives(k) => Deathless(t)
      BY <1>1, <2>2, <2>6 DEF Lives, Deathless, Creature
    <3> QED
      BY <2>5, <2>6, <3>1, <3>2 DEF Keeps, Follows, x
  <2>7. CASE ~(t.life <= 0 /\ InPlay(t))
    <3>1. x = t /\ (InPlay(t) => t.life > 0)
      BY <1>1, <2>2, <2>3, <2>7 DEF Creature
    <3>2. InPlay(t) => Lives(t)
      BY <3>1 DEF Lives
    <3>3. InPlay(k) => InPlay(t)
      BY <2>2 DEF InPlay
    <3> QED
      BY <2>4, <2>5, <3>1, <3>2, <3>3 DEF Fit, Spared, x
  <2> QED
    BY <2>6, <2>7
<1> QED
  BY <1>2, <1>3

LEMMA GraveFit ==
  ASSUME NEW k, Fit(k)
  PROVE  Fit(GraveIfShrunk(k)) /\ Keeps(k, GraveIfShrunk(k))
<1> DEFINE x == GraveIfShrunk(k)
<1>1. Sound(x) /\ k \in Creature
  BY FitType, GraveSound
<1>2. CASE x = k
  BY <1>2 DEF Keeps, Follows
<1>3. CASE x = [k EXCEPT !.zone = "graveyard"]
  <2>1. x.has = k.has /\ x.base = k.base /\ x.nb = k.nb /\ ~InPlay(x)
    BY <1>1, <1>3 DEF Creature, InPlay
  <2> HIDE DEF x
  <2> QED
    BY <1>1, <2>1 DEF Fit, Spared, Bare, Keeps, Follows, x
<1> QED
  BY <1>2, <1>3 DEF GraveIfShrunk

-----------------------------------------------------------------------------
(* Counters.                                                               *)

LEMMA CountFit ==
  ASSUME NEW k, Firm(k), Bare(k), "nocounters" \notin k.has,
         NEW s \in Sides, NEW n \in Int, k.nb[s] + n >= 0
  PROVE  LET x == Count(k, s, n)
         IN /\ Fit(x) /\ Follows(k, x) /\ (InPlay(k) => InPlay(x))
            /\ x.nb = [k.nb EXCEPT ![s] = @ + n]
            /\ x.life = k.life + n * Sign(s)
<1> DEFINE x == Count(k, s, n)
<1>1. k \in Creature
  BY DEF Firm
<1>2. Sound(x) /\ x.doDamageTest /\ x.nb = [k.nb EXCEPT ![s] = @ + n]
  BY CountSound
<1>3. x.has = k.has /\ x.base = k.base /\ x.zone = k.zone /\ x.life = k.life + n * Sign(s)
  BY <1>1 DEF Count, Creature
<1> HIDE DEF x
<1>4. Bare(x) /\ Spared(x) /\ Follows(k, x) /\ (InPlay(k) => InPlay(x))
  BY <1>2, <1>3 DEF Bare, Spared, Follows, InPlay
<1> QED
  BY <1>2, <1>3, <1>4 DEF Fit, x

(* One counter more; of the +1/+1 kind it kills no creature that lives.    *)
LEMMA AddCounterFit ==
  ASSUME NEW k, Fit(k), NEW s \in Sides
  PROVE  LET x == AddCounter(k, s)
         IN /\ Fit(x) /\ Follows(k, x)
            /\ "nocounters" \in k.has => x = k
            /\ "nocounters" \notin k.has => x.nb = [k.nb EXCEPT ![s] = @ + 1]
            /\ s = "+" /\ InPlay(k) /\ Lives(k) => InPlay(x) /\ Lives(x)
<1> DEFINE x == AddCounter(k, s)
           c == Count(k, s, 1)
           f == [c EXCEPT !.families = @ \cup {s}]
<1>1. k \in Creature /\ Firm(k) /\ Bare(k) /\ k.nb[s] \in Nat /\ k.life \in Int
  BY FitType DEF Creature
<1>2. CASE "nocounters" \in k.has
  <2>1. x = k
    BY <1>2 DEF AddCounter
  <2> HIDE DEF x
  <2> QED
    BY <1>2, <2>1 DEF Follows, x
<1>3. CASE "nocounters" \notin k.has
  <2>1. /\ Fit(c) /\ Follows(k, c) /\ (InPlay(k) => InPlay(c)) /\ c.nb = [k.nb EXCEPT ![s] = @ + 1]
        /\ c.life = k.life + 1 * Sign(s)
    <3>1. ASSUME NEW n \in Int, n = 1
          PROVE /\ Fit(Count(k, s, n)) /\ Follows(k, Count(k, s, n)) /\ (InPlay(k) => InPlay(Count(k, s, n)))
                /\ Count(k, s, n).nb = [k.nb EXCEPT ![s] = @ + n]
                /\ Count(k, s, n).life = k.life + n * Sign(s)
      <4>1. k.nb[s] + n >= 0
        BY <1>1, <3>1
      <4> QED
        BY <1>1, <1>3, <4>1, CountFit
    <3> QED
      BY <3>1
  <2>2. s = "+" /\ Lives(k) => Lives(c)
    BY <1>1, <2>1 DEF Lives, Sign, Follows, Deathless
  <2>3. c \in Creature /\ Sound(c)
    BY <2>1, FitType
  <2> HIDE DEF c
  <2>4. Fit(f) /\ Keeps(c, f) /\ (Lives(c) => Lives(f)) /\ (InPlay(c) => InPlay(f))
    <3>1. f \in Creature /\ f.zone = c.zone /\ f.has = c.has /\ f.base = c.base /\ f.nb = c.nb
          /\ f.life = c.life /\ f.toughness = c.toughness /\ f.power = c.power
          /\ f.doDamageTest = c.doDamageTest
      BY <2>3 DEF Creature
    <3> HIDE DEF f
    <3> QED
      BY <2>1, <3>1 DEF Fit, Sound, Firm, Agrees, Spared, Bare, Keeps, Follows, Lives, Deathless, InPlay, Dead
  <2> HIDE DEF f
  <2>5. /\ Fit(AfterDamage(f)) /\ Keeps(f, AfterDamage(f))
        /\ InPlay(f) /\ Lives(f) => InPlay(AfterDamage(f)) /\ Lives(AfterDamage(f))
    BY <2>4, AfterDamageFit
  <2>6. x = c \/ x = AfterDamage(f)
    BY <1>3 DEF AddCounter, c, f
  <2> HIDE DEF x
  <2>7. CASE x = c
    BY <1>3, <2>1, <2>2, <2>7 DEF x
  <2>8. CASE x = AfterDamage(f)
    <3>1. Fit(x) /\ Follows(k, x) /\ x.nb = [k.nb EXCEPT ![s] = @ + 1]
      BY <2>1, <2>4, <2>5, <2>8 DEF Keeps, Follows
    <3>2. s = "+" /\ InPlay(k) /\ Lives(k) => InPlay(x) /\ Lives(x)
      BY <2>1, <2>2, <2>4, <2>5, <2>8
    <3> QED
      BY <1>3, <3>1, <3>2 DEF x
  <2> QED
    BY <2>6, <2>7, <2>8
<1> QED
  BY <1>2, <1>3

LEMMA AddCountersFit ==
  ASSUME NEW k, Fit(k), NEW s \in Sides, NEW n \in Nat
  PROVE  LET x == AddCounters(k, s, n)
         IN /\ Fit(x) /\ Follows(k, x)
            /\ n = 0 \/ "nocounters" \in k.has => x = k
            /\ n # 0 /\ "nocounters" \notin k.has => x.nb = [k.nb EXCEPT ![s] = @ + n]
            /\ s = "+" /\ InPlay(k) /\ Lives(k) => InPlay(x) /\ Lives(x)
<1> DEFINE x == AddCounters(k, s, n)
           a == AddCounter(k, s)
<1>1. /\ Fit(a) /\ Follows(k, a)
      /\ "nocounters" \notin k.has => a.nb = [k.nb EXCEPT ![s] = @ + 1]
      /\ s = "+" /\ InPlay(k) /\ Lives(k) => InPlay(a) /\ Lives(a)
  BY AddCounterFit
<1>2. k.nb \in [Sides -> Nat] /\ k.nb[s] \in Nat
  BY FitType
<1> HIDE DEF a
<1>3. CASE n = 0 \/ "nocounters" \in k.has
  <2>1. x = k
    BY <1>3 DEF AddCounters
  <2> HIDE DEF x
  <2> QED
    BY <1>3, <2>1 DEF Follows, x
<1>4. CASE n = 1 /\ "nocounters" \notin k.has
  <2>1. x = a
    BY <1>4 DEF AddCounters, a
  <2> HIDE DEF x
  <2> QED
    BY <1>1, <1>4, <2>1 DEF x
<1>5. CASE n > 1 /\ "nocounters" \notin k.has
  <2> DEFINE c == Count(a, s, n - 1)
  <2>1. x = c
    BY <1>5 DEF AddCounters, a
  <2>2. Firm(a) /\ Bare(a) /\ a.life \in Int /\ a.nb[s] = k.nb[s] + 1 /\ "nocounters" \notin a.has
    BY <1>1, <1>2, <1>5, FitType DEF Follows
  <2>3. /\ Fit(c) /\ Follows(a, c) /\ (InPlay(a) => InPlay(c)) /\ c.nb = [a.nb EXCEPT ![s] = @ + (n - 1)]
        /\ c.life = a.life + (n - 1) * Sign(s)
    <3>1. n - 1 \in Int /\ a.nb[s] + (n - 1) >= 0
      BY <1>2, <1>5, <2>2
    <3> QED
      BY <2>2, <3>1, CountFit
  <2> HIDE DEF c, x
  <2>4. c.nb = [k.nb EXCEPT ![s] = @ + n]
    BY <1>1, <1>2, <1>5, <2>3
  <2>5. s = "+" /\ Lives(a) => Lives(c)
    BY <1>5, <2>2, <2>3 DEF Lives, Sign, Follows, Deathless
  <2>6. Follows(k, c)
    BY <1>1, <2>3 DEF Follows
  <2> QED
    BY <1>1, <1>5, <2>1, <2>3, <2>4, <2>5, <2>6 DEF x
<1> QED
  BY <1>3, <1>4, <1>5

LEMMA RemoveCountersFit ==
  ASSUME NEW k, Fit(k), NEW s \in Sides, NEW n \in Nat
  PROVE  LET x == RemoveCounters(k, s, n)
         IN /\ Fit(x) /\ Follows(k, x) /\ (InPlay(k) => InPlay(x))
            /\ x.nb[s] <= k.nb[s] /\ \A t \in Sides \ {s} : x.nb[t] = k.nb[t]
<1> DEFINE x == RemoveCounters(k, s, n)
           m == Lesser(n, k.nb[s])
<1>1. /\ k.nb \in [Sides -> Nat] /\ k.nb[s] \in Nat /\ Firm(k) /\ Bare(k)
      /\ m \in Nat /\ m <= k.nb[s]
  BY FitType, LesserType
<1>2. x = IF m = 0 THEN k ELSE Count(k, s, -m)
  BY DEF RemoveCounters
<1> HIDE DEF m, x
<1>3. CASE m = 0
  BY <1>1, <1>2, <1>3 DEF Follows, x
<1>4. CASE m # 0
  <2>1. "nocounters" \notin k.has
    BY <1>1, <1>4 DEF Bare, Sides
  <2>2. -m \in Int /\ k.nb[s] + -m >= 0 /\ k.nb[s] + -m <= k.nb[s]
    BY <1>1
  <2>3. Fit(x) /\ Follows(k, x) /\ (InPlay(k) => InPlay(x)) /\ x.nb = [k.nb EXCEPT ![s] = @ + -m]
    BY <1>1, <1>2, <1>4, <2>1, <2>2, CountFit
  <2> QED
    BY <1>1, <2>2, <2>3 DEF x
<1> QED
  BY <1>3, <1>4

(* Of the two kinds, the cancelled pairs leave one at most.                *)
LEMMA CancelFit ==
  ASSUME NEW k, Fit(k), NEW s \in Sides
  PROVE  Fit(CancelCounter(k, s)) /\ Follows(k, CancelCounter(k, s)) /\ Neat(CancelCounter(k, s))
<1> DEFINE x == CancelCounter(k, s)
           n == Lesser(k.nb["+"], k.nb["-"])
           o == Opposite(s)
           c == Count(k, o, -n)
           d == Count(c, s, -n)
<1>1. /\ k.nb \in [Sides -> Nat] /\ k.nb["+"] \in Nat /\ k.nb["-"] \in Nat /\ Firm(k) /\ Bare(k)
  BY FitType
<1>2. n \in Nat /\ n <= k.nb["+"] /\ n <= k.nb["-"] /\ (n = k.nb["+"] \/ n = k.nb["-"])
  BY <1>1 DEF Lesser
<1>3. x = IF n = 0 THEN k ELSE d
  BY DEF CancelCounter
<1>4. o \in Sides /\ o # s /\ Sides = {s, o} /\ {s, o} = {"+", "-"}
  BY DEF Opposite, Sides
<1> HIDE DEF n, x, o
<1>5. CASE n = 0
  BY <1>2, <1>3, <1>5 DEF Follows, Neat, x
<1>6. CASE n # 0
  <2>1. "nocounters" \notin k.has
    BY <1>1, <1>2, <1>6 DEF Bare
  <2>2. -n \in Int /\ k.nb[o] + -n >= 0 /\ k.nb[s] + -n >= 0
    BY <1>1, <1>2, <1>4
  <2>3. Fit(c) /\ Follows(k, c) /\ c.nb = [k.nb EXCEPT ![o] = @ + -n]
    BY <1>1, <1>4, <2>1, <2>2, CountFit
  <2> HIDE DEF c
  <2>4. Firm(c) /\ Bare(c) /\ "nocounters" \notin c.has /\ c.nb[s] + -n >= 0 /\ c.nb \in [Sides -> Nat]
    BY <1>1, <1>4, <2>1, <2>2, <2>3, FitType DEF Follows
  <2>5. Fit(d) /\ Follows(c, d) /\ d.nb = [c.nb EXCEPT ![s] = @ + -n]
    BY <2>2, <2>4, CountFit
  <2> HIDE DEF d
  <2>6. d.nb[s] = k.nb[s] + -n /\ d.nb[o] = k.nb[o] + -n
    BY <1>1, <1>4, <2>3, <2>4, <2>5
  <2>7. d.nb["+"] = 0 \/ d.nb["-"] = 0
    <3>1. CASE s = "+"
      <4>1. o = "-"
        BY <1>4, <3>1
      <4> QED
        BY <1>1, <1>2, <2>6, <3>1, <4>1
    <3>2. CASE s = "-"
      <4>1. o = "+"
        BY <1>4, <3>2
      <4> QED
        BY <1>1, <1>2, <2>6, <3>2, <4>1
    <3> QED
      BY <3>1, <3>2 DEF Sides
  <2> QED
    BY <1>3, <1>6, <2>3, <2>5, <2>7 DEF Follows, Neat, x
<1> QED
  BY <1>5, <1>6

(* An ability that puts or takes counters leaves the creature neat.        *)
LEMMA PutCountersFit ==
  ASSUME NEW k, Fit(k), NEW s \in Sides, NEW n \in Int
  PROVE  Fit(PutCounters(k, s, n)) /\ Follows(k, PutCounters(k, s, n)) /\ Neat(PutCounters(k, s, n))
<1> DEFINE put == IF n < 0 THEN RemoveCounters(k, s, -n)
                  ELSE IF InPlay(AddCounter(k, s)) THEN AddCounters(k, s, n) ELSE AddCounter(k, s)
           owed == [put EXCEPT !.doDamageTest = TRUE]
           tested == AfterDamage(owed)
           done == IF InPlay(tested) THEN CancelCounter(tested, s) ELSE tested
<1>1. Fit(put) /\ Follows(k, put)
  <2>1. CASE n < 0
    <3>1. -n \in Nat
      BY <2>1
    <3> QED
      BY <2>1, <3>1, RemoveCountersFit
  <2>2. CASE ~(n < 0)
    <3>1. n \in Nat
      BY <2>2
    <3> QED
      BY <2>2, <3>1, AddCountersFit, AddCounterFit
  <2> QED
    BY <2>1, <2>2
<1>2. PutCounters(k, s, n) = IF s = "-" THEN GraveIfShrunk(done) ELSE done
  BY DEF PutCounters
<1> HIDE DEF put
<1>3. Fit(owed) /\ Keeps(put, owed)
  <2>1. put \in Creature /\ Sound(put) /\ Firm(put) /\ Bare(put)
    BY <1>1, FitType
  <2>2. Sound(owed)
    BY <2>1, OwedTest
  <2>3. owed.has = put.has /\ owed.base = put.base /\ owed.nb = put.nb /\ owed.zone = put.zone /\ owed.doDamageTest
    BY <2>1 DEF Creature
  <2> HIDE DEF owed
  <2> QED
    BY <2>1, <2>2, <2>3 DEF Fit, Spared, Bare, Keeps, Follows, InPlay
<1> HIDE DEF owed
<1>4. Fit(tested) /\ Keeps(owed, tested)
  BY <1>3, AfterDamageFit
<1> HIDE DEF tested
<1>5. Fit(done) /\ Follows(tested, done) /\ Neat(done)
  BY <1>4, CancelFit DEF Neat, Follows
<1> HIDE DEF done
<1>6. Fit(GraveIfShrunk(done)) /\ Keeps(done, GraveIfShrunk(done))
  BY <1>5, GraveFit
<1> QED
  BY <1>1, <1>2, <1>3, <1>4, <1>5, <1>6 DEF Keeps, Follows, Neat

-----------------------------------------------------------------------------
(* One damage.                                                             *)

LEMMA HarmedTwice ==
  ASSUME NEW k, NEW x, NEW y, Fit(k), Fit(x), Fit(y), Harmed(k, x), Harmed(x, y)
  PROVE  Harmed(k, y)
<1>1. k.nb["-"] \in Nat /\ x.nb["-"] \in Nat /\ y.nb["-"] \in Nat
  BY FitType
<1>2. Follows(k, y)
  BY DEF Harmed, Follows
<1>3. ASSUME Hardy(k) PROVE Worn(k, y) /\ Hardy(y)
  <2>1. Worn(k, x) /\ Worn(x, y) /\ Hardy(y)
    BY <1>3 DEF Harmed
  <2>2. Worn(k, y)
    BY <1>1, <2>1 DEF Worn
  <2> QED
    BY <2>1, <2>2
<1> QED
  BY <1>2, <1>3 DEF Harmed

(* What leaves a creature where it is, and its -1/-1 counters alone, does  *)
(* no harm.                                                                *)
LEMMA Harmless ==
  ASSUME NEW k, NEW x, Fit(k), Follows(k, x), InPlay(k) => InPlay(x), x.nb["-"] = k.nb["-"],
         Growing(k) /\ InPlay(k) /\ Lives(k) => Lives(x)
  PROVE  Harmed(k, x)
<1>1. k.nb["-"] \in Nat
  BY FitType
<1>2. Worn(k, x)
  BY <1>1 DEF Worn
<1>3. Hardy(k) => Hardy(x)
  BY DEF Hardy, Growing, Follows
<1> QED
  BY <1>2, <1>3 DEF Harmed

LEMMA AddMinusHarmed ==
  ASSUME NEW k, Fit(k), NEW n \in Nat, ~Growing(k)
  PROVE  Harmed(k, AddCounters(k, "-", n))
<1> DEFINE x == AddCounters(k, "-", n)
<1>1. /\ Fit(x) /\ Follows(k, x)
      /\ n = 0 \/ "nocounters" \in k.has => x = k
      /\ n # 0 /\ "nocounters" \notin k.has => x.nb = [k.nb EXCEPT !["-"] = @ + n]
  BY AddCountersFit DEF Sides
<1>2. k.nb \in [Sides -> Nat] /\ k.nb["-"] \in Nat
  BY FitType
<1> HIDE DEF x
<1>3. Worn(k, x)
  <2>1. CASE n = 0 \/ "nocounters" \in k.has
    BY <1>1, <1>2, <2>1 DEF Worn
  <2>2. CASE n # 0 /\ "nocounters" \notin k.has
    <3>1. x.nb["-"] = k.nb["-"] + n
      BY <1>1, <1>2, <2>2 DEF Sides
    <3> QED
      BY <1>2, <2>2, <3>1 DEF Worn
  <2> QED
    BY <2>1, <2>2
<1>4. Hardy(x)
  BY <1>1 DEF Hardy, Growing, Follows
<1> QED
  BY <1>1, <1>3, <1>4 DEF Harmed, x

LEMMA AddPlusHarmed ==
  ASSUME NEW k, Fit(k), NEW n \in Nat, Growing(k)
  PROVE  Harmed(k, AddCounters(k, "+", n))
<1> DEFINE x == AddCounters(k, "+", n)
<1>1. /\ Fit(x) /\ Follows(k, x)
      /\ n = 0 \/ "nocounters" \in k.has => x = k
      /\ n # 0 /\ "nocounters" \notin k.has => x.nb = [k.nb EXCEPT !["+"] = @ + n]
      /\ InPlay(k) /\ Lives(k) => InPlay(x) /\ Lives(x)
  BY AddCountersFit DEF Sides
<1>2. k.nb \in [Sides -> Nat] /\ k.nb["-"] \in Nat
  BY FitType
<1> HIDE DEF x
<1>3. x.nb["-"] = k.nb["-"]
  BY <1>1, <1>2 DEF Sides
<1>4. Hardy(k) => Worn(k, x) /\ Hardy(x)
  BY <1>1, <1>2, <1>3 DEF Hardy, Worn, Follows
<1> QED
  BY <1>1, <1>4 DEF Harmed, x

LEMMA RemovePlusHarmed ==
  ASSUME NEW k, Fit(k), NEW n \in Nat, ~Growing(k)
  PROVE  Harmed(k, RemoveCounters(k, "+", n))
<1> DEFINE x == RemoveCounters(k, "+", n)
<1>1. Fit(x) /\ Follows(k, x) /\ (InPlay(k) => InPlay(x)) /\ x.nb["-"] = k.nb["-"]
  BY RemoveCountersFit DEF Sides
<1> HIDE DEF x
<1> QED
  BY <1>1, Harmless DEF x

(* What the abilities of a creature make of a damage.                      *)
LEMMA SoakFit ==
  ASSUME NEW k, Fit(k), NEW src, NEW n \in Nat
  PROVE  LET x == Soak(k, src, n).card
         IN /\ Fit(x) /\ Harmed(k, x)
            /\ Unmarked(k) /\ Neat(k) => Neat(x)
            /\ "vigor" \in k.has => Soak(k, src, n).left = 0
<1> DEFINE a1 == IF Protected(k, src) \/ "phantom" \in k.has THEN 0 ELSE n
           k1 == IF "phantom" \in k.has THEN RemoveCounters(k, "+", 1) ELSE k
           a2 == IF "absorb" \in k.has THEN AtLeast0(a1 - 1) ELSE a1
           k2 == IF "wilting" \in k.has THEN AddCounters(k1, "-", a2)
                 ELSE IF "vigor" \in k.has THEN AddCounters(k1, "+", a2)
                 ELSE IF "hydra" \in k.has THEN RemoveCounters(k1, "+", a2) ELSE k1
           left == IF k.has \cap {"wilting", "vigor", "hydra"} # {} THEN 0 ELSE a2
<1>1. Soak(k, src, n) = [card |-> k2, left |-> left]
  BY DEF Soak
<1>2. a2 \in Nat /\ ("phantom" \in k.has => a2 = 0)
  BY AtLeast0Type DEF AtLeast0
<1>3. /\ Fit(k1) /\ Harmed(k, k1) /\ ("phantom" \notin k.has => k1 = k)
      /\ k1.nb["+"] <= k.nb["+"] /\ k1.nb["-"] = k.nb["-"]
  <2>1. CASE "phantom" \in k.has
    <3>1. ~Growing(k)
      BY <2>1 DEF Growing
    <3>2. ASSUME NEW m \in Nat, m = 1
          PROVE  /\ Fit(RemoveCounters(k, "+", m)) /\ Harmed(k, RemoveCounters(k, "+", m))
                 /\ RemoveCounters(k, "+", m).nb["+"] <= k.nb["+"]
                 /\ RemoveCounters(k, "+", m).nb["-"] = k.nb["-"]
      BY <3>1, RemovePlusHarmed, RemoveCountersFit DEF Sides
    <3> QED
      BY <2>1, <3>2
  <2>2. CASE "phantom" \notin k.has
    <3>1. k1 = k /\ k.nb["+"] \in Nat
      BY <2>2, FitType
    <3> HIDE DEF k1
    <3>2. Harmed(k, k)
      BY Harmless DEF Follows
    <3> QED
      BY <3>1, <3>2
  <2> QED
    BY <2>1, <2>2
<1> HIDE DEF a2, k1
<1>4. Follows(k, k1)
  BY <1>3 DEF Harmed
<1>5. /\ Fit(k2) /\ Harmed(k1, k2)
      /\ "wilting" \notin k.has /\ "vigor" \notin k.has =>
           k2.nb["-"] = k1.nb["-"] /\ k2.nb["+"] <= k1.nb["+"]
  <2>0. Fit(k1) /\ k1.nb["+"] \in Nat /\ Harmed(k1, k1) /\ "+" \in Sides /\ "-" \in Sides
    BY <1>3, FitType, Harmless DEF Follows, Sides
  <2>1. CASE "wilting" \in k.has
    <3>1. k2 = AddCounters(k1, "-", a2) /\ ~Growing(k1)
      BY <1>4, <2>1 DEF Growing, Follows
    <3> HIDE DEF k2
    <3> QED
      BY <1>2, <2>0, <2>1, <3>1, AddMinusHarmed, AddCountersFit
  <2>2. CASE "wilting" \notin k.has /\ "vigor" \in k.has
    <3>1. k2 = AddCounters(k1, "+", a2)
      BY <2>2
    <3> HIDE DEF k2
    <3>2. Fit(k2)
      BY <1>2, <2>0, <3>1, AddCountersFit
    <3>3. CASE "phantom" \in k.has
      BY <1>2, <2>0, <2>2, <3>1, <3>2, <3>3 DEF AddCounters
    <3>4. CASE "phantom" \notin k.has
      <4>1. Growing(k1)
        BY <1>4, <2>2, <3>4 DEF Growing, Follows
      <4> QED
        BY <1>2, <2>0, <2>2, <3>1, <3>2, <4>1, AddPlusHarmed
    <3> QED
      BY <3>3, <3>4
  <2>3. CASE "wilting" \notin k.has /\ "vigor" \notin k.has /\ "hydra" \in k.has
    <3>1. k2 = RemoveCounters(k1, "+", a2) /\ ~Growing(k1)
      BY <1>4, <2>3 DEF Growing, Follows
    <3> HIDE DEF k2
    <3>2. Fit(k2) /\ k2.nb["+"] <= k1.nb["+"] /\ \A t \in Sides \ {"+"} : k2.nb[t] = k1.nb[t]
      BY <1>2, <2>0, <3>1, RemoveCountersFit
    <3> QED
      BY <1>2, <2>0, <3>1, <3>2, RemovePlusHarmed
  <2>4. CASE "wilting" \notin k.has /\ "vigor" \notin k.has /\ "hydra" \notin k.has
    <3>1. k2 = k1
      BY <2>4
    <3> HIDE DEF k2
    <3> QED
      BY <2>0, <3>1
  <2> QED
    BY <2>1, <2>2, <2>3, <2>4
<1> HIDE DEF k2
<1>6. Harmed(k, k2)
  BY <1>3, <1>5, HarmedTwice
<1>7. Unmarked(k) /\ Neat(k) => Neat(k2)
  <2> SUFFICES ASSUME Unmarked(k), Neat(k), InPlay(k2) PROVE k2.nb["+"] = 0 \/ k2.nb["-"] = 0
    BY DEF Neat
  <2>1. "wilting" \notin k.has /\ "vigor" \notin k.has /\ (k.nb["+"] = 0 \/ k.nb["-"] = 0)
    BY <1>6 DEF Unmarked, Marking, Neat, Harmed, Follows
  <2>2. k2.nb["-"] = k.nb["-"] /\ k2.nb["+"] <= k1.nb["+"] /\ k1.nb["+"] <= k.nb["+"]
    BY <1>3, <1>5, <2>1
  <2>3. k2.nb["+"] \in Nat /\ k.nb["+"] \in Nat /\ k1.nb["+"] \in Nat
    BY <1>3, <1>5, FitType
  <2> QED
    BY <2>1, <2>2, <2>3
<1>8. "vigor" \in k.has => left = 0
  OBVIOUS
<1> HIDE DEF left
<1> QED
  BY <1>1, <1>5, <1>6, <1>7, <1>8

LEMMA WoundFit ==
  ASSUME NEW k, Fit(k), k.doDamageTest, "vigor" \notin k.has, NEW src, NEW n \in Nat, n # 0
  PROVE  LET x == Wound(k, src, n)
         IN /\ Fit(x) /\ Harmed(k, x)
            /\ Unmarked(src) /\ Neat(k) => Neat(x)
<1> DEFINE x == Wound(k, src, n)
<1>1. ~Growing(k) /\ k \in Creature /\ Sound(k) /\ k.nb \in [Sides -> Nat] /\ k.nb["-"] \in Nat
  BY FitType DEF Growing
<1>2. CASE src.has \cap {"wither", "infect"} # {}
  <2> DEFINE a == AddCounters(k, "-", n)
  <2>1. x = GraveIfShrunk(a)
    BY <1>2 DEF Wound
  <2>2. /\ Fit(a) /\ Follows(k, a) /\ ("nocounters" \in k.has => a = k)
        /\ "nocounters" \notin k.has => a.nb = [k.nb EXCEPT !["-"] = @ + n]
    BY AddCountersFit DEF Sides
  <2> HIDE DEF a, x
  <2>3. Fit(x) /\ Keeps(a, x)
    BY <2>1, <2>2, GraveFit
  <2>4. Worn(k, x)
    <3>1. CASE "nocounters" \in k.has
      <4>1. k.toughness > 0
        BY <1>1, <3>1, FitType DEF Bare, Sound, Firm, Agrees, Creature
      <4>2. x = k
        BY <1>1, <2>1, <2>2, <3>1, <4>1 DEF GraveIfShrunk, Creature
      <4> QED
        BY <1>1, <4>2 DEF Worn
    <3>2. CASE "nocounters" \notin k.has
      <4>1. x.nb["-"] = k.nb["-"] + n
        BY <1>1, <2>2, <2>3, <3>2 DEF Keeps, Sides
      <4> QED
        BY <1>1, <4>1 DEF Worn
    <3> QED
      BY <3>1, <3>2
  <2>5. Follows(k, x)
    BY <2>2, <2>3 DEF Keeps, Follows
  <2>6. Hardy(x)
    BY <1>1, <2>5 DEF Hardy, Growing, Follows
  <2>7. ~Unmarked(src)
    BY <1>2 DEF Unmarked, Marking
  <2> QED
    BY <2>3, <2>4, <2>5, <2>6, <2>7 DEF Harmed, x
<1>3. CASE src.has \cap {"wither", "infect"} = {}
  <2>1. Sound(x)
    BY <1>1, WoundSound
  <2>2. x.has = k.has /\ x.base = k.base /\ x.nb = k.nb /\ x.zone = k.zone /\ x.doDamageTest
    BY <1>1, <1>3 DEF Wound, Creature
  <2> HIDE DEF x
  <2>3. Fit(x) /\ Keeps(k, x) /\ (InPlay(k) => InPlay(x))
    BY <2>1, <2>2, FitType DEF Fit, Spared, Bare, Keeps, Follows, InPlay
  <2>4. Harmed(k, x)
    BY <1>1, <2>3, Harmless DEF Keeps
  <2> QED
    BY <2>3, <2>4 DEF Neat, Keeps, Follows, x
<1> QED
  BY <1>2, <1>3

LEMMA OwedFit ==
  ASSUME NEW k, Fit(k)
  PROVE  LET x == [k EXCEPT !.doDamageTest = TRUE]
         IN /\ Fit(x) /\ Keeps(k, x) /\ Harmed(k, x) /\ x.doDamageTest /\ (InPlay(k) => InPlay(x))
<1> DEFINE x == [k EXCEPT !.doDamageTest = TRUE]
<1>1. Sound(x) /\ k \in Creature /\ Bare(k) /\ k.nb["-"] \in Nat
  BY FitType, OwedTest
<1>2. x.has = k.has /\ x.base = k.base /\ x.nb = k.nb /\ x.zone = k.zone /\ x.life = k.life /\ x.doDamageTest
  BY <1>1 DEF Creature
<1> HIDE DEF x
<1>3. Fit(x) /\ Keeps(k, x) /\ (InPlay(k) => InPlay(x))
  BY <1>1, <1>2 DEF Fit, Spared, Bare, Keeps, Follows, InPlay
<1>4. Lives(k) => Lives(x)
  BY <1>2 DEF Lives, Deathless
<1> QED
  BY <1>2, <1>3, <1>4, Harmless DEF Keeps, x

(* What a damage of a does to the creature it is dealt to.                 *)
Struck(k, src, a) ==
  LET n == Prevented(a, k)
      s == Soak([k EXCEPT !.preventable = @ - n], src, a - n)
  IN IF s.left = 0 THEN s.card ELSE Wound([s.card EXCEPT !.doDamageTest = TRUE], src, s.left)

LEMMA StruckFit ==
  ASSUME NEW k, Fit(k), NEW src, NEW a \in Nat
  PROVE  /\ Fit(Struck(k, src, a)) /\ Harmed(k, Struck(k, src, a))
         /\ Unmarked(k) /\ Unmarked(src) /\ Neat(k) => Neat(Struck(k, src, a))
<1> DEFINE n == Prevented(a, k)
           p == [k EXCEPT !.preventable = @ - n]
           s == Soak(p, src, a - n)
           o == [s.card EXCEPT !.doDamageTest = TRUE]
           x == Struck(k, src, a)
<1>1. x = IF s.left = 0 THEN s.card ELSE Wound(o, src, s.left)
  BY DEF Struck
<1>2. Sound(p) /\ a - n \in Nat /\ k \in Creature /\ Bare(k) /\ Spared(k)
  BY PreventSound, FitType
<1> HIDE DEF n, x
<1>3. p.has = k.has /\ p.base = k.base /\ p.nb = k.nb /\ p.zone = k.zone /\ p.life = k.life
      /\ p.doDamageTest = k.doDamageTest
  BY <1>2 DEF Creature
<1> HIDE DEF p
<1>4. Fit(p) /\ Keeps(k, p) /\ (InPlay(k) => InPlay(p)) /\ (Lives(k) => Lives(p))
  BY <1>2, <1>3 DEF Fit, Spared, Bare, Keeps, Follows, InPlay, Lives, Deathless
<1>5. Harmed(k, p) /\ (Unmarked(k) => Unmarked(p)) /\ (Neat(k) => Neat(p))
  BY <1>4, Harmless DEF Keeps, Follows, Unmarked, Neat
<1>6. /\ Fit(s.card) /\ Harmed(p, s.card) /\ s.left \in Nat
      /\ Unmarked(p) /\ Neat(p) => Neat(s.card)
      /\ "vigor" \in p.has => s.left = 0
  BY <1>2, <1>4, SoakFit, SoakSound
<1> HIDE DEF s
<1>7. Harmed(k, s.card)
  BY <1>4, <1>5, <1>6, HarmedTwice
<1>8. CASE s.left = 0
  BY <1>1, <1>5, <1>6, <1>7, <1>8 DEF x
<1>9. CASE s.left # 0
  <2>1. Fit(o) /\ Keeps(s.card, o) /\ Harmed(s.card, o) /\ o.doDamageTest
    BY <1>6, OwedFit
  <2> HIDE DEF o
  <2>2. "vigor" \notin o.has
    BY <1>6, <1>9, <2>1 DEF Harmed, Keeps, Follows
  <2>3. Fit(x) /\ Harmed(o, x) /\ (Unmarked(src) /\ Neat(o) => Neat(x))
    BY <1>1, <1>6, <1>9, <2>1, <2>2, WoundFit
  <2>4. Harmed(k, o)
    BY <1>6, <1>7, <2>1, HarmedTwice
  <2>5. Harmed(k, x)
    BY <2>1, <2>3, <2>4, HarmedTwice
  <2>6. Neat(s.card) => Neat(o)
    BY <2>1 DEF Keeps, Follows, Neat
  <2> QED
    BY <1>5, <1>6, <2>3, <2>5, <2>6 DEF x
<1> QED
  BY <1>8, <1>9

(* A damage strikes its target, or nothing.                                *)
LEMMA DealStruck ==
  ASSUME TablesSound, NEW d, d.target \in Card \cup {0, 1}, NEW c \in Card
  PROVE  Deal(d).cards[c] \in {cards[c], Struck(cards[c], cards[d.source], d.amount)}
<1> DEFINE src == cards[d.source]
           stop == Stopper(shields, d)
           none == [cards |-> cards, players |-> players, shields |-> shields,
                    event |-> 0, ok |-> TRUE]
<1>1. CASE stop # {}
  <2>1. Deal(d) = [none EXCEPT !.shields[First(stop)].up = ~shields[First(stop)].once]
    BY <1>1 DEF Deal
  <2> QED
    BY <2>1
<1>2. CASE stop = {} /\ d.target \in Card
  <2> DEFINE k == cards[d.target]
             n == Prevented(d.amount, k)
             s == Soak([k EXCEPT !.preventable = @ - n], src, d.amount - n)
             w == Wound([s.card EXCEPT !.doDamageTest = TRUE], src, s.left)
             x == Struck(k, src, d.amount)
  <2>1. Deal(d) = IF s.left = 0 THEN [none EXCEPT !.cards[d.target] = s.card, !.ok = FALSE]
                  ELSE [none EXCEPT !.event = s.left, !.cards[d.target] = w]
    BY <1>2 DEF Deal
  <2>2. x = IF s.left = 0 THEN s.card ELSE w
    BY DEF Struck
  <2> HIDE DEF s, w, x
  <2>3. Deal(d).cards = [cards EXCEPT ![d.target] = x]
    BY <2>1, <2>2
  <2>4. Deal(d).cards[c] = IF c = d.target THEN x ELSE cards[c]
    BY <2>3 DEF TablesSound
  <2> QED
    BY <2>4 DEF x
<1>3. CASE stop = {} /\ d.target \notin Card
  <2> DEFINE p == players[d.target]
             n == Prevented(d.amount, p)
             w == WoundPlayer([p EXCEPT !.preventable = @ - n], src, d.amount - n)
  <2>1. Deal(d) = [none EXCEPT !.event = d.amount - n, !.players[d.target] = w]
    BY <1>3 DEF Deal
  <2> HIDE DEF n, w
  <2> QED
    BY <2>1
<1> QED
  BY <1>2, <1>3, <1>1

LEMMA HearFit ==
  ASSUME NEW k, Fit(k), NEW src, NEW n
  PROVE  Fit(Hear(k, src, n)) /\ Keeps(k, Hear(k, src, n))
<1>1. Firm(k) /\ Bare(k)
  BY FitType
<1>2. Fit(Destroy(k)) /\ Keeps(k, Destroy(k)) /\ Keeps(k, k)
  BY <1>1, DestroyFit DEF Keeps, Follows
<1> QED
  BY <1>2 DEF Hear

-----------------------------------------------------------------------------
(* The invariant, and the steps.                                           *)

AllFit == \A c \in Card : Fit(cards[c])
Braced == phase = "screen" => \A c \in Card : Hardy(cards[c])
Dealing == phase = "dealing" => \A c \in Card :
             /\ before.cards[c].nb["-"] \in Nat
             /\ Hardy(cards[c]) /\ Worn(before.cards[c], cards[c])

CInv == IInv /\ AllFit /\ PairsCancel /\ Braced /\ Dealing

(* What every step does to a creature.                                     *)
Moved == \A c \in Card :
  /\ Fit(cards'[c]) /\ Follows(cards[c], cards'[c])
  /\ (\A e \in Card : Unmarked(cards[e])) /\ Neat(cards[c]) => Neat(cards'[c])

LEMMA MovedPairs ==
  ASSUME CInv, Moved
  PROVE  AllFit' /\ PairsCancel'
<1>1. AllFit'
  BY DEF Moved, AllFit
<1>2. PairsCancel'
  <2> SUFFICES ASSUME \A c \in Card : cards'[c].has \cap Marking = {}, NEW c \in Card, InPlay(cards'[c])
               PROVE  cards'[c].nb["+"] = 0 \/ cards'[c].nb["-"] = 0
    BY DEF PairsCancel
  <2>1. \A e \in Card : cards[e].has \cap Marking = {}
    BY DEF Moved, Follows
  <2>2. \A e \in Card : Unmarked(cards[e])
    BY <2>1 DEF Unmarked
  <2>3. Neat(cards[c])
    BY <2>1 DEF CInv, PairsCancel, Neat
  <2> QED
    BY <2>2, <2>3 DEF Moved, Neat
<1> QED
  BY <1>1, <1>2

(* A step that leads out of the combat, or does not touch the creatures.   *)
LEMMA OutsideStep ==
  ASSUME CInv, IInv', Moved, phase' \notin {"screen", "dealing"}
  PROVE  CInv'
BY MovedPairs DEF CInv, Braced, Dealing

LEMMA StillMoved ==
  ASSUME CInv, cards' = cards
  PROVE  Moved
BY DEF Moved, CInv, AllFit, Follows

LEMMA StillStep ==
  ASSUME CInv, IInv', cards' = cards, phase' = phase, before' = before
  PROVE  CInv'
<1>1. AllFit' /\ PairsCancel'
  BY StillMoved, MovedPairs
<1> QED
  BY <1>1 DEF CInv, Braced, Dealing

(* A creature that keeps its place, counters and tests.                    *)
LEMMA SameFit ==
  ASSUME NEW k, Fit(k), NEW x, Sound(x),
         x.has = k.has, x.base = k.base, x.nb = k.nb, x.zone = k.zone,
         x.doDamageTest = k.doDamageTest, InPlay(k) /\ Lives(k) => Lives(x)
  PROVE  Fit(x) /\ Follows(k, x) /\ (Neat(k) => Neat(x))
BY FitType DEF Fit, Spared, Bare, Follows, InPlay, Neat

LEMMA OneMoved ==
  ASSUME CInv, NEW c \in Card, NEW x, cards' = [cards EXCEPT ![c] = x],
         Fit(x), Follows(cards[c], x),
         (\A e \in Card : Unmarked(cards[e])) /\ Neat(cards[c]) => Neat(x)
  PROVE  Moved
<1>1. \A e \in Card : cards'[e] = IF e = c THEN x ELSE cards[e]
  BY DEF CInv, IInv, TablesSound
<1> QED
  BY <1>1 DEF Moved, CInv, AllFit, Follows

LEMMA CounterStep ==
  ASSUME CInv, IInv', NEW c \in Card, NEW s \in Sides, NEW n \in Batches, Counter(c, s, n)
  PROVE  CInv'
<1> DEFINE x == PutCounters(cards[c], s, n)
<1>1. cards' = [cards EXCEPT ![c] = x] /\ phase' = "free" /\ n \in Int
  BY DamageAssumption DEF Counter, Effect, Act, Free
<1>2. Fit(x) /\ Follows(cards[c], x) /\ Neat(x)
  BY <1>1, PutCountersFit DEF CInv, AllFit
<1> HIDE DEF x
<1> QED
  BY <1>1, <1>2, OneMoved, OutsideStep

LEMMA RegenerateStep ==
  ASSUME CInv, IInv', NEW c \in Card, Regenerate(c)
  PROVE  CInv'
<1> DEFINE k == cards[c]
           x == [k EXCEPT !.regenerateTokens = IF "cantregen" \in k.has THEN @ ELSE @ + 1]
<1>1. cards' = [cards EXCEPT ![c] = x] /\ phase' = "free"
  BY DEF Regenerate, Effect, Act, Free
<1>2. Fit(k) /\ k \in Creature
  BY FitType DEF CInv, AllFit
<1>3. x.has = k.has /\ x.base = k.base /\ x.nb = k.nb /\ x.zone = k.zone
      /\ x.doDamageTest = k.doDamageTest /\ x.life = k.life
  BY <1>2 DEF Creature
<1> HIDE DEF x
<1>4. Sound(x)
  <2>1. cards'[c] = x
    BY <1>1 DEF CInv, IInv, TablesSound
  <2> QED
    BY <2>1 DEF IInv, TablesSound
<1>5. Lives(k) => Lives(x)
  BY <1>3 DEF Lives, Deathless
<1>6. Fit(x) /\ Follows(k, x) /\ (Neat(k) => Neat(x))
  BY <1>2, <1>3, <1>4, <1>5, SameFit
<1> QED
  BY <1>1, <1>6, OneMoved, OutsideStep

LEMMA PreventCardStep ==
  ASSUME CInv, IInv', NEW c \in Card, NEW n \in Amounts, PreventCard(c, n)
  PROVE  CInv'
<1> DEFINE k == cards[c]
           x == [k EXCEPT !.preventable = @ + n]
<1>1. cards' = [cards EXCEPT ![c] = x] /\ phase' = "free"
  BY DEF PreventCard, Effect, Act, Free
<1>2. Fit(k) /\ k \in Creature
  BY FitType DEF CInv, AllFit
<1>3. x.has = k.has /\ x.base = k.base /\ x.nb = k.nb /\ x.zone = k.zone
      /\ x.doDamageTest = k.doDamageTest /\ x.life = k.life
  BY <1>2 DEF Creature
<1> HIDE DEF x
<1>4. Sound(x)
  <2>1. cards'[c] = x
    BY <1>1 DEF CInv, IInv, TablesSound
  <2> QED
    BY <2>1 DEF IInv, TablesSound
<1>5. Lives(k) => Lives(x)
  BY <1>3 DEF Lives, Deathless
<1>6. Fit(x) /\ Follows(k, x) /\ (Neat(k) => Neat(x))
  BY <1>2, <1>3, <1>4, <1>5, SameFit
<1> QED
  BY <1>1, <1>6, OneMoved, OutsideStep

LEMMA BurnStep ==
  ASSUME CInv, IInv', NEW c \in Card, NEW t \in Card \cup {0, 1}, NEW n \in Amounts, Burn(c, t, n)
  PROVE  CInv'
<1> DEFINE d == [source |-> c, target |-> t, amount |-> n, type |-> "other"]
           w == Deal(d)
           h(y) == Hear(y, cards[c], w.event)
<1>1. /\ cards' = IF t \notin Card THEN w.cards ELSE [w.cards EXCEPT ![t] = AfterDamage(h(@))]
      /\ phase' = "free"
  BY DEF Burn, Act, Free
<1>2. n \in Nat /\ \A e \in Card : Fit(cards[e])
  BY DamageAssumption DEF CInv, AllFit
<1>3. DOMAIN w.cards = Card
  <2>1. TablesSound /\ d.source \in Card /\ d.target \in Card \cup {0, 1} /\ d.amount \in Nat
    BY <1>2 DEF CInv, IInv
  <2> HIDE DEF d
  <2> QED
    BY <2>1, DealSound
<1>4. ASSUME NEW e \in Card
      PROVE  /\ Fit(w.cards[e]) /\ Follows(cards[e], w.cards[e])
             /\ (\A o \in Card : Unmarked(cards[o])) /\ Neat(cards[e]) => Neat(w.cards[e])
  <2>1. d.target \in Card \cup {0, 1} /\ d.source = c /\ d.amount = n /\ TablesSound
    BY DEF CInv, IInv
  <2> HIDE DEF d
  <2>2. w.cards[e] \in {cards[e], Struck(cards[e], cards[c], n)}
    BY <2>1, DealStruck
  <2> HIDE DEF w
  <2>3. /\ Fit(Struck(cards[e], cards[c], n)) /\ Harmed(cards[e], Struck(cards[e], cards[c], n))
        /\ Unmarked(cards[e]) /\ Unmarked(cards[c]) /\ Neat(cards[e]) => Neat(Struck(cards[e], cards[c], n))
    BY <1>2, StruckFit
  <2>4. Follows(cards[e], cards[e])
    BY DEF Follows
  <2> QED
    BY <1>2, <2>2, <2>3, <2>4 DEF Harmed
<1> HIDE DEF w
<1>5. ASSUME NEW e \in Card PROVE cards'[e] \in {w.cards[e], AfterDamage(h(w.cards[e]))}
  BY <1>1, <1>3
<1>6. Moved
  <2> SUFFICES ASSUME NEW e \in Card
               PROVE  /\ Fit(cards'[e]) /\ Follows(cards[e], cards'[e])
                      /\ (\A o \in Card : Unmarked(cards[o])) /\ Neat(cards[e]) => Neat(cards'[e])
    BY DEF Moved
  <2> DEFINE y == w.cards[e]
  <2>1. Fit(y) /\ Fit(h(y)) /\ Keeps(y, h(y))
    BY <1>4, HearFit
  <2> HIDE DEF h
  <2>2. Fit(AfterDamage(h(y))) /\ Keeps(h(y), AfterDamage(h(y)))
    BY <2>1, AfterDamageFit
  <2>3. Keeps(y, AfterDamage(h(y))) /\ Keeps(y, y)
    BY <2>1, <2>2 DEF Keeps, Follows
  <2> QED
    BY <1>4, <1>5, <2>1, <2>2, <2>3 DEF Keeps, Follows, Neat
<1> QED
  BY <1>1, <1>6, OutsideStep

LEMMA TestsMoved ==
  ASSUME CInv, \A c \in Card : cards'[c] \in {cards[c], AfterDamage(cards[c])}
  PROVE  Moved
<1> SUFFICES ASSUME NEW c \in Card
             PROVE  /\ Fit(cards'[c]) /\ Follows(cards[c], cards'[c])
                    /\ (Neat(cards[c]) => Neat(cards'[c]))
  BY DEF Moved
<1>1. Fit(cards[c])
  BY DEF CInv, AllFit
<1>2. Fit(AfterDamage(cards[c])) /\ Keeps(cards[c], AfterDamage(cards[c])) /\ Keeps(cards[c], cards[c])
  BY <1>1, AfterDamageFit DEF Keeps, Follows
<1> QED
  BY <1>1, <1>2 DEF Keeps, Follows, Neat

LEMMA EndTurnStep ==
  ASSUME CInv, IInv', EndTurn
  PROVE  CInv'
<1> DEFINE F(k) == [k EXCEPT !.life = k.toughness, !.regenerateTokens = 0, !.preventable = 0]
<1>1. /\ cards' = [c \in Card |-> IF InPlay(cards[c]) THEN F(cards[c]) ELSE cards[c]]
      /\ phase' = "free" /\ \A c \in Card : ~(InPlay(cards[c]) /\ cards[c].doDamageTest)
  BY DEF EndTurn, Act, Free
<1>2. Moved
  <2> SUFFICES ASSUME NEW c \in Card
               PROVE  /\ Fit(cards'[c]) /\ Follows(cards[c], cards'[c])
                      /\ (Neat(cards[c]) => Neat(cards'[c]))
    BY DEF Moved
  <2> DEFINE k == cards[c] x == F(k)
  <2>1. Fit(k) /\ k \in Creature /\ k.life <= k.toughness /\ k.life \in Int /\ k.toughness \in Int
    BY FitType DEF CInv, AllFit, Firm
  <2>2. CASE InPlay(k)
    <3>1. cards'[c] = x
      BY <1>1, <2>2
    <3>2. Sound(x)
      BY <3>1 DEF IInv, TablesSound
    <3>3. x.has = k.has /\ x.base = k.base /\ x.nb = k.nb /\ x.zone = k.zone
          /\ x.doDamageTest = k.doDamageTest /\ x.life = k.toughness
      BY <2>1 DEF Creature
    <3> HIDE DEF x
    <3>4. Lives(k) => Lives(x)
      BY <2>1, <3>3 DEF Lives, Deathless
    <3> QED
      BY <2>1, <3>1, <3>2, <3>3, <3>4, SameFit
  <2>3. CASE ~InPlay(k)
    BY <1>1, <2>1, <2>3 DEF Follows
  <2> QED
    BY <2>2, <2>3
<1> QED
  BY <1>1, <1>2, OutsideStep

-----------------------------------------------------------------------------
(* The steps of a fight.                                                   *)

(* No creature in play owes a test as the damage step begins.              *)
LEMMA BeginStep ==
  ASSUME CInv, IInv', NEW q, NEW b, BeginDamage(q, b)
  PROVE  CInv'
<1>1. /\ cards' = cards /\ phase' = "screen"
      /\ \A c \in Card : ~(InPlay(cards[c]) /\ cards[c].doDamageTest)
  BY DEF BeginDamage, table
<1>2. \A c \in Card : Hardy(cards[c])
  BY <1>1 DEF CInv, AllFit, Fit, Spared, Hardy
<1>3. AllFit' /\ PairsCancel'
  BY <1>1, StillMoved, MovedPairs
<1> QED
  BY <1>1, <1>2, <1>3 DEF CInv, Braced, Dealing

(* The damages are made, and the creatures remembered.                     *)
LEMMA ResolveStep ==
  ASSUME CInv, IInv', Resolve
  PROVE  CInv'
<1>1. /\ cards' = cards /\ phase = "screen" /\ phase' = "dealing"
      /\ before' = [cards |-> cards, players |-> players, shields |-> shields]
  BY DEF Resolve, table
<1>2. \A c \in Card : Hardy(cards[c]) /\ cards[c].nb["-"] \in Nat
  BY <1>1, FitType DEF CInv, Braced, AllFit
<1>3. \A c \in Card : Worn(cards[c], cards[c])
  BY <1>2 DEF Worn
<1>4. Dealing'
  BY <1>1, <1>2, <1>3 DEF Dealing
<1>5. AllFit' /\ PairsCancel'
  BY <1>1, StillMoved, MovedPairs
<1> QED
  BY <1>1, <1>4, <1>5 DEF CInv, Braced

LEMMA DealOneStep ==
  ASSUME CInv, IInv', DealOne
  PROVE  CInv'
<1> DEFINE d == damages[dealt]
           S(c) == Struck(cards[c], cards[d.source], d.amount)
<1>1. /\ cards' = Deal(d).cards /\ phase = "dealing" /\ phase' = phase /\ before' = before
      /\ dealt > 0
  BY DEF DealOne
<1>2. d \in Damage
  BY <1>1 DEF CInv, IInv, StackTyped
<1> HIDE DEF d
<1>3. \A c \in Card : Fit(cards[c]) /\ Hardy(cards[c]) /\ Worn(before.cards[c], cards[c])
                      /\ before.cards[c].nb["-"] \in Nat
  BY <1>1 DEF CInv, AllFit, Dealing
<1>4. d.source \in Card /\ d.target \in Card \cup {0, 1} /\ d.amount \in Nat
  BY <1>2 DEF Damage
<1>5. ASSUME NEW c \in Card
      PROVE  /\ Fit(cards'[c]) /\ Harmed(cards[c], cards'[c])
             /\ (\A e \in Card : Unmarked(cards[e])) /\ Neat(cards[c]) => Neat(cards'[c])
  <2>1. cards'[c] \in {cards[c], S(c)}
    BY <1>1, <1>4, DealStruck DEF CInv, IInv
  <2>2. /\ Fit(S(c)) /\ Harmed(cards[c], S(c))
        /\ Unmarked(cards[c]) /\ Unmarked(cards[d.source]) /\ Neat(cards[c]) => Neat(S(c))
    BY <1>3, <1>4, StruckFit
  <2>3. Harmed(cards[c], cards[c])
    BY <1>3, Harmless DEF Follows
  <2> HIDE DEF S
  <2> QED
    BY <1>3, <1>4, <2>1, <2>2, <2>3
<1>6. Moved
  BY <1>5 DEF Moved, Harmed
<1>7. ASSUME NEW c \in Card PROVE Hardy(cards'[c]) /\ Worn(before.cards[c], cards'[c])
  <2>1. Worn(cards[c], cards'[c]) /\ Hardy(cards'[c])
    BY <1>3, <1>5 DEF Harmed
  <2>2. before.cards[c].nb["-"] \in Nat /\ cards[c].nb["-"] \in Nat /\ cards'[c].nb["-"] \in Nat
    BY <1>3, <1>5, FitType
  <2>3. Worn(before.cards[c], cards'[c])
    BY <1>3, <2>1, <2>2 DEF Worn
  <2> QED
    BY <2>1, <2>3
<1>8. AllFit' /\ PairsCancel'
  BY <1>6, MovedPairs
<1> QED
  BY <1>1, <1>3, <1>7, <1>8 DEF CInv, Braced, Dealing

LEMMA HearOneStep ==
  ASSUME CInv, IInv', HearOne
  PROVE  CInv'
<1> DEFINE t == Head(queue).target
           k == Hear(cards[t], cards[Head(queue).source], Head(queue).amount)
<1>1. cards' = (IF t \notin Card THEN cards ELSE [cards EXCEPT ![t] = k]) /\ phase' = "events"
  BY DEF HearOne
<1>2. t \in Card => Fit(k) /\ Keeps(cards[t], k)
  BY HearFit DEF CInv, AllFit
<1> HIDE DEF k, t
<1>3. CASE t \notin Card
  BY <1>1, <1>3, StillMoved, OutsideStep
<1>4. CASE t \in Card
  <2>1. Follows(cards[t], k) /\ (Neat(cards[t]) => Neat(k))
    BY <1>2, <1>4 DEF Keeps, Follows, Neat
  <2> QED
    BY <1>1, <1>2, <1>4, <2>1, OneMoved, OutsideStep
<1> QED
  BY <1>3, <1>4

LEMMA InitCInv == Init => CInv
<1> SUFFICES ASSUME Init PROVE CInv
  OBVIOUS
<1>1. PICK cast \in Casts : cards = [c \in Card |->
         [power |-> cast[c].power, toughness |-> cast[c].toughness, has |-> cast[c].has,
          life |-> cast[c].toughness, nb |-> [s \in Sides |-> 0], families |-> {},
          doDamageTest |-> FALSE, regenerateTokens |-> 0, preventable |-> 0,
          zone |-> cast[c].zone, base |-> <<cast[c].power, cast[c].toughness>>]]
  BY DEF Init
<1>2. \A c \in Card : cast[c].toughness \in Nat /\ cast[c].toughness > 0
  BY <1>1, DamageAssumption
<1>3. IInv /\ phase = "free"
  BY InitIInv DEF Init
<1>4. \A c \in Card : cards[c].base[2] > 0 /\ cards[c].life > 0
                      /\ cards[c].nb["+"] = 0 /\ cards[c].nb["-"] = 0
  BY <1>1, <1>2 DEF Sides
<1>5. AllFit /\ PairsCancel
  BY <1>3, <1>4 DEF AllFit, Fit, Spared, Lives, Bare, IInv, TablesSound, PairsCancel
<1> QED
  BY <1>3, <1>5 DEF CInv, Braced, Dealing

LEMMA NextCInv == CInv /\ [Next]_vars => CInv'
<1> SUFFICES ASSUME CInv, [Next]_vars PROVE CInv'
  OBVIOUS
<1>0. IInv'
  BY NextIInv DEF CInv
<1>1. CASE Acting
  <2>1. ASSUME NEW p \in {0, 1}, NEW n \in Amounts, PreventPlayer(p, n) PROVE CInv'
    BY <1>0, <2>1, StillMoved, OutsideStep DEF PreventPlayer, Act, Free
  <2>2. ASSUME NEW sh, AddShield(sh) PROVE CInv'
    BY <1>0, <2>2, StillMoved, OutsideStep DEF AddShield, Act, Free
  <2> QED
    BY <1>0, <1>1, <2>1, <2>2, CounterStep, RegenerateStep, PreventCardStep, BurnStep, EndTurnStep
       DEF Acting
<1>2. CASE StateBased
  <2>1. /\ cards' = [c \in Card |-> IF InPlay(cards[c]) THEN AfterDamage(cards[c]) ELSE cards[c]]
        /\ phase' = "free"
    BY <1>2 DEF StateBased, Free
  <2> QED
    BY <1>0, <2>1, TestsMoved, OutsideStep
<1>3. CASE Fighting
  <2>1. ASSUME NEW i \in DOMAIN line, Up(i) \/ Down(i) \/ Ok(i) PROVE CInv'
    BY <1>0, <2>1, StillStep DEF Up, Down, Ok, Key, table
  <2>2. CASE NoBlow
    BY <1>0, <2>2, StillStep DEF NoBlow, table
  <2>3. CASE AllDealt
    BY <1>0, <2>3, StillMoved, OutsideStep DEF AllDealt, table
  <2>4. CASE StackResolved
    <3> DEFINE Hit == {damages[i].target : i \in {j \in DOMAIN damages : damages[j].ok /\ damages[j].amount > 0}}
    <3>1. /\ cards' = [c \in Card |-> IF c \in Hit THEN AfterDamage(cards[c]) ELSE cards[c]]
          /\ phase' = "settled"
      BY <2>4 DEF StackResolved
    <3> HIDE DEF Hit
    <3> QED
      BY <1>0, <3>1, TestsMoved, OutsideStep
  <2> QED
    BY <1>0, <1>3, <2>1, <2>2, <2>3, <2>4, BeginStep, ResolveStep, DealOneStep, HearOneStep DEF Fighting
<1>4. CASE UNCHANGED vars
  BY <1>0, <1>4, StillStep DEF vars, table, combat
<1> QED
  BY <1>1, <1>2, <1>3, <1>4 DEF Next

LEMMA SpecCInv == Spec => []CInv
BY InitCInv, NextCInv, PTL DEF Spec

-----------------------------------------------------------------------------
(* Counters are cancelled in pairs unless damage brings them               *)
(* (AACounter::resolve()), and while the damages of a combat are dealt     *)
(* only a -1/-1 counter buries a creature: who is destroyed waits for the  *)
(* events (Damage::resolve(), MTGCardInstance::afterDamage()).             *)
THEOREM CountersAlwaysSound == Spec => []CountersSound
<1>1. CInv => CountersSound
  BY DEF CInv, Dealing, Worn, CountersSound, OnlyCountersBuryEarly
<1> QED
  BY <1>1, SpecCInv, PTL
-----------------------------------------------------------------------------
(* The damage screen.  A Game is a fight against n blockers with toughness; *)
(* the amounts are Legal when they add up and the order of the blockers is  *)
(* kept.                                                                    *)
Game(f, n) ==
  /\ n \in Nat /\ f.power \in Nat /\ Len(f.life) = n
  /\ f.life \in [1..n -> Int] /\ f.toughness \in [1..n -> Int]
  /\ f.deathtouch \in BOOLEAN /\ f.trample \in BOOLEAN
  /\ \A i \in 1..n : f.life[i] <= f.toughness[i] /\ f.toughness[i] > 0

Ordered(f, n, a) ==
  \A i \in 1..n : Short(f, a, i) => Total(a) = f.power /\ \A j \in 1..n : j > i => a[j] = 0
Legal(f, n, a) ==
  /\ a \in [1..n -> Nat]
  /\ n = 0 \/ Total(a) = f.power \/ (f.trample /\ Total(a) < f.power)
  /\ Ordered(f, n, a)

(* Sums of amounts are numbers.                                             *)
LEMMA TotalType ==
  ASSUME NEW n \in Nat, NEW a \in [1..n -> Int]
  PROVE  Total(a) \in Int
<1>1. IsFiniteSet(1..n)
  BY FS_Interval
<1> QED
  BY <1>1, SumIsNumber DEF Total

LEMMA TotalSet ==
  ASSUME NEW n \in Nat, NEW a \in [1..n -> Int], NEW b \in [1..n -> Int], NEW i \in 1..n,
         \A j \in (1..n) \ {i} : a[j] = b[j]
  PROVE  Total(b) = Total(a) - a[i] + b[i]
<1>1. IsFiniteSet(1..n)
  BY FS_Interval
<1> QED
  BY <1>1, SumChange DEF Total

(* The amounts up to blocker m.                                             *)
Upto(a, m) == [i \in DOMAIN a |-> IF i <= m THEN a[i] ELSE 0]

LEMMA GivenIs ==
  ASSUME NEW n \in Nat, NEW a \in [1..n -> Int], NEW m \in Int
  PROVE  /\ Upto(a, m) \in [1..n -> Int] /\ Given(a, m) = Total(Upto(a, m))
         /\ \A j \in 1..n : Upto(a, m)[j] = IF j <= m THEN a[j] ELSE 0
BY DEF Upto, Given, Total

LEMMA GivenType ==
  ASSUME NEW n \in Nat, NEW a \in [1..n -> Int], NEW m \in Int
  PROVE  Given(a, m) \in Int
BY GivenIs, TotalType

(* None is given before the first, and all up to the last.                  *)
LEMMA GivenNone ==
  ASSUME NEW n \in Nat, NEW a \in [1..n -> Int]
  PROVE  Given(a, 0) = 0
<1>1. IsFiniteSet(1..n)
  BY FS_Interval
<1>2. Upto(a, 0) \in [1..n -> Int] /\ Given(a, 0) = Total(Upto(a, 0))
  BY GivenIs
<1>3. \A j \in 1..n : Upto(a, 0)[j] = 0
  BY DEF Upto
<1>4. SumFunction(Upto(a, 0)) = 0
  BY <1>1, <1>2, <1>3, SumOfZeros
<1> QED BY <1>2, <1>4 DEF Total

LEMMA GivenLast ==
  ASSUME NEW n \in Nat, NEW a \in [1..n -> Int]
  PROVE  Given(a, n) = Total(a)
<1>1. Upto(a, n) = a
  BY DEF Upto
<1>2. n \in Int
  OBVIOUS
<1>3. Given(a, n) = Total(Upto(a, n))
  BY <1>2, GivenIs
<1> QED BY <1>1, <1>3

LEMMA GivenNext ==
  ASSUME NEW n \in Nat, NEW a \in [1..n -> Int], NEW m \in 1..n
  PROVE  Given(a, m) = Given(a, m - 1) + a[m]
<1> DEFINE h == Upto(a, m - 1)
           k == Upto(a, m)
<1>1. h \in [1..n -> Int] /\ k \in [1..n -> Int] /\ Given(a, m - 1) = Total(h) /\ Given(a, m) = Total(k)
  BY GivenIs
<1>2. \A j \in (1..n) \ {m} : h[j] = k[j]
  BY DEF Upto
<1>3. h[m] = 0 /\ k[m] = a[m]
  BY DEF Upto
<1> HIDE DEF h, k
<1>4. Total(k) = Total(h) - h[m] + k[m] /\ Total(h) \in Int
  BY <1>1, <1>2, TotalSet, TotalType
<1> QED BY <1>1, <1>3, <1>4

(* What is given to some is no more than what is given to all.              *)
LEMMA GivenPart ==
  ASSUME NEW n \in Nat, NEW a \in [1..n -> Nat], NEW m \in Int
  PROVE  Given(a, m) <= Total(a)
<1>1. IsFiniteSet(1..n)
  BY FS_Interval
<1>2. a \in [1..n -> Int]
  OBVIOUS
<1>3. Upto(a, m) \in [1..n -> Int] /\ Given(a, m) = Total(Upto(a, m))
  BY <1>2, GivenIs
<1>4. \A j \in 1..n : Upto(a, m)[j] <= a[j]
  BY DEF Upto
<1>5. SumFunction(Upto(a, m)) <= SumFunction(a)
  BY <1>1, <1>2, <1>3, <1>4, SumGrows
<1> QED BY <1>3, <1>5 DEF Total

(* When all is given up to blocker m, none is given after.                  *)
LEMMA GivenAll ==
  ASSUME NEW n \in Nat, NEW a \in [1..n -> Nat], NEW m \in Int, Given(a, m) = Total(a),
         NEW j \in 1..n, j > m
  PROVE  a[j] = 0
<1> DEFINE c == [a EXCEPT ![j] = 0]
<1>1. c \in [1..n -> Nat] /\ c \in [1..n -> Int] /\ a \in [1..n -> Int] /\ c[j] = 0
  OBVIOUS
<1>2. \A i \in (1..n) \ {j} : a[i] = c[i]
  OBVIOUS
<1>3. Given(c, m) = Given(a, m)
  <2>1. Upto(c, m) = Upto(a, m)
    BY DEF Upto
  <2> HIDE DEF c
  <2>2. Given(c, m) = Total(Upto(c, m)) /\ Given(a, m) = Total(Upto(a, m))
    BY <1>1, GivenIs, ZenonT(60)
  <2> QED BY <2>1, <2>2
<1> HIDE DEF c
<1>4. Total(c) = Total(a) - a[j] + c[j]
  BY <1>1, <1>2, TotalSet
<1>5. Given(c, m) <= Total(c)
  BY <1>1, GivenPart
<1>6. Total(a) \in Int /\ a[j] \in Nat
  BY <1>1, TotalType
<1> QED BY <1>1, <1>3, <1>4, <1>5, <1>6

(* Amounts are a sequence.                                                  *)
LEMMA AmountsLen ==
  ASSUME NEW n \in Nat, NEW a \in [1..n -> Nat]
  PROVE  Len(a) = n
<1>1. a \in Seq(Nat)
  BY SeqDef
<1> QED BY <1>1

(* The entries of a blocker.                                                *)
LEMMA AddDamageIs ==
  ASSUME NEW n \in Nat, NEW a \in [1..n -> Nat], NEW i \in 1..n, NEW d \in Int, a[i] + d >= 0
  PROVE  /\ AddDamage(a, i, d) \in [1..n -> Nat]
         /\ AddDamage(a, i, d)[i] = a[i] + d
         /\ \A j \in (1..n) \ {i} : a[j] = AddDamage(a, i, d)[j]
         /\ Total(AddDamage(a, i, d)) = Total(a) + d
<1> DEFINE b == AddDamage(a, i, d)
<1>1. AtLeast0(a[i] + d) = a[i] + d /\ a[i] + d \in Nat
  BY DEF AtLeast0
<1>2. b = [a EXCEPT ![i] = a[i] + d]
  BY <1>1 DEF AddDamage
<1>3. b \in [1..n -> Nat] /\ b[i] = a[i] + d
  BY <1>1, <1>2
<1>4. \A j \in (1..n) \ {i} : a[j] = b[j]
  BY <1>2
<1> HIDE DEF b
<1>5. Total(b) = Total(a) - a[i] + b[i] /\ Total(a) \in Int
  <2>1. a \in [1..n -> Int] /\ b \in [1..n -> Int]
    BY <1>3
  <2> QED BY <1>4, <2>1, TotalSet, TotalType
<1>6. Total(b) = Total(a) + d
  BY <1>3, <1>5
<1> QED BY <1>3, <1>4, <1>6 DEF b

LEMMA TakeOneIs ==
  ASSUME NEW n \in Nat, NEW a \in [1..n -> Nat], NEW i \in 1..n, a[i] >= 1
  PROVE  /\ AddDamage(a, i, -1) \in [1..n -> Nat]
         /\ AddDamage(a, i, -1)[i] = a[i] - 1
         /\ \A j \in (1..n) \ {i} : a[j] = AddDamage(a, i, -1)[j]
         /\ Total(AddDamage(a, i, -1)) = Total(a) - 1
<1>1. PICK d \in Int : d = -1
  OBVIOUS
<1>2. a[i] \in Nat
  OBVIOUS
<1>3. a[i] + d >= 0
  BY <1>1, <1>2
<1>4. PICK b : b = AddDamage(a, i, d)
  OBVIOUS
<1>5. /\ b \in [1..n -> Nat] /\ b[i] = a[i] + d /\ Total(b) = Total(a) + d
      /\ \A j \in (1..n) \ {i} : a[j] = b[j]
  <2>1. /\ AddDamage(a, i, d) \in [1..n -> Nat]
        /\ AddDamage(a, i, d)[i] = a[i] + d
        /\ \A j \in (1..n) \ {i} : a[j] = AddDamage(a, i, d)[j]
        /\ Total(AddDamage(a, i, d)) = Total(a) + d
    BY <1>3, AddDamageIs, Zenon
  <2> QED BY <1>4, <2>1
<1>6. Total(a) \in Int
  <2>1. a \in [1..n -> Int]
    OBVIOUS
  <2> QED BY <2>1, TotalType
<1>7. b[i] = a[i] - 1 /\ Total(b) = Total(a) - 1
  BY <1>1, <1>2, <1>5, <1>6
<1> QED BY <1>1, <1>4, <1>5, <1>7

(* The first of some numbers.                                               *)
LEMMA FirstIs ==
  ASSUME NEW n \in Nat, NEW S \in SUBSET (1..n), S # {}
  PROVE  First(S) \in S /\ \A j \in S : First(S) <= j
<1> DEFINE M == {m \in Nat : (\E j \in S : j <= m) => \E i \in S : \A j \in S : i <= j}
<1>1. 0 \in M
  OBVIOUS
<1>2. ASSUME NEW m \in Nat, m \in M
      PROVE  m + 1 \in M
  <2>1. CASE \E j \in S : j <= m
    BY <1>2, <2>1
  <2>2. CASE ~ \E j \in S : j <= m
    <3>1. \A j \in S : j >= m + 1
      BY <2>2
    <3> QED BY <3>1
  <2> QED BY <2>1, <2>2
<1>3. Nat \subseteq M
  <2> HIDE DEF M
  <2> QED BY <1>1, <1>2, CountUp
<1>4. n \in M
  BY <1>3
<1>0. \E j \in S : j <= n
  <2>1. PICK j \in S : TRUE
    OBVIOUS
  <2>2. j <= n
    OBVIOUS
  <2> QED BY <2>2
<1>5. \E i \in S : \A j \in S : i <= j
  BY <1>4, <1>0
<1>6. PICK i : i = First(S)
  OBVIOUS
<1>7. i \in S /\ \A j \in S : i <= j
  <2>1. i = CHOOSE k \in S : \A j \in S : k <= j
    BY <1>6 DEF First
  <2> QED BY <1>5, <2>1
<1> QED BY <1>6, <1>7

(* A blocker that is short is short of what it has less of.                 *)
LEMMA ShortStays ==
  ASSUME NEW n \in Nat, NEW f, Game(f, n), NEW a \in [1..n -> Nat], NEW b \in [1..n -> Nat],
         NEW i \in 1..n, a[i] <= b[i], Short(f, b, i)
  PROVE  Short(f, a, i)
<1>1. f.life[i] \in Int /\ a[i] \in Nat /\ b[i] \in Nat /\ f.deathtouch \in BOOLEAN
  BY DEF Game
<1> QED BY <1>1 DEF Short, Lethal

(* One more: the last that has any is who it is taken from.                 *)
LEMMA AddOneLegal ==
  ASSUME NEW n \in Nat, NEW f, Game(f, n), NEW a, Legal(f, n, a), NEW i \in 1..n
  PROVE  Legal(f, n, AddOne(f, a, i))
<1> DEFINE b == AddDamage(a, i, 1)
           over == {j \in Slots(f) : Given(b, j) > f.power}
<1>0. Slots(f) = 1..n /\ f.power \in Nat
  BY DEF Slots, Game
<1>1. /\ a \in [1..n -> Nat] /\ Ordered(f, n, a)
      /\ Total(a) = f.power \/ (f.trample /\ Total(a) < f.power)
  BY DEF Legal
<1>2. a[i] \in Nat /\ a[i] + 1 >= 0 /\ Total(a) \in Int
  BY <1>1, TotalType
<1>3. /\ b \in [1..n -> Nat] /\ b[i] = a[i] + 1 /\ Total(b) = Total(a) + 1
      /\ \A j \in (1..n) \ {i} : a[j] = b[j]
  BY <1>1, <1>2, AddDamageIs, SMTT(60)
<1>4. \A j \in 1..n : a[j] <= b[j]
  BY <1>1, <1>2, <1>3, SMTT(60)
<1>5. b \in [1..n -> Int]
  BY <1>3
<1>6. AddOne(f, a, i) = IF over = {} THEN b ELSE AddDamage(b, First(over), -1)
  BY DEF AddOne
<1>7. over = {j \in 1..n : Given(b, j) > f.power}
  BY <1>0
<1> HIDE DEF b, over
<1>8. CASE over = {}
  <2>1. n \in 1..n
    OBVIOUS
  <2>2. ~ (Given(b, n) > f.power) /\ Given(b, n) \in Int
    BY <1>5, <1>7, <1>8, <2>1, GivenType, SMTT(60)
  <2>3. Total(b) <= f.power
    BY <1>0, <1>5, <2>2, GivenLast
  <2>4. Total(a) < f.power /\ f.trample
    BY <1>0, <1>1, <1>2, <1>3, <2>3
  <2>5. \A j \in 1..n : ~ Short(f, a, j)
    BY <1>0, <1>1, <1>2, <2>4 DEF Ordered
  <2>6. \A j \in 1..n : ~ Short(f, b, j)
    BY <1>1, <1>3, <1>4, <2>5, ShortStays
  <2>7. Ordered(f, n, b)
    BY <2>6 DEF Ordered
  <2>8. Total(b) = f.power \/ Total(b) < f.power
    BY <1>0, <1>2, <1>3, <2>3
  <2> QED BY <1>3, <1>6, <1>8, <2>4, <2>7, <2>8 DEF Legal
<1>9. CASE over # {}
  <2> DEFINE z == First(over)
             c == AddDamage(b, z, -1)
  <2>1. z \in over /\ \A j \in over : z <= j
    <3>1. over \in SUBSET (1..n)
      BY <1>7
    <3> QED BY <1>9, <3>1, FirstIs
  <2>2. z \in 1..n /\ Given(b, z) > f.power
    BY <1>7, <2>1
  <2> HIDE DEF z
  <2>3. Given(b, z) \in Int /\ Given(b, z) <= Total(b) /\ Given(b, z - 1) \in Int
    <3>1. z \in Int /\ z - 1 \in Int
      BY <2>2
    <3> QED BY <1>3, <1>5, <3>1, GivenType, GivenPart
  <2>4. Total(a) = f.power /\ Given(b, z) = Total(b)
    BY <1>0, <1>1, <1>2, <1>3, <2>2, <2>3, SMTT(60)
  <2>5. \A j \in 1..n : j > z => b[j] = 0
    BY <1>3, <2>2, <2>4, GivenAll
  <2>6. Given(b, z - 1) <= f.power
    <3>1. CASE z = 1
      <4>1. Given(b, 0) = 0
        BY <1>5, GivenNone
      <4> QED BY <1>0, <3>1, <4>1
    <3>2. CASE z # 1
      <4>1. z - 1 \in 1..n /\ z - 1 < z
        BY <2>2, <3>2
      <4>2. z - 1 \notin over
        BY <2>1, <2>2, <4>1
      <4> QED BY <1>0, <1>7, <2>3, <4>1, <4>2
    <3> QED BY <3>1, <3>2
  <2>7. b[z] \in Nat /\ b[z] >= 1
    <3>1. Given(b, z) = Given(b, z - 1) + b[z]
      BY <1>5, <2>2, GivenNext
    <3>2. b[z] \in Nat
      BY <1>3, <2>2
    <3> QED BY <1>0, <2>2, <2>3, <2>6, <3>1, <3>2
  <2>8. /\ c \in [1..n -> Nat] /\ c[z] = b[z] - 1 /\ Total(c) = Total(b) - 1
        /\ \A j \in (1..n) \ {z} : b[j] = c[j]
    BY <1>3, <2>2, <2>7, TakeOneIs
  <2> HIDE DEF c
  <2>9. Total(c) = f.power
    BY <1>0, <1>2, <1>3, <2>4, <2>8
  <2>10. ASSUME NEW s \in 1..n, Short(f, c, s), NEW j \in 1..n, j > s
         PROVE  c[j] = 0
    <3>1. CASE j > z
      BY <2>2, <2>5, <2>8, <3>1
    <3>2. CASE j <= z
      <4>1. s \in 1..n /\ s # z /\ s < z
        BY <2>2, <2>10, <3>2
      <4>2. c[s] = b[s] /\ a[s] <= c[s]
        BY <1>4, <2>8, <4>1
      <4>3. Short(f, a, s)
        BY <1>1, <2>8, <2>10, <4>2, ShortStays
      <4>4. \A k \in 1..n : k > s => a[k] = 0
        BY <1>1, <4>3 DEF Ordered
      <4>5. a[z] = 0 /\ a[j] = 0
        BY <2>2, <2>10, <4>1, <4>4
      <4>6. z = i
        BY <1>3, <2>2, <2>7, <4>5
      <4>7. c[z] = a[z]
        BY <1>2, <1>3, <2>8, <4>6
      <4>8. CASE j = z
        BY <4>5, <4>7, <4>8
      <4>9. CASE j # z
        BY <1>3, <2>8, <4>5, <4>6, <4>9
      <4> QED BY <4>8, <4>9
    <3> QED BY <2>2, <3>1, <3>2
  <2>11. Ordered(f, n, c)
    BY <2>9, <2>10 DEF Ordered
  <2> QED BY <1>6, <1>9, <2>8, <2>9, <2>11 DEF Legal, c, z
<1> QED BY <1>8, <1>9

(* One less: the first that is short gets it, else the last.                *)
LEMMA RemoveOneLegal ==
  ASSUME NEW n \in Nat, NEW f, Game(f, n), NEW a, Legal(f, n, a), NEW i \in 1..n, a[i] >= 1
  PROVE  Legal(f, n, RemoveOne(f, a, i)) /\ RemoveOne(f, a, i)[i] >= a[i] - 1
<1> DEFINE b == AddDamage(a, i, -1)
           short == {j \in Slots(f) : Short(f, b, j)}
<1>0. Slots(f) = 1..n /\ f.power \in Nat
  BY DEF Slots, Game
<1>1. /\ a \in [1..n -> Nat] /\ Ordered(f, n, a)
      /\ Total(a) = f.power \/ (f.trample /\ Total(a) < f.power)
  BY DEF Legal
<1>2. a[i] \in Nat /\ Total(a) \in Int
  BY <1>1, TotalType
<1>3. /\ b \in [1..n -> Nat] /\ b[i] = a[i] - 1 /\ Total(b) = Total(a) - 1
      /\ \A j \in (1..n) \ {i} : a[j] = b[j]
  BY <1>1, TakeOneIs
<1>4. RemoveOne(f, a, i) = IF short # {} THEN AddDamage(b, First(short), 1)
                           ELSE IF f.trample THEN b ELSE AddDamage(b, Len(b), 1)
  BY DEF RemoveOne
<1>5. short = {j \in 1..n : Short(f, b, j)}
  BY <1>0
<1> HIDE DEF b, short
<1>6. \A j \in 1..n : a[j] \in Nat /\ b[j] \in Nat
  BY <1>1, <1>3
<1>7. ASSUME NEW z \in 1..n
      PROVE  /\ AddDamage(b, z, 1) \in [1..n -> Nat] /\ AddDamage(b, z, 1)[z] = b[z] + 1
             /\ Total(AddDamage(b, z, 1)) = Total(a)
             /\ \A j \in (1..n) \ {z} : b[j] = AddDamage(b, z, 1)[j]
             /\ AddDamage(b, z, 1)[i] >= a[i] - 1
  <2> DEFINE c == AddDamage(b, z, 1)
  <2>1. b[z] \in Nat /\ b[z] + 1 >= 0
    BY <1>3
  <2>2. /\ c \in [1..n -> Nat] /\ c[z] = b[z] + 1 /\ Total(c) = Total(b) + 1
        /\ \A j \in (1..n) \ {z} : b[j] = c[j]
    BY <1>3, <2>1, AddDamageIs, SMTT(60)
  <2> HIDE DEF c
  <2>3. Total(c) = Total(a)
    BY <1>2, <1>3, <2>2
  <2>4. c[i] >= a[i] - 1
    <3>1. CASE i = z
      BY <1>2, <1>3, <2>2, <3>1
    <3>2. CASE i # z
      <4>1. c[i] = b[i]
        BY <2>2, <3>2
      <4> QED BY <1>2, <1>3, <4>1
    <3> QED BY <3>1, <3>2
  <2> QED BY <2>2, <2>3, <2>4 DEF c
<1>8. CASE short # {}
  <2> DEFINE z == First(short)
             c == AddDamage(b, z, 1)
  <2>1. z \in short /\ \A j \in short : z <= j
    <3>1. short \in SUBSET (1..n)
      BY <1>5
    <3> QED BY <1>8, <3>1, FirstIs
  <2>2. z \in 1..n /\ Short(f, b, z)
    BY <1>5, <2>1
  <2> HIDE DEF z
  <2>3. /\ c \in [1..n -> Nat] /\ c[z] = b[z] + 1 /\ Total(c) = Total(a)
        /\ \A j \in (1..n) \ {z} : b[j] = c[j]
        /\ c[i] >= a[i] - 1
    BY <1>7, <2>2
  <2> HIDE DEF c
  <2>4. c = RemoveOne(f, a, i)
    BY <1>4, <1>8 DEF c, z
  <2>5. CASE z = i
    <3>1. \A j \in 1..n : c[j] = a[j]
      <4>1. c[i] = a[i]
        BY <1>2, <1>3, <2>3, <2>5
      <4>2. \A j \in (1..n) \ {i} : c[j] = a[j]
        BY <1>3, <2>3, <2>5
      <4> QED BY <4>1, <4>2
    <3>2. c = a
      BY <1>1, <2>3, <3>1
    <3> QED BY <2>3, <2>4, <3>2
  <2>6. CASE z # i
    <3>1. a[z] = b[z]
      BY <1>3, <2>2, <2>6
    <3>2. Short(f, a, z)
      <4>1. a[z] <= b[z]
        BY <1>1, <2>2, <3>1
      <4> QED BY <1>1, <1>3, <2>2, <4>1, ShortStays
    <3>3. Total(a) = f.power /\ \A j \in 1..n : j > z => a[j] = 0
      BY <1>1, <2>2, <3>2 DEF Ordered
    <3>4. i < z
      <4>1. ~ (i > z)
        BY <1>2, <3>3
      <4> QED BY <2>2, <2>6, <4>1
    <3>5. \A j \in 1..n : j > z => c[j] = 0
      BY <1>3, <2>2, <2>3, <3>3, <3>4
    <3>6. ASSUME NEW s \in 1..n, Short(f, c, s)
          PROVE  s >= z
      <4>1. SUFFICES ASSUME s < z PROVE FALSE
        BY <2>2
      <4>2. b[s] = c[s] /\ b[s] \in Nat
        BY <1>3, <2>2, <2>3, <4>1
      <4>3. b[s] <= c[s]
        BY <4>2
      <4>4. Short(f, b, s)
        BY <1>3, <2>3, <3>6, <4>3, ShortStays
      <4> QED BY <1>5, <2>1, <2>2, <4>1, <4>4
    <3>7. Ordered(f, n, c)
      BY <2>2, <2>3, <3>3, <3>5, <3>6 DEF Ordered
    <3> QED BY <2>3, <2>4, <3>3, <3>7 DEF Legal
  <2> QED BY <2>5, <2>6
<1>9. CASE short = {}
  <2>1. \A j \in 1..n : ~ Short(f, b, j)
    BY <1>5, <1>9
  <2>2. CASE f.trample
    <3>1. Ordered(f, n, b)
      BY <2>1 DEF Ordered
    <3>2. Total(b) < f.power
      BY <1>0, <1>1, <1>2, <1>3
    <3>3. b[i] >= a[i] - 1
      BY <1>2, <1>3
    <3> QED BY <1>3, <1>4, <1>9, <2>2, <3>1, <3>2, <3>3 DEF Legal
  <2>3. CASE ~f.trample
    <3> DEFINE c == AddDamage(b, n, 1)
    <3>1. Len(b) = n /\ n \in 1..n
      BY <1>3, AmountsLen
    <3>2. /\ c \in [1..n -> Nat] /\ c[n] = b[n] + 1 /\ Total(c) = Total(a)
          /\ \A j \in (1..n) \ {n} : b[j] = c[j]
          /\ c[i] >= a[i] - 1
      BY <1>7, <3>1
    <3>3. c = RemoveOne(f, a, i)
      BY <1>4, <1>9, <2>3, <3>1
    <3> HIDE DEF c
    <3>4. \A j \in 1..n : b[j] <= c[j]
      BY <1>3, <3>1, <3>2
    <3>5. \A j \in 1..n : ~ Short(f, c, j)
      BY <1>3, <2>1, <3>2, <3>4, ShortStays
    <3>6. Ordered(f, n, c)
      BY <3>5 DEF Ordered
    <3> QED BY <1>1, <2>3, <3>2, <3>3, <3>6 DEF Legal
  <2> QED BY <2>2, <2>3
<1> QED BY <1>8, <1>9

(* What is left after each blocker has taken its share.                     *)
Leaves(f, k, g) == g = [n \in 0..k |-> IF n = 0 THEN f.power ELSE g[n - 1] - Share(f, n, g[n - 1])]

LEMMA LeavesExist ==
  ASSUME NEW k \in Nat, NEW f
  PROVE  \E g : Leaves(f, k, g)
<1> DEFINE Works(m, g) == g = [n \in 0..m |-> IF n = 0 THEN f.power ELSE g[n - 1] - Share(f, n, g[n - 1])]
           M == {m \in Nat : \E g : Works(m, g)}
<1>1. 0 \in M
  <2> DEFINE g == [n \in 0..0 |-> f.power]
  <2>1. Works(0, g)
    OBVIOUS
  <2> HIDE DEF g
  <2> QED BY <2>1
<1>2. ASSUME NEW m \in Nat, m \in M
      PROVE  m + 1 \in M
  <2>1. PICK g : Works(m, g)
    BY <1>2
  <2>2. PICK y : y = g[m] - Share(f, m + 1, g[m])
    OBVIOUS
  <2> DEFINE h == [n \in 0..m + 1 |-> IF n = m + 1 THEN y ELSE g[n]]
  <2>3. ASSUME NEW n \in 0..m + 1
        PROVE  h[n] = IF n = 0 THEN f.power ELSE h[n - 1] - Share(f, n, h[n - 1])
    <3>1. CASE n = m + 1
      <4>1. n # 0 /\ n - 1 = m /\ m \in 0..m + 1 /\ m # m + 1
        BY <3>1
      <4>2. h[n] = y /\ h[n - 1] = g[m]
        BY <3>1, <4>1
      <4> QED BY <2>2, <3>1, <4>1, <4>2
    <3>2. CASE n # m + 1
      <4>1. n \in 0..m /\ h[n] = g[n] /\ (n # 0 => n - 1 \in 0..m + 1 /\ n - 1 # m + 1)
        BY <3>2
      <4>2. n # 0 => h[n - 1] = g[n - 1]
        BY <4>1
      <4>3. g[n] = IF n = 0 THEN f.power ELSE g[n - 1] - Share(f, n, g[n - 1])
        BY <2>1, <4>1
      <4> QED BY <4>1, <4>2, <4>3
    <3> QED BY <3>1, <3>2
  <2>4. DOMAIN h = 0..m + 1 /\ h = [n \in 0..m + 1 |-> h[n]]
    OBVIOUS
  <2> HIDE DEF h
  <2>5. Works(m + 1, h)
    BY <2>3, <2>4
  <2> QED BY <2>5
<1>3. Nat \subseteq M
  <2> HIDE DEF M
  <2> QED BY <1>1, <1>2, CountUp
<1> QED BY <1>3 DEF Leaves

(* Nobody takes more than is left; who is short has taken all of it.        *)
LEMMA ShareIs ==
  ASSUME NEW n \in Nat, NEW f, Game(f, n), NEW i \in 1..n, NEW l \in Nat
  PROVE  /\ Share(f, i, l) \in 0..l
         /\ \A a : a[i] >= Share(f, i, l) /\ a[i] \in Nat /\ Short(f, a, i) => Share(f, i, l) = l
<1>1. f.toughness[i] \in Int /\ f.toughness[i] > 0 /\ f.life[i] \in Int /\ f.life[i] <= f.toughness[i]
  BY DEF Game
<1>2. AtLeast0(f.toughness[i]) = f.toughness[i]
  BY <1>1 DEF AtLeast0
<1>3. Share(f, i, l) = IF f.deathtouch THEN Lesser(Lesser(l, f.toughness[i]), 1)
                       ELSE Lesser(l, f.toughness[i])
  BY <1>2 DEF Share
<1>4. f.deathtouch \in BOOLEAN
  BY DEF Game
<1>5. Share(f, i, l) \in 0..l
  BY <1>1, <1>3, <1>4 DEF Lesser
<1>6. ASSUME NEW a, a[i] >= Share(f, i, l), a[i] \in Nat, Short(f, a, i)
      PROVE  Share(f, i, l) = l
  <2>1. CASE f.deathtouch
    BY <1>1, <1>3, <1>6, <2>1 DEF Lesser, Short
  <2>2. CASE ~f.deathtouch
    BY <1>1, <1>3, <1>6, <2>2 DEF Lesser, Short, Lethal
  <2> QED BY <1>4, <2>1, <2>2
<1> QED BY <1>5, <1>6

(* The amounts the screen begins with.                                      *)
LEMMA AutoAffectLegal ==
  ASSUME NEW n \in Nat, NEW f, Game(f, n)
  PROVE  Legal(f, n, AutoAffect(f))
<1>1. PICK g : g = CHOOSE h : h = [i \in 0..n |-> IF i = 0 THEN f.power ELSE h[i - 1] - Share(f, i, h[i - 1])]
  OBVIOUS
<1>2. g = [i \in 0..n |-> IF i = 0 THEN f.power ELSE g[i - 1] - Share(f, i, g[i - 1])]
  <2>1. \E h : h = [i \in 0..n |-> IF i = 0 THEN f.power ELSE h[i - 1] - Share(f, i, h[i - 1])]
    BY LeavesExist DEF Leaves
  <2> QED BY <1>1, <2>1
<1> DEFINE a == [i \in Slots(f) |-> Share(f, i, g[i - 1])]
<1>0. Slots(f) = 1..n /\ Len(f.life) = n /\ f.power \in Nat
  BY DEF Slots, Game
<1>3. AutoAffect(f) = IF g[n] > 0 /\ a # <<>> /\ ~f.trample THEN AddDamage(a, 1, g[n]) ELSE a
  BY <1>0, <1>1 DEF AutoAffect
<1>4. a = [i \in 1..n |-> Share(f, i, g[i - 1])]
  BY <1>0
<1> HIDE DEF a
<1>5. g[0] = f.power /\ \A i \in 1..n : g[i] = g[i - 1] - Share(f, i, g[i - 1])
  BY <1>2
<1> DEFINE M == {m \in Nat : m <= n => g[m] \in Nat}
<1>6. 0 \in M
  BY <1>0, <1>5
<1>7. ASSUME NEW m \in Nat, m \in M
      PROVE  m + 1 \in M
  <2>1. SUFFICES ASSUME m + 1 <= n PROVE g[m + 1] \in Nat
    OBVIOUS
  <2>2. m + 1 \in 1..n /\ (m + 1) - 1 = m /\ g[m] \in Nat
    BY <1>7, <2>1
  <2>3. Share(f, m + 1, g[m]) \in 0..g[m]
    BY <2>2, ShareIs
  <2>4. g[m + 1] = g[m] - Share(f, m + 1, g[m])
    BY <1>5, <2>2
  <2> QED BY <2>2, <2>3, <2>4
<1>8. \A m \in 0..n : g[m] \in Nat
  <2>1. Nat \subseteq M
    <3> HIDE DEF M
    <3> QED BY <1>6, <1>7, CountUp
  <2> QED BY <2>1
<1> HIDE DEF M
<1>9. ASSUME NEW i \in 1..n
      PROVE  /\ i - 1 \in 0..n /\ g[i - 1] \in Nat /\ g[i] \in Nat /\ a[i] \in 0..g[i - 1]
             /\ a[i] = Share(f, i, g[i - 1]) /\ g[i] = g[i - 1] - a[i]
  <2>1. i - 1 \in 0..n /\ i \in 0..n
    OBVIOUS
  <2>2. g[i - 1] \in Nat /\ g[i] \in Nat
    BY <1>8, <2>1
  <2>3. a[i] = Share(f, i, g[i - 1])
    BY <1>4
  <2>4. a[i] \in 0..g[i - 1]
    BY <2>2, <2>3, ShareIs
  <2>5. g[i] = g[i - 1] - a[i]
    BY <1>5, <2>3
  <2> QED BY <2>1, <2>2, <2>3, <2>4, <2>5
<1>10. a \in [1..n -> Nat] /\ a \in [1..n -> Int]
  <2>1. \A i \in 1..n : a[i] \in Nat
    BY <1>9
  <2> QED BY <1>4, <2>1
<1> DEFINE K == {m \in Nat : m <= n => Given(a, m) = f.power - g[m]}
<1>11. 0 \in K
  BY <1>0, <1>5, <1>10, GivenNone
<1>12. ASSUME NEW m \in Nat, m \in K
       PROVE  m + 1 \in K
  <2>1. SUFFICES ASSUME m + 1 <= n PROVE Given(a, m + 1) = f.power - g[m + 1]
    OBVIOUS
  <2>2. m + 1 \in 1..n /\ (m + 1) - 1 = m /\ Given(a, m) = f.power - g[m]
    BY <1>12, <2>1
  <2>3. Given(a, m + 1) = Given(a, m) + a[m + 1]
    BY <1>10, <2>2, GivenNext
  <2>4. g[m + 1] = g[m] - a[m + 1] /\ g[m] \in Nat /\ a[m + 1] \in Nat
    BY <1>9, <1>10, <2>2
  <2> QED BY <1>0, <2>2, <2>3, <2>4
<1>13. Total(a) = f.power - g[n] /\ g[n] \in Nat
  <2>1. Nat \subseteq K
    <3> HIDE DEF K
    <3> QED BY <1>11, <1>12, CountUp
  <2>2. Given(a, n) = f.power - g[n]
    BY <2>1
  <2> QED BY <1>8, <1>10, <2>2, GivenLast
<1> HIDE DEF K
<1>14. ASSUME NEW i \in 1..n, g[i] = 0
       PROVE  g[n] = 0 /\ \A j \in 1..n : j > i => a[j] = 0
  <2> DEFINE J == {m \in Nat : i <= m /\ m <= n => g[m] = 0}
  <2>1. 0 \in J
    OBVIOUS
  <2>2. ASSUME NEW m \in Nat, m \in J
        PROVE  m + 1 \in J
    <3>1. SUFFICES ASSUME i <= m + 1, m + 1 <= n PROVE g[m + 1] = 0
      OBVIOUS
    <3>2. CASE i = m + 1
      BY <1>14, <3>2
    <3>3. CASE i # m + 1
      <4>1. m + 1 \in 1..n /\ (m + 1) - 1 = m /\ i <= m /\ m <= n
        BY <3>1, <3>3
      <4>2. g[m] = 0
        BY <2>2, <4>1
      <4>3. a[m + 1] \in 0..g[m] /\ g[m + 1] = g[m] - a[m + 1]
        BY <1>9, <4>1
      <4> QED BY <4>2, <4>3
    <3> QED BY <3>2, <3>3
  <2>3. Nat \subseteq J
    <3> HIDE DEF J
    <3> QED BY <2>1, <2>2, CountUp
  <2>4. g[n] = 0
    BY <2>3
  <2>5. ASSUME NEW j \in 1..n, j > i
        PROVE  a[j] = 0
    <3>1. j - 1 \in Nat /\ i <= j - 1 /\ j - 1 <= n
      BY <2>5
    <3>2. g[j - 1] = 0
      BY <2>3, <3>1
    <3>3. a[j] \in 0..g[j - 1]
      BY <1>9
    <3> QED BY <3>2, <3>3
  <2> QED BY <2>4, <2>5
<1>15. ASSUME NEW b \in [1..n -> Nat], \A j \in 1..n : a[j] <= b[j],
              NEW i \in 1..n, Short(f, b, i)
       PROVE  g[i] = 0
  <2>1. a[i] = Share(f, i, g[i - 1]) /\ g[i - 1] \in Nat /\ g[i] = g[i - 1] - a[i]
    BY <1>9
  <2>2. b[i] >= Share(f, i, g[i - 1]) /\ b[i] \in Nat
    BY <1>10, <1>15, <2>1
  <2>3. Share(f, i, g[i - 1]) = g[i - 1]
    BY <1>15, <2>1, <2>2, ShareIs
  <2> QED BY <2>1, <2>3
<1>16. CASE g[n] > 0 /\ a # <<>> /\ ~f.trample
  <2> DEFINE b == AddDamage(a, 1, g[n])
  <2>1. 1 \in 1..n
    <3>1. n # 0
      <4>1. SUFFICES ASSUME n = 0 PROVE a = <<>>
        BY <1>16
      <4>2. 1..n = {} /\ DOMAIN a = {} /\ a = [i \in DOMAIN a |-> a[i]]
        BY <1>10, <4>1
      <4> QED BY <4>2
    <3> QED BY <3>1
  <2>2. g[n] \in Int /\ a[1] \in Nat /\ a[1] + g[n] >= 0
    BY <1>10, <1>13, <2>1
  <2>3. /\ b \in [1..n -> Nat] /\ b[1] = a[1] + g[n] /\ Total(b) = Total(a) + g[n]
        /\ \A j \in (1..n) \ {1} : a[j] = b[j]
    BY <1>10, <2>1, <2>2, AddDamageIs, SMTT(60)
  <2> HIDE DEF b
  <2>4. Total(b) = f.power
    BY <1>0, <1>13, <2>3
  <2>5. \A j \in 1..n : a[j] <= b[j]
    BY <1>10, <1>13, <2>3
  <2>6. \A i \in 1..n : ~ Short(f, b, i)
    <3>1. SUFFICES ASSUME NEW i \in 1..n, Short(f, b, i) PROVE FALSE
      OBVIOUS
    <3>2. g[i] = 0
      BY <1>15, <2>3, <2>5, <3>1
    <3>3. g[n] = 0
      BY <1>14, <3>2
    <3> QED BY <1>13, <1>16, <3>3
  <2>7. Ordered(f, n, b)
    BY <2>6 DEF Ordered
  <2> QED BY <1>3, <1>16, <2>3, <2>4, <2>7 DEF Legal, b
<1>17. CASE ~ (g[n] > 0 /\ a # <<>> /\ ~f.trample)
  <2>1. \A j \in 1..n : a[j] <= a[j]
    BY <1>10
  <2>2. \A i \in 1..n : Short(f, a, i) => g[i] = 0
    BY <1>10, <1>15, <2>1
  <2>3. ASSUME NEW i \in 1..n, Short(f, a, i)
        PROVE  Total(a) = f.power /\ \A j \in 1..n : j > i => a[j] = 0
    <3>1. g[i] = 0
      BY <2>2, <2>3
    <3>2. g[n] = 0 /\ \A j \in 1..n : j > i => a[j] = 0
      BY <1>14, <3>1
    <3> QED BY <1>0, <1>13, <3>2
  <2>4. Ordered(f, n, a)
    BY <2>3 DEF Ordered
  <2>5. n = 0 \/ Total(a) = f.power \/ (f.trample /\ Total(a) < f.power)
    <3>1. CASE g[n] = 0
      BY <1>0, <1>13, <3>1
    <3>2. CASE g[n] # 0 /\ f.trample
      BY <1>0, <1>13, <3>2
    <3>3. CASE g[n] # 0 /\ a = <<>>
      <4>1. DOMAIN a = {}
        BY <3>3
      <4> QED BY <1>10, <4>1
    <3>4. g[n] # 0 => g[n] > 0
      BY <1>13
    <3> QED BY <1>17, <3>1, <3>2, <3>3, <3>4
  <2> QED BY <1>3, <1>10, <1>17, <2>4, <2>5 DEF Legal
<1> QED BY <1>16, <1>17

(* One less, as many times as the OK key takes it.                          *)
Takings(f, a, i, k, g) == g = [n \in 0..k |-> IF n = 0 THEN a ELSE RemoveOne(f, g[n - 1], i)]

LEMMA TakingsExist ==
  ASSUME NEW k \in Nat, NEW f, NEW a, NEW i
  PROVE  \E g : Takings(f, a, i, k, g)
<1> DEFINE Works(m, g) == g = [n \in 0..m |-> IF n = 0 THEN a ELSE RemoveOne(f, g[n - 1], i)]
           M == {m \in Nat : \E g : Works(m, g)}
<1>1. 0 \in M
  <2> DEFINE g == [n \in 0..0 |-> a]
  <2>1. Works(0, g)
    OBVIOUS
  <2> HIDE DEF g
  <2> QED BY <2>1
<1>2. ASSUME NEW m \in Nat, m \in M
      PROVE  m + 1 \in M
  <2>1. PICK g : Works(m, g)
    BY <1>2
  <2>2. PICK y : y = RemoveOne(f, g[m], i)
    OBVIOUS
  <2> DEFINE h == [n \in 0..m + 1 |-> IF n = m + 1 THEN y ELSE g[n]]
  <2>3. ASSUME NEW n \in 0..m + 1
        PROVE  h[n] = IF n = 0 THEN a ELSE RemoveOne(f, h[n - 1], i)
    <3>1. CASE n = m + 1
      <4>1. n # 0 /\ n - 1 = m /\ m \in 0..m + 1 /\ m # m + 1
        BY <3>1
      <4>2. h[n] = y /\ h[n - 1] = g[m]
        BY <3>1, <4>1
      <4> QED BY <2>2, <3>1, <4>1, <4>2
    <3>2. CASE n # m + 1
      <4>1. n \in 0..m /\ h[n] = g[n] /\ (n # 0 => n - 1 \in 0..m + 1 /\ n - 1 # m + 1)
        BY <3>2
      <4>2. n # 0 => h[n - 1] = g[n - 1]
        BY <4>1
      <4>3. g[n] = IF n = 0 THEN a ELSE RemoveOne(f, g[n - 1], i)
        BY <2>1, <4>1
      <4> QED BY <4>1, <4>2, <4>3
    <3> QED BY <3>1, <3>2
  <2>4. DOMAIN h = 0..m + 1 /\ h = [n \in 0..m + 1 |-> h[n]]
    OBVIOUS
  <2> HIDE DEF h
  <2>5. Works(m + 1, h)
    BY <2>3, <2>4
  <2> QED BY <2>5
<1>3. Nat \subseteq M
  <2> HIDE DEF M
  <2> QED BY <1>1, <1>2, CountUp
<1> QED BY <1>3 DEF Takings

LEMMA KeyUpLegal ==
  ASSUME NEW n \in Nat, NEW f, Game(f, n), NEW a, Legal(f, n, a), NEW i \in 1..n
  PROVE  Legal(f, n, KeyUp(f, a, i))
BY AddOneLegal DEF KeyUp

LEMMA KeyDownLegal ==
  ASSUME NEW n \in Nat, NEW f, Game(f, n), NEW a, Legal(f, n, a), NEW i \in 1..n
  PROVE  Legal(f, n, KeyDown(f, a, i))
<1>1. a[i] \in Nat
  BY DEF Legal
<1>2. CASE a[i] <= 0
  BY <1>2 DEF KeyDown
<1>3. CASE ~ (a[i] <= 0)
  <2>1. a[i] >= 1
    BY <1>1, <1>3
  <2>2. Legal(f, n, RemoveOne(f, a, i))
    BY <2>1, RemoveOneLegal
  <2> QED BY <1>3, <2>2 DEF KeyDown
<1> QED BY <1>2, <1>3

LEMMA KeyOkLegal ==
  ASSUME NEW n \in Nat, NEW f, Game(f, n), NEW a, Legal(f, n, a), NEW i \in 1..n
  PROVE  Legal(f, n, KeyOk(f, a, i))
<1>1. PICK t : t = IF f.deathtouch THEN a[i] ELSE AtLeast0(a[i] - f.toughness[i] + 1)
  OBVIOUS
<1>2. PICK g : g = CHOOSE h : h = [k \in 0..t |-> IF k = 0 THEN a ELSE RemoveOne(f, h[k - 1], i)]
  OBVIOUS
<1>3. KeyOk(f, a, i) = IF f.power - Given(a, i) > 0 THEN AddOne(f, a, i) ELSE g[t]
  BY <1>1, <1>2 DEF KeyOk
<1>4. t \in Nat /\ t <= a[i] /\ a[i] \in Nat
  <2>1. a[i] \in Nat /\ f.toughness[i] \in Int /\ f.toughness[i] > 0
    BY DEF Legal, Game
  <2>2. CASE f.deathtouch
    BY <1>1, <2>1, <2>2
  <2>3. CASE ~f.deathtouch
    BY <1>1, <2>1, <2>3 DEF AtLeast0
  <2> QED BY <2>1, <2>2, <2>3
<1>5. g = [k \in 0..t |-> IF k = 0 THEN a ELSE RemoveOne(f, g[k - 1], i)]
  <2>1. \E h : h = [k \in 0..t |-> IF k = 0 THEN a ELSE RemoveOne(f, h[k - 1], i)]
    <3>1. \E h : Takings(f, a, i, t, h)
      BY <1>4, TakingsExist
    <3> QED BY <3>1 DEF Takings
  <2> QED BY <1>2, <2>1
<1> DEFINE M == {m \in Nat : m <= t => Legal(f, n, g[m]) /\ g[m][i] >= a[i] - m}
<1>6. 0 \in M
  <2>1. g[0] = a
    BY <1>4, <1>5
  <2> QED BY <1>4, <2>1
<1>7. ASSUME NEW m \in Nat, m \in M
      PROVE  m + 1 \in M
  <2>1. SUFFICES ASSUME m + 1 <= t PROVE Legal(f, n, g[m + 1]) /\ g[m + 1][i] >= a[i] - (m + 1)
    OBVIOUS
  <2>2. Legal(f, n, g[m]) /\ g[m][i] >= a[i] - m
    BY <1>4, <1>7, <2>1
  <2>3. g[m][i] \in Nat
    BY <2>2 DEF Legal
  <2>4. g[m][i] >= 1
    BY <1>4, <2>1, <2>2, <2>3
  <2>5. g[m + 1] = RemoveOne(f, g[m], i)
    <3>1. m + 1 \in 0..t /\ m + 1 # 0 /\ (m + 1) - 1 = m
      BY <1>4, <2>1
    <3> QED BY <1>5, <3>1
  <2>6. Legal(f, n, g[m + 1]) /\ g[m + 1][i] >= g[m][i] - 1
    BY <2>2, <2>4, <2>5, RemoveOneLegal
  <2>7. g[m + 1][i] \in Nat
    BY <2>6 DEF Legal
  <2> QED BY <1>4, <2>2, <2>3, <2>6, <2>7
<1>8. Legal(f, n, g[t])
  <2>1. Nat \subseteq M
    <3> HIDE DEF M
    <3> QED BY <1>6, <1>7, CountUp
  <2> QED BY <1>4, <2>1
<1> HIDE DEF M
<1>9. CASE f.power - Given(a, i) > 0
  BY <1>3, <1>9, AddOneLegal
<1>10. CASE ~ (f.power - Given(a, i) > 0)
  BY <1>3, <1>8, <1>10
<1> QED BY <1>9, <1>10

-----------------------------------------------------------------------------
(* Whatever keys are pressed, and whoever fights: the amounts are legal, so *)
(* long as no blocker is without toughness.                                 *)
Tough == \A i \in DOMAIN line : cards[line[i]].toughness > 0
AInv == IInv /\ (phase = "screen" /\ Tough => Legal(Fight, Len(line), amounts))

LEMMA FightIsGame ==
  ASSUME IInv, Tough
  PROVE  Game(Fight, Len(line)) /\ DOMAIN line = 1..Len(line)
<1>1. line \in Seq(Blockers) /\ Len(line) \in Nat /\ DOMAIN line = 1..Len(line)
  BY DEF IInv, StackTyped
<1>2. \A c \in Card : cards[c].life \in Int /\ cards[c].toughness \in Int
                      /\ cards[c].life <= cards[c].toughness
  BY DEF IInv, TablesSound, Sound, Firm, Creature
<1>3. \A i \in 1..Len(line) : line[i] \in Card
  BY <1>1 DEF Card
<1>4. PICK n \in Nat : n = Len(line) /\ DOMAIN line = 1..n
  BY <1>1
<1>5. PICK f : f = Fight
  OBVIOUS
<1>6. /\ f.power = AtLeast0(cards[Attacker].power)
      /\ f.toughness = [i \in 1..n |-> cards[line[i]].toughness]
      /\ f.life = [i \in 1..n |-> cards[line[i]].life]
      /\ f.deathtouch \in BOOLEAN /\ f.trample \in BOOLEAN
  BY <1>4, <1>5 DEF Fight
<1>7. f.life \in [1..n -> Int] /\ f.toughness \in [1..n -> Int]
  BY <1>2, <1>3, <1>4, <1>6
<1>8. f.life \in Seq(Int) /\ Len(f.life) = n
  <2>1. f.life \in Seq(Int)
    BY <1>7, SeqDef
  <2> QED BY <1>7, <2>1
<1>9. \A i \in 1..n : f.life[i] <= f.toughness[i] /\ f.toughness[i] > 0
  BY <1>2, <1>3, <1>4, <1>6 DEF Tough
<1>10. f.power \in Nat
  BY <1>6, AtLeast0Type
<1> QED BY <1>4, <1>5, <1>6, <1>7, <1>8, <1>9, <1>10 DEF Game

LEMMA KeyStays ==
  ASSUME AInv, NEW i \in DOMAIN line, Up(i) \/ Down(i) \/ Ok(i)
  PROVE  phase' = "screen" /\ Tough' => Legal(Fight, Len(line), amounts)'
<1>1. SUFFICES ASSUME Tough' PROVE Legal(Fight, Len(line), amounts)'
  OBVIOUS
<1>2. /\ phase = "screen" /\ line' = line /\ cards' = cards
      /\ amounts' \in {KeyUp(Fight, amounts, i), KeyDown(Fight, amounts, i), KeyOk(Fight, amounts, i)}
  BY DEF Up, Down, Ok, Key, table
<1>3. Tough /\ Fight' = Fight
  BY <1>1, <1>2 DEF Tough, Fight
<1>4. Game(Fight, Len(line)) /\ i \in 1..Len(line) /\ Len(line) \in Nat
  BY <1>3, FightIsGame DEF AInv, Game
<1>5. Legal(Fight, Len(line), amounts)
  BY <1>2, <1>3 DEF AInv
<1>6. Legal(Fight, Len(line), amounts')
  BY <1>2, <1>4, <1>5, KeyUpLegal, KeyDownLegal, KeyOkLegal
<1>7. Len(line') = Len(line)
  BY <1>2
<1>8. PICK f : f = Fight
  OBVIOUS
<1>9. PICK n : n = Len(line)
  OBVIOUS
<1> QED BY <1>3, <1>6, <1>7, <1>8, <1>9 DEF Legal, Ordered, Short, Lethal

LEMMA NextAInv == AInv /\ [Next]_vars => AInv'
<1> SUFFICES ASSUME AInv, [Next]_vars PROVE AInv'
  OBVIOUS
<1>1. IInv /\ IInv'
  BY NextIInv DEF AInv
<1>2. SUFFICES ASSUME phase' = "screen", Tough' PROVE Legal(Fight, Len(line), amounts)'
  BY <1>1 DEF AInv
<1>3. ASSUME NEW S \in SUBSET Blockers, NEW q \in Orders(S), NEW b \in BOOLEAN, BeginDamage(q, b)
      PROVE  Legal(Fight, Len(line), amounts)'
  <2>1. amounts' = AutoAffect(Fight')
    BY <1>3 DEF BeginDamage
  <2>2. Game(Fight, Len(line))'
    BY <1>1, <1>2, FightIsGame, PTL
  <2> QED BY <2>1, <2>2, AutoAffectLegal
<1>4. ASSUME NEW i \in DOMAIN line, Up(i) \/ Down(i) \/ Ok(i)
      PROVE  Legal(Fight, Len(line), amounts)'
  BY <1>2, <1>4, KeyStays
<1>5. CASE UNCHANGED vars
  <2>1. phase' = phase /\ line' = line /\ cards' = cards /\ amounts' = amounts
    BY <1>5 DEF vars, table, combat
  <2> QED BY <1>2, <2>1 DEF AInv, Tough, Legal, Ordered, Short, Lethal, Fight
<1>6. CASE Acting
  <2>1. phase' = "free"
    BY <1>6 DEF Acting, Regenerate, PreventCard, Counter, PreventPlayer, AddShield, Burn, EndTurn,
                Effect, Act, Free
  <2> QED BY <1>2, <2>1
<1>7. CASE StateBased
  BY <1>2, <1>7 DEF StateBased, Free
<1>8. CASE Resolve \/ DealOne \/ NoBlow \/ AllDealt \/ HearOne \/ StackResolved
  BY <1>2, <1>8 DEF Resolve, DealOne, NoBlow, AllDealt, HearOne, StackResolved
<1> QED BY <1>3, <1>4, <1>5, <1>6, <1>7, <1>8 DEF Next, Fighting

(* The keys of the damage screen lead from a legal assignment of damage to  *)
(* a legal one (DamagerDamaged::autoaffect, addOne(), removeOne(), and      *)
(* GuiCombat::CheckUserInput()).                                            *)
THEOREM AssignmentsAlwaysLegal == Spec => []AssignmentLegal
<1>1. Init => AInv
  <2>1. Init => phase # "screen"
    BY DEF Init
  <2> QED BY <2>1, InitIInv DEF AInv
<1>2. AInv => AssignmentLegal
  <2>1. SUFFICES ASSUME AInv, Tough PROVE AmountsAddUp /\ LethalInOrder
    BY DEF AssignmentLegal, Tough
  <2>2. Game(Fight, Len(line)) /\ DOMAIN line = 1..Len(line)
    BY <2>1, FightIsGame DEF AInv
  <2>3. SUFFICES ASSUME phase = "screen"
        PROVE  /\ line = <<>> \/ Total(amounts) = Fight.power
                  \/ (Fight.trample /\ Total(amounts) < Fight.power)
               /\ \A i \in Slots(Fight) : Short(Fight, amounts, i) =>
                     /\ \A j \in Slots(Fight) : j > i => amounts[j] = 0
                     /\ Total(amounts) = Fight.power
    BY DEF AmountsAddUp, LethalInOrder
  <2>4. Legal(Fight, Len(line), amounts)
    BY <2>1, <2>3 DEF AInv
  <2>5. Slots(Fight) = 1..Len(line)
    BY <2>2 DEF Slots, Game
  <2>6. Len(line) = 0 => line = <<>>
    BY <2>1 DEF AInv, IInv, StackTyped
  <2> QED BY <2>4, <2>5, <2>6 DEF Legal, Ordered
<1> QED
  BY <1>1, <1>2, NextAInv, PTL DEF Spec
=============================================================================
