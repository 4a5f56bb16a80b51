--------------------------------- MODULE Zones ---------------------------------
(***************************************************************************)
(* Zones and the objects in them.  A card that changes its zone becomes a  *)
(* new object (MTGGameZone::removeCard() clones it), which knows the       *)
(* previous one and is its next; only between the battlefields of the two  *)
(* players it stays the object it is.  The zone temp is a place to pass    *)
(* through: MTGPlayerCards::putInZone() makes the events look as if a card *)
(* had never been there.  The rules for tokens, persist and unearth move   *)
(* cards when they hear of a move, and GameObserver::gameStateBasedEffects *)
(* goes through the cards in play while they leave.                        *)
(***************************************************************************)
EXTENDS Integers, SequencesExt, FiniteSetsExt

CONSTANTS
  Cards,      \* the cards of the decks
  Tokens,     \* the tokens that may be made
  Owner,      \* the player whose deck a card is of, or who gets the token
  Has,        \* persist, treason, aura or sorcery
  Starts,     \* where the game begins: for each card the name of its zone
  MaxActs     \* bound on the number of acts

Player == {0, 1}
Names == {"library", "hand", "stack", "inPlay", "graveyard", "exile", "temp", "garbage"}
Zone == Names \X Player
None == <<"none", 0>>

ASSUME ZonesAssumption ==
  /\ Cards \cap Tokens = {} /\ IsFiniteSet(Cards \cup Tokens)
  /\ Owner \in [Cards \cup Tokens -> Player] /\ Has \in [Cards \cup Tokens -> SUBSET STRING]
  /\ Starts \subseteq [Cards -> {"library", "hand", "inPlay", "graveyard"}] /\ MaxActs \in Nat

VARIABLES
  w,          \* the objects, the zones, placeOnTop, lastCardDrawn, the events waiting
  aim,        \* the object an ability on the stack is meant for, 0 if there is none
  cleanup,    \* the phase is the one after the end of turn
  sweeping,   \* where gameStateBasedEffects() is
  swept,      \* history: it has gone through the cards in this phase
  acts

vars == <<w, aim, cleanup, sweeping, swept, acts>>

Z(name, p) == <<name, p>>
NoSweep == [kind |-> "none"]
Obj(u, o) == u.objs[o]
Objects(u) == 1..Len(u.objs)
Home(u, o, name) == Z(name, Owner[Obj(u, o).card])
Controller(u, o) == Obj(u, o).zone[2]

(* An object fresh from its constructor, with no other before or after it.  *)
NewObject(c, isToken) ==
    [card |-> c, token |-> isToken, previous |-> 0, next |-> 0, zone |-> None,
     previousZone |-> None, live |-> TRUE, minus |-> FALSE, unearthed |-> FALSE, target |-> 0,
     dying |-> FALSE]

----------------------------------------------------------------------------
(* Moving a card.                                                           *)

(* addCard(): the card is the last one of the zone.                         *)
AddCard(u, o, z) ==
    [u EXCEPT !.zones[z] = Append(@, o), !.objs[o].zone = z]

(* Mutant of RemoveCard: the object that is left does not know the next.    *)
RemoveCardUnlinked(u, o, z, doCopy) ==
    LET gone == [u EXCEPT !.zones[z] = RemoveFirst(@, o), !.objs[o].zone = None]
        copy == [NewObject(Obj(u, o).card, Obj(u, o).token) EXCEPT !.previous = o, !.previousZone = z]
    IN IF doCopy THEN [u |-> [gone EXCEPT !.objs = Append(@, copy)], copy |-> Len(u.objs) + 1]
       ELSE [u |-> [gone EXCEPT !.objs[o].previousZone = z], copy |-> o]

(* removeCard(): the copy, that is in no zone yet, and the object it was.   *)
RemoveCard(u, o, z, doCopy) ==
    LET gone == [u EXCEPT !.zones[z] = RemoveFirst(@, o), !.objs[o].zone = None]
        copy == [NewObject(Obj(u, o).card, Obj(u, o).token) EXCEPT !.previous = o, !.previousZone = z]
        n == Len(u.objs) + 1
    IN IF doCopy
       THEN [u |-> [gone EXCEPT !.objs = Append([@ EXCEPT ![o].next = n], copy)], copy |-> n]
       ELSE [u |-> [gone EXCEPT !.objs[o].previousZone = z], copy |-> o]

(* Mutant of PassThrough: the zone before is that of the copy.              *)
PassThroughKept(u, o) == [u |-> u, from |-> Obj(u, o).previousZone]

(* A copy that comes from temp is linked to the object before that, and the *)
(* object that was in temp is deleted.                                      *)
PassThrough(u, o) ==
    LET t == Obj(u, o).previous
        before == Obj(u, t).previous
        cut == [u.objs EXCEPT ![o].previous = before,
                              ![t] = [@ EXCEPT !.previous = 0, !.next = 0, !.live = FALSE]]
    IN [u |-> [u EXCEPT !.objs = IF before = 0 THEN cut ELSE [cut EXCEPT ![before].next = o]],
        from |-> Obj(u, t).previousZone]

Send(u, o, from, to) == [u EXCEPT !.queue = Append(@, [card |-> o, from |-> from, to |-> to])]

(* Mutant of PutInZone: a card put on top stays in the library.             *)
PutInZoneTwice(u, o, from, to) ==
    LET r == RemoveCard(u, o, from, ~(from[1] = "inPlay" /\ to[1] = "inPlay"))
    IN IF from = None \/ to = None THEN [u |-> u, ret |-> o]
       ELSE IF ~Contains(u.zones[from], o) THEN [u |-> u, ret |-> 0]
       ELSE IF to[1] = "library" /\ from = to
       THEN [u |-> AddCard(AddCard(r.u, r.copy, Z("temp", to[2])), r.copy, to), ret |-> r.copy]
       ELSE [u |-> Send(AddCard(r.u, r.copy, to), r.copy, from, to), ret |-> r.copy]

(* putInZone(): the object the card is now, 0 when it was not there.  From  *)
(* a library to itself a card waits in temp, to be put on top when the      *)
(* library is shuffled.                                                     *)
PutInZone(u, o, from, to) ==
    LET r == RemoveCard(u, o, from, ~(from[1] = "inPlay" /\ to[1] = "inPlay"))
        placed == AddCard(r.u, r.copy, to)
        thru == PassThrough(placed, r.copy)
    IN IF from = None \/ to = None THEN [u |-> u, ret |-> o]
       ELSE IF ~Contains(u.zones[from], o) THEN [u |-> u, ret |-> 0]
       ELSE IF to[1] = "library" /\ from = to
       THEN [u |-> [AddCard(r.u, r.copy, Z("temp", to[2])) EXCEPT !.onTop[to[2]] = Append(@, r.copy)],
             ret |-> r.copy]
       ELSE IF to[1] = "temp" THEN [u |-> placed, ret |-> r.copy]
       ELSE IF from[1] = "temp"
       THEN [u |-> Send(thru.u, r.copy, thru.from, to), ret |-> r.copy]
       ELSE [u |-> Send(placed, r.copy, from, to), ret |-> r.copy]

(* Where the card is now, to its owner's zone of that name.                 *)
Put(u, o, name) == PutInZone(u, o, Obj(u, o).zone, Home(u, o, name))

(* Through temp into play, for an object that is in zone from.              *)
ViaTemp(u, o, from, p) ==
    LET t == PutInZone(u, o, from, Z("temp", p))
    IN IF t.ret = 0 \/ t.ret = o THEN [u |-> t.u, ret |-> 0]
       ELSE PutInZone(t.u, t.ret, Z("temp", p), Z("inPlay", p))

----------------------------------------------------------------------------
(* What the rules do when they hear of a move, in their order.              *)

(* Mutant of TokensCleanup: the object of the event is taken for the card.  *)
TokensCleanupHeld(u, e) ==
    IF ~Obj(u, e.card).token \/ e.to[1] \in {"inPlay", "graveyard"} THEN u
    ELSE PutInZone(u, e.card, Obj(u, e.card).zone, Z("garbage", Controller(u, e.card))).u

TokensCleanup(u, e) ==
    IF ~Obj(u, e.card).token \/ e.to[1] \in {"inPlay", "garbage"} THEN u
    ELSE PutInZone(u, e.card, Obj(u, e.card).zone, Z("garbage", Controller(u, e.card))).u

(* The counters that count are those it died with.                          *)
PersistRule(u, e) ==
    LET died == Obj(u, e.card).previous
        back == ViaTemp(u, e.card, e.to, Owner[Obj(u, e.card).card])
    IN IF /\ died # 0 /\ "persist" \in Has[Obj(u, e.card).card] /\ ~Obj(u, died).minus
          /\ e.from[1] = "inPlay" /\ e.to[1] = "graveyard" /\ back.ret # 0
       THEN [back.u EXCEPT !.objs[back.ret].minus = TRUE] ELSE u

UnearthRule(u, e) ==
    IF /\ Obj(u, e.card).previous # 0 /\ Obj(u, Obj(u, e.card).previous).unearthed
       /\ e.from[1] = "inPlay" /\ e.to[1] \in {"graveyard", "hand", "library"}
    THEN Put(u, e.card, "exile").u ELSE u

Hear(u, e) == UnearthRule(PersistRule(TokensCleanup(u, e), e), e)

HandleEvent ==
    /\ w.queue # <<>>
    /\ w' = [Hear(w, Head(w.queue)) EXCEPT !.queue = Tail(@)]
    /\ UNCHANGED <<aim, cleanup, sweeping, swept, acts>>

----------------------------------------------------------------------------
(* The game goes on: one act at a time, its events handled before the next. *)

Idle == w.queue = <<>> /\ sweeping = NoSweep
Act == Idle /\ acts < MaxActs /\ acts' = acts + 1 /\ swept' = FALSE /\ UNCHANGED <<cleanup, sweeping>>
Spells == {o \in Objects(w) : Obj(w, o).zone[1] = "stack"}
InZone(o) == \E z \in Zone : Contains(w.zones[z], o)
InPlay(u, o) == Obj(u, o).zone[1] = "inPlay"
Is(o, kind) == kind \in Has[Obj(w, o).card]

(* drawFromLibrary(): the object that was in the library is remembered, and *)
(* is told to be in the hand.                                               *)
Drawn(u, p) ==
    LET top == Last(u.zones[Z("library", p)])
        r == PutInZone(u, top, Z("library", p), Z("hand", p))
    IN [r.u EXCEPT !.lastDrawn[p] = top, !.objs[top].zone = Z("hand", p)]

Draw(p) ==
    /\ Act /\ w.zones[Z("library", p)] # <<>> /\ w' = Drawn(w, p) /\ UNCHANGED aim

(* Jandor's Ring: discard the last card drawn and draw one.                 *)
Ring(p) ==
    /\ Act /\ w.lastDrawn[p] # 0 /\ Obj(w, w.lastDrawn[p]).zone = Z("hand", p)
    /\ w.zones[Z("library", p)] # <<>>
    /\ w' = Drawn(Put(w, w.lastDrawn[p], "graveyard").u, p) /\ UNCHANGED aim

(* A spell, for an aura with its target.                                    *)
Cast(o, t) ==
    /\ Act /\ InZone(o) /\ Obj(w, o).zone[1] = "hand"
    /\ Spells = {} /\ aim = 0
    /\ IF Is(o, "aura") THEN t # 0 /\ InPlay(w, t) ELSE t = 0
    /\ w' = PutInZone(w, o, Obj(w, o).zone, Z("stack", Controller(w, o))).u
    /\ aim' = t

(* Spell::resolve(), and addAbilities(): an aura whose target is no longer  *)
(* the object it was fizzles, a sorcery goes to the graveyard.              *)
Resolve(o) ==
    LET p == Controller(w, o)
        r == PutInZone(w, o, Z("stack", p), Z("inPlay", p))
    IN /\ Idle /\ o \in Spells
       /\ w' = IF Is(o, "sorcery") THEN Put(w, o, "graveyard").u
               ELSE IF ~Is(o, "aura") THEN r.u
               ELSE IF InPlay(w, aim) THEN [r.u EXCEPT !.objs[r.ret].target = aim]
               ELSE PutInZone(r.u, r.ret, Z("inPlay", p), Home(w, o, "graveyard")).u
       /\ aim' = 0 /\ swept' = FALSE /\ UNCHANGED <<cleanup, sweeping, acts>>

(* An ability is on the stack, for this object.                             *)
Aim(o) ==
    /\ Act /\ aim = 0 /\ Spells = {} /\ InZone(o)
    /\ Obj(w, o).zone[1] \notin {"temp", "garbage", "stack"}
    /\ aim' = o /\ UNCHANGED w

(* AAMover::resolve(), for the zone the object is in by now.                *)
Move(o, name) ==
    /\ Idle /\ o # 0 /\ o = aim /\ Spells = {}
    /\ w' = Put(w, o, name).u
    /\ aim' = 0 /\ swept' = FALSE /\ UNCHANGED <<cleanup, sweeping, acts>>

MoveIntoPlay(o, p, unearthed) ==
    LET from == Obj(w, o).zone
        r == IF from[1] = "inPlay" THEN PutInZone(w, o, from, Z("inPlay", p))
             ELSE ViaTemp(w, o, from, p)
    IN /\ Idle /\ o # 0 /\ o = aim /\ Spells = {} /\ Has[Obj(w, o).card] \cap {"aura", "sorcery"} = {}
       /\ unearthed => from[1] = "graveyard" /\ p = Owner[Obj(w, o).card]
       /\ from # None
       /\ w' = IF unearthed THEN [r.u EXCEPT !.objs[r.ret].unearthed = TRUE] ELSE r.u
       /\ aim' = 0 /\ swept' = FALSE /\ UNCHANGED <<cleanup, sweeping, acts>>

(* A token is put into temp and resolved as a spell.                        *)
MakeToken(t, p) ==
    LET n == Len(w.objs) + 1
        u == AddCard([w EXCEPT !.objs = Append(@, NewObject(t, FALSE))], n, Z("temp", p))
        r == PutInZone(u, n, Z("temp", p), Z("inPlay", p))
    IN /\ Act /\ \A o \in Objects(w) : Obj(w, o).card # t
       /\ p = Owner[t]
       /\ w' = [r.u EXCEPT !.objs[r.ret].token = TRUE] /\ UNCHANGED aim

(* Creatures that die together: the events wait, as while the stack of      *)
(* damages resolves.                                                        *)
DieTogether(o1, o2) ==
    /\ Act /\ o1 # o2 /\ InPlay(w, o1) /\ InPlay(w, o2)
    /\ w' = Put(Put(w, o1, "graveyard").u, o2, "graveyard").u
    /\ UNCHANGED aim

Hurt(o) ==
    /\ Act /\ InPlay(w, o) /\ w' = [w EXCEPT !.objs[o].dying = TRUE] /\ UNCHANGED aim

(* shuffleLibrary().                                                        *)
Shuffle(p, lib) ==
    LET put[n \in 0..Len(w.onTop[p])] ==
          IF n = 0 THEN [w EXCEPT !.zones[Z("library", p)] = lib]
          ELSE PutInZone(put[n - 1], w.onTop[p][n], Z("temp", p), Z("library", p)).u
    IN /\ Act /\ w.onTop[p] # <<>>
       /\ w' = [put[Len(w.onTop[p])] EXCEPT !.onTop[p] = <<>>]
       /\ UNCHANGED aim

EnterCleanup ==
    /\ Idle /\ ~cleanup /\ Spells = {} /\ aim = 0 /\ acts < MaxActs /\ acts' = acts + 1
    /\ cleanup' = TRUE /\ swept' = FALSE /\ UNCHANGED <<w, aim, sweeping>>

(* All that an object was before.                                           *)
Before(u, o) ==
    LET Closed(S) == o \in S /\ \A x \in S : Obj(u, x).previous \in S \cup {0}
    IN {x \in 1..o : \A S \in SUBSET (1..o) : Closed(S) => x \in S}

(* The next turn: the garbage is deleted, with what it was before.          *)
NextTurn ==
    LET trash == {o \in Objects(w) : \E p \in Player : Contains(w.zones[Z("garbage", p)], o)}
        freed == UNION {Before(w, o) : o \in trash}
    IN /\ Idle /\ cleanup /\ swept /\ Spells = {} /\ aim = 0
       /\ w' = [w EXCEPT !.objs = [o \in Objects(w) |-> IF o \in freed THEN [@[o] EXCEPT !.live = FALSE]
                                                       ELSE @[o]],
                         !.zones = [z \in Zone |-> IF z[1] = "garbage" THEN <<>> ELSE @[z]]]
       /\ cleanup' = FALSE /\ swept' = FALSE /\ UNCHANGED <<aim, sweeping, acts>>

----------------------------------------------------------------------------
(* gameStateBasedEffects(): first the cards in play of both players, from   *)
(* the last to the first.                                                   *)

Battlefield(p) == w.zones[Z("inPlay", p)]
Goes == w.queue = <<>> /\ UNCHANGED <<aim, cleanup, acts>>
From(kind, p) == [kind |-> kind, p |-> p, at |-> IF kind = "state" THEN Len(Battlefield(p)) ELSE 0,
                  nb |-> Len(Battlefield(p)), done |-> FALSE]
Falls(u, o) == Obj(u, o).target # 0 /\ ~InPlay(u, Obj(u, o).target)
Leaves(o) == IF sweeping.kind = "end" THEN Is(o, "treason") \/ Obj(w, o).unearthed
             ELSE Obj(w, o).dying \/ Falls(w, o)

(* A frame in which nothing leaves changes nothing.                         *)
Begin ==
    /\ Goes /\ sweeping = NoSweep /\ Spells = {} /\ aim = 0
    /\ (cleanup /\ ~swept) \/ \E p \in Player, i \in Objects(w) :
                                 i \in DOMAIN Battlefield(p) /\ Leaves(Battlefield(p)[i])
    /\ sweeping' = From("state", 0) /\ UNCHANGED <<w, swept>>

(* The cards that are still to be looked at and will leave; those that stay *)
(* are passed over.                                                         *)
Ahead == {i \in DOMAIN Battlefield(sweeping.p) :
            /\ IF sweeping.kind = "state" THEN i <= sweeping.at ELSE sweeping.at < i /\ i <= sweeping.nb
            /\ Leaves(Battlefield(sweeping.p)[i])}

(* A dead creature, or an aura without its target, leaves.                  *)
StateOf ==
    LET i == Max(Ahead)
        o == Battlefield(sweeping.p)[i]
        u == IF Obj(w, o).dying THEN Put(w, o, "graveyard").u ELSE w
    IN /\ Goes /\ sweeping.kind = "state" /\ Ahead # {}
       /\ w' = IF Falls(u, o) THEN Put(u, o, "graveyard").u ELSE u
       /\ sweeping' = [sweeping EXCEPT !.at = i - 1] /\ UNCHANGED swept

(* At the end of the turn what is bound to leave leaves, from the first     *)
(* card to the last.                                                        *)
EndOf ==
    LET i == Min(Ahead)
        o == Battlefield(sweeping.p)[i]
        u == IF Is(o, "treason") THEN Put(w, o, "graveyard").u ELSE w
    IN /\ Goes /\ sweeping.kind = "end" /\ ~sweeping.done /\ Ahead # {}
       /\ w' = IF Obj(w, o).unearthed THEN Put(u, o, "exile").u ELSE u
       /\ sweeping' = [sweeping EXCEPT !.at = i - 1, !.done = TRUE] /\ UNCHANGED swept

(* Mutant of EndNext: the number of cards is that of the beginning.         *)
EndNextStale ==
    /\ Goes /\ sweeping.kind = "end" /\ sweeping.done
    /\ sweeping' = [sweeping EXCEPT !.at = @ + 1, !.done = FALSE]
    /\ UNCHANGED <<w, swept>>

(* Fewer cards than before: the index is set to 0, and then incremented.    *)
EndNext ==
    LET n == Len(Battlefield(sweeping.p))
        again == sweeping.nb > n
    IN /\ Goes /\ sweeping.kind = "end" /\ sweeping.done
       /\ sweeping' = [sweeping EXCEPT !.at = IF again THEN 1 ELSE @ + 1,
                                       !.nb = IF again THEN n ELSE @, !.done = FALSE]
       /\ UNCHANGED <<w, swept>>

Passed ==
    /\ Goes /\ UNCHANGED w
    /\ sweeping # NoSweep /\ Ahead = {} /\ ~sweeping.done
    /\ IF sweeping.p = 0 THEN sweeping' = From(sweeping.kind, 1) /\ UNCHANGED swept
       ELSE IF sweeping.kind = "state" /\ cleanup THEN sweeping' = From("end", 0) /\ UNCHANGED swept
       ELSE sweeping' = NoSweep /\ swept' = cleanup

----------------------------------------------------------------------------
(* Each card is an object in its owner's zone, in any order.                *)
Start(start) ==
    LET deck == SetToSeq(Cards)
        home(c) == Z(start[c], Owner[c])
    IN [objs |-> [i \in DOMAIN deck |-> [NewObject(deck[i], FALSE) EXCEPT !.zone = home(deck[i])]],
        zones |-> [z \in Zone |-> SetToSeq({i \in DOMAIN deck : home(deck[i]) = z})],
        onTop |-> [p \in Player |-> <<>>], lastDrawn |-> [p \in Player |-> 0], queue |-> <<>>]

Init ==
    /\ \E start \in Starts : w = Start(start)
    /\ aim = 0 /\ cleanup = FALSE /\ sweeping = NoSweep /\ swept = FALSE /\ acts = 0

Orders(S) == {q \in [1..Cardinality(S) -> S] : \A i, j \in DOMAIN q : q[i] = q[j] => i = j}
Libraries(p) == IF w.onTop[p] = <<>> THEN {} ELSE Orders(ToSet(w.zones[Z("library", p)]))

Next ==
    \/ HandleEvent \/ EnterCleanup \/ NextTurn
    \/ Begin \/ StateOf \/ EndOf \/ EndNext \/ Passed
    \/ \E p \in Player : Draw(p) \/ Ring(p) \/ \E lib \in Libraries(p) : Shuffle(p, lib)
    \/ \E t \in Tokens, p \in Player : MakeToken(t, p)
    \/ \E o \in Objects(w) :
          \/ Resolve(o) \/ Aim(o) \/ Hurt(o)
          \/ \E t \in {0} \cup Objects(w) : Cast(o, t)
          \/ \E name \in {"library", "hand", "graveyard"} : Move(o, name)
          \/ \E p \in Player, unearthed \in BOOLEAN : MoveIntoPlay(o, p, unearthed)
    \/ \E o1, o2 \in Objects(w) : DieTogether(o1, o2)

Spec == Init /\ [][Next]_vars

----------------------------------------------------------------------------
(* Properties.                                                              *)

Now(c) == {o \in Objects(w) : Obj(w, o).card = c /\ Obj(w, o).next = 0 /\ Obj(w, o).live}

TypeOK ==
    /\ \A o \in Objects(w) : /\ Obj(w, o).zone \in Zone \cup {None}
                             /\ {Obj(w, o).previous, Obj(w, o).next} \subseteq {0} \cup Objects(w)
    /\ \A z \in Zone : w.zones[z] \in Seq(Objects(w))
    /\ aim \in {0} \cup Objects(w) /\ cleanup \in BOOLEAN

(* No card is lost or doubled, whatever moves it, how many events wait, and *)
(* whether it passes through temp: it is in one zone, once, and that is the *)
(* zone its object is told to be in.                                        *)
OneObject ==
    \A c \in Cards :
        LET there(pl) == w.zones[pl[1]][pl[2]]
            places == {pl \in Zone \X Objects(w) :
                        pl[2] \in DOMAIN w.zones[pl[1]] /\ Obj(w, there(pl)).card = c}
        IN Cardinality(places) = 1 /\ \A pl \in places : Obj(w, there(pl)).zone = pl[1]

(* Whoever holds an object finds the card: next leads from everything a     *)
(* card was to what it is now, and previous leads back the same way.        *)
ChainsMeet ==
    \A o \in Objects(w) : Obj(w, o).live =>
        LET n == Obj(w, o).next  p == Obj(w, o).previous
        IN /\ IF n = 0 THEN InZone(o)
              ELSE Obj(w, n).live /\ Obj(w, n).previous = o /\ Obj(w, n).card = Obj(w, o).card
           /\ p # 0 => Obj(w, p).live /\ Obj(w, p).next = o

(* Nothing stays in temp but what waits to be put on top of the library,    *)
(* and of that everything is still there.                                   *)
OnlyTopCardsWait ==
    \A p \in Player : w.zones[Z("temp", p)] = w.onTop[p]

(* No event tells of temp: a move through it looks like a move from where   *)
(* the card was before, by the object that was there.                       *)
EventsHideTemp ==
    \A i \in DOMAIN w.queue : LET e == w.queue[i]
        IN /\ "temp" \notin {e.from[1], e.to[1]} /\ Obj(w, e.card).live
           /\ e.from = None => Obj(w, e.card).card \in Tokens

(* A token that left play is gone when the events are handled, even if it   *)
(* persists or has been moved meanwhile.                                    *)
TokensCease ==
    w.queue = <<>> => \A t \in Tokens : \A o \in Now(t) : Obj(w, o).zone[1] \in {"inPlay", "garbage"}

(* gameStateBasedEffects() never looks past the cards in play, whatever     *)
(* leaves or comes back while it goes through them.                         *)
SweepInBounds ==
    /\ sweeping.kind = "state" => sweeping.at <= Len(Battlefield(sweeping.p))
    /\ sweeping.kind = "end" /\ ~sweeping.done => sweeping.nb <= Len(Battlefield(sweeping.p))

(* The cards are where the zones say, and the zones are where cards go.     *)
CardsInPlace == TypeOK /\ OneObject /\ OnlyTopCardsWait

(* What a card was leads to what it is, and temp is in no memory of it.     *)
PastIsKept == ChainsMeet /\ EventsHideTemp
===============================================================================
