------------------------------- MODULE Abilities -------------------------------
(***************************************************************************)
(* The abilities in force (ActionLayer) and what they do to the creatures  *)
(* they are for.  A lord (ALord) keeps one child for each creature on its  *)
(* list; a bonus until the end of the turn is a child with a wrapper       *)
(* around it (GenericInstantAbility) or an ability that remembers what it  *)
(* has to put back.  ActionLayer::Update() goes over the abilities twice,  *)
(* while they add and remove one another.  Abilities are objects on the    *)
(* heap, as removing one twice would be an error no test could see.        *)
(*                                                                         *)
(* No ability here is on the stack or waits for an answer, no menu is      *)
(* open, no card is phased out or has abilities that work from another     *)
(* zone: testDestroy(), Update() and canBeInList() end early otherwise.    *)
(***************************************************************************)
EXTENDS Integers, SequencesExt, FiniteSetsExt

CONSTANTS
  Creatures,  \* the creatures that come into play, each object once
  Lords,      \* permanents with a lord on them
  Gives,      \* what a lord's child is: a "flag" (flying) or a "pump"
  OnlyFlyers, \* the lords whose list is of creatures that fly
  Bonus,      \* the power a pump gives; 0 if it is the number of creatures in play
  MaxActs,    \* bound on what the players do
  MaxTurns    \* bound on the turns

Cards == Creatures \cup Lords
Instants == {"flagEOT", "wrapper"}   \* the InstantAbility classes
Nobody == 0                          \* a null pointer

ASSUME AbilitiesAssumption ==
  /\ Creatures \cap Lords = {} /\ IsFiniteSet(Cards)
  /\ Gives \in [Lords -> {"flag", "pump"}] /\ OnlyFlyers \subseteq Lords
  /\ Bonus \in Nat /\ MaxActs \in Nat /\ MaxTurns \in Nat

VARIABLES
  g,       \* the abilities and the creatures: see TypeOK
  gone,    \* the objects that have left play
  turn,
  tick,    \* history: whether an even number of frames has gone by
  acts

vars == <<g, gone, turn, tick, acts>>

Ability(u, i) == u.heap[i]
IsIn(i, seq) == \E k \in 1..Len(seq) : seq[k] = i
CreaturesInPlay(u) == u.inPlay \cap Creatures
WorthOf(u) == IF Bonus = 0 THEN Cardinality(CreaturesInPlay(u)) ELSE Bonus

(* NEW: the object is where there is room on the heap, so that an address   *)
(* is used again once what was there is deleted.                            *)
FreeAddress(u) == CHOOSE i \in 1..(Cardinality(DOMAIN u.heap) + 1) : i \notin DOMAIN u.heap

NewAbility(u, kind, source, target) ==
    [u EXCEPT !.heap = @ @@ (FreeAddress(u) :>
        [kind |-> kind, source |-> source, target |-> target, forced |-> FALSE,
         saved |-> FALSE, worth |-> 0, child |-> Nobody, kids |-> <<>>])]

----------------------------------------------------------------------------
(* addToGame().                                                             *)

AddObserver(u, i) == [u EXCEPT !.mObjects = Append(@, i)]

(* The flag: what was there before is kept, to be put back.                 *)
AddFlag(u, i) ==
    LET c == Ability(u, i).target
    IN AddObserver([u EXCEPT !.heap[i].saved = u.flying[c], !.flying[c] = TRUE], i)

AddPump(u, i) ==
    LET c == Ability(u, i).target
    IN AddObserver([u EXCEPT !.heap[i].worth = WorthOf(u), !.power[c] = @ + WorthOf(u)], i)

AddLeaf(u, i) == IF Ability(u, i).kind = "pump" THEN AddPump(u, i) ELSE AddFlag(u, i)

(* Mutant of AddWrapped: the child is left to look after itself.            *)
AddWrappedFree(u, c) ==
    LET i == FreeAddress(u)
        one == AddLeaf(NewAbility(u, "pump", c, c), i)
        j == FreeAddress(one)
        two == AddObserver(NewAbility(one, "wrapper", c, c), j)
    IN [two EXCEPT !.heap[j].child = i]

(* GenericInstantAbility: the child first, never to be destroyed by itself. *)
AddWrapped(u, c) ==
    LET i == FreeAddress(u)
        one == AddLeaf(NewAbility(u, "pump", c, c), i)
        j == FreeAddress(one)
        two == AddObserver(NewAbility(one, "wrapper", c, c), j)
    IN [two EXCEPT !.heap[i].forced = TRUE, !.heap[j].child = i]

----------------------------------------------------------------------------
(* destroy(), and moveToGarbage(), which does nothing for an ability that   *)
(* is not in the layer any more.                                            *)

(* Mutant of DestroyLeaf: a pump takes away what it would give now.         *)
DestroyLeafNow(u, i) ==
    LET a == Ability(u, i)
    IN IF a.kind = "pump" THEN [u EXCEPT !.power[a.target] = @ - WorthOf(u)]
       ELSE [u EXCEPT !.flying[a.target] = a.saved]

DestroyLeaf(u, i) ==
    LET a == Ability(u, i)
    IN IF a.kind = "pump" THEN [u EXCEPT !.power[a.target] = @ - a.worth]
       ELSE [u EXCEPT !.flying[a.target] = a.saved]

ToGarbage(u, i) ==
    [u EXCEPT !.mObjects = SelectSeq(@, LAMBDA x : x # i), !.garbage = Append(@, i)]

(* Mutant of RemoveLeaf: it is not looked up first.                         *)
RemoveLeafBlind(u, i) == ToGarbage(DestroyLeaf(u, i), i)

RemoveLeaf(u, i) == IF IsIn(i, u.mObjects) THEN ToGarbage(DestroyLeaf(u, i), i) ELSE u

(* GenericInstantAbility::destroy(): a child that was not in the layer is   *)
(* deleted here.                                                            *)
DestroyWrapper(u, i) ==
    LET child == Ability(u, i).child
        after == RemoveLeaf(u, child)
    IN [(IF IsIn(child, u.mObjects) THEN after
         ELSE [after EXCEPT !.heap = [x \in DOMAIN @ \ {child} |-> @[x]]])
        EXCEPT !.heap[i].child = Nobody]

(* ALord::removed().                                                        *)
Removed(u, i, c) ==
    LET kids == Ability(u, i).kids
    IN [RemoveLeaf(u, kids[c]) EXCEPT !.heap[i].kids = [x \in DOMAIN kids \ {c} |-> kids[x]]]

(* Mutant of DestroyLord: the children are left to find out.                *)
DestroyLordAlone(u, i) == u

DestroyLord(u, i) ==
    FoldSeq(LAMBDA c, v : Removed(v, i, c), u, SetToSeq(DOMAIN Ability(u, i).kids))

RemoveObserver(u, i) ==
    IF ~IsIn(i, u.mObjects) THEN u
    ELSE CASE Ability(u, i).kind = "lord"    -> ToGarbage(DestroyLord(u, i), i)
           [] Ability(u, i).kind = "wrapper" -> ToGarbage(DestroyWrapper(u, i), i)
           [] OTHER                          -> RemoveLeaf(u, i)

----------------------------------------------------------------------------
(* ListMaintainerAbility::updateTargets() of a lord.                        *)

CanBeInList(u, i, c) ==
    /\ c \in CreaturesInPlay(u) /\ c \in u.member
    /\ Ability(u, i).source \in OnlyFlyers => u.flying[c]

Added(u, i, c) ==
    LET j == FreeAddress(u)
    IN [AddLeaf(NewAbility(u, Gives[Ability(u, i).source], c, c), j)
        EXCEPT !.heap[i].kids = @ @@ (c :> j)]

Listed(u, i) == DOMAIN Ability(u, i).kids

(* Mutant of DropStale: who is not valid stays, if nothing is known to have *)
(* changed.                                                                 *)
DropStaleLate(u, i) ==
    FoldSeq(LAMBDA c, v : Removed(v, i, c), u,
            SetToSeq({c \in Listed(u, i) : c \in u.changed \/ c \notin u.inPlay}))

DropStale(u, i) ==
    FoldSeq(LAMBDA c, v : Removed(v, i, c), u,
            SetToSeq({c \in Listed(u, i) : c \in u.changed \/ ~CanBeInList(u, i, c)}))

UpdateTargets(u, i) ==
    LET kept == DropStale(u, i)
    IN FoldSeq(LAMBDA c, v : Added(v, i, c), kept,
               SetToSeq({c \in Creatures : CanBeInList(kept, i, c)} \ Listed(kept, i)))

----------------------------------------------------------------------------
(* ActionLayer::Update().                                                   *)

(* Instants end in the phase after the end of turn; what a wrapper holds    *)
(* has forceDestroy = -1.                                                   *)
TestDestroy(u, i, eot) ==
    LET a == Ability(u, i)
    IN IF a.kind \in Instants THEN eot
       ELSE ~a.forced /\ (a.source \notin u.inPlay \/ a.target \notin u.inPlay)

(* Only for a mutant: from the first to the last, though others move up.    *)
RECURSIVE SweepUp(_, _, _)
SweepUp(u, k, eot) ==
    LET i == u.mObjects[k]
    IN IF k > Len(u.mObjects) THEN u
       ELSE SweepUp(IF TestDestroy(u, i, eot) THEN RemoveObserver(u, i) ELSE u, k + 1, eot)

(* From the last to the first; the index is moved to the last one there is  *)
(* when others have gone.                                                   *)
RECURSIVE Sweep(_, _, _)
Sweep(u, k, eot) ==
    LET j == IF k > Len(u.mObjects) THEN Len(u.mObjects) ELSE k
        i == u.mObjects[j]
    IN IF j = 0 THEN u
       ELSE Sweep(IF TestDestroy(u, i, eot) THEN RemoveObserver(u, i) ELSE u, j - 1, eot)

(* APowerToughnessModifier::Update() of a bonus that is not static.         *)
Recount(u, i) ==
    LET c == Ability(u, i).target
    IN [u EXCEPT !.power[c] = @ - Ability(u, i).worth + WorthOf(u), !.heap[i].worth = WorthOf(u)]

(* Mutant of UpdateOne: a bonus is worth what it was.                       *)
UpdateOneStatic(u, i) == IF Ability(u, i).kind = "lord" THEN UpdateTargets(u, i) ELSE u

UpdateOne(u, i) ==
    CASE Ability(u, i).kind = "lord" -> UpdateTargets(u, i)
      [] Ability(u, i).kind = "pump" -> Recount(u, i)
      [] OTHER                       -> u

(* From the first to the last there is by then.                             *)
RECURSIVE UpdateFrom(_, _)
UpdateFrom(u, k) ==
    IF k > Len(u.mObjects) THEN u ELSE UpdateFrom(UpdateOne(u, u.mObjects[k]), k + 1)

(* Mutant of Update: it sweeps from the first to the last.                  *)
UpdateSweepingUp(u, eot) == UpdateFrom(SweepUp(u, 1, eot), 1)

Update(u, eot) == UpdateFrom(Sweep(u, Len(u.mObjects), eot), 1)

(* cleanGarbage().                                                          *)
CleanGarbage(u) ==
    [u EXCEPT !.heap = [x \in DOMAIN @ \ ToSet(u.garbage) |-> @[x]], !.garbage = <<>>]

----------------------------------------------------------------------------
Init ==
  /\ g = [heap |-> <<>>, mObjects |-> <<>>, garbage |-> <<>>, inPlay |-> {},
          member |-> Creatures, changed |-> {},
          flying |-> [c \in Creatures |-> FALSE], power |-> [c \in Creatures |-> 0]]
  /\ gone = {} /\ turn = 1 /\ tick = FALSE /\ acts = 0

Act == acts < MaxActs /\ acts' = acts + 1 /\ UNCHANGED <<turn, tick>>

(* A creature comes into play.                                              *)
CreatureEnters(c) ==
  /\ Act /\ c \notin g.inPlay \cup gone
  /\ g' = [g EXCEPT !.inPlay = @ \cup {c}]
  /\ UNCHANGED gone

(* A permanent with a lord resolves: AbilityFactory::magicText().           *)
LordEnters(l) ==
  /\ Act /\ l \notin g.inPlay \cup gone
  /\ LET u == [g EXCEPT !.inPlay = @ \cup {l}]
     IN g' = AddObserver(NewAbility(u, "lord", l, l), FreeAddress(u))
  /\ UNCHANGED gone

(* A card leaves play; its object does not come back.                       *)
Leaves(x) ==
  /\ Act /\ x \in g.inPlay
  /\ g' = [g EXCEPT !.inPlay = @ \ {x}]
  /\ gone' = gone \cup {x}

(* MTGCardInstance::addType() and removeType().                             *)
ChangeType(c) ==
  /\ Act /\ c \in CreaturesInPlay(g)
  /\ g' = [g EXCEPT !.member = SymDiff(@, {c}), !.changed = @ \cup {c}]
  /\ UNCHANGED gone

(* "gains flying until end of turn".                                        *)
GrantFlying(c) ==
  /\ Act /\ c \in CreaturesInPlay(g)
  /\ g' = AddFlag(NewAbility(g, "flagEOT", c, c), FreeAddress(g))
  /\ UNCHANGED gone

(* "+X/+X until end of turn", for one creature (PTInstant) or for all on    *)
(* the list of a lord that is used once.                                    *)
Pump(S) ==
  /\ Act /\ S # {} /\ S \subseteq CreaturesInPlay(g)
  /\ g' = FoldSeq(LAMBDA c, u : AddWrapped(u, c), g, SetToSeq(S))
  /\ UNCHANGED gone

(* GameObserver::Update(): the layers, then what depends on the state of    *)
(* the game.  While something waits on the stack a change stays marked, and *)
(* every frame takes the creature off the lists and puts it back; without a *)
(* change such a frame is a Frame.                                          *)
Frame ==
  /\ g' = [Update(g, FALSE) EXCEPT !.changed = {}]
  /\ tick' = ~tick
  /\ UNCHANGED <<gone, turn, acts>>

FrameWhileStackWaits ==
  /\ Act /\ g.changed # {}
  /\ g' = Update(g, FALSE)
  /\ UNCHANGED gone

(* nextGamePhase() from the end of one turn into the next.                  *)
NextTurn ==
  /\ turn < MaxTurns /\ turn' = turn + 1
  /\ g' = Update(CleanGarbage(Update(g, TRUE)), FALSE)
  /\ UNCHANGED <<gone, tick, acts>>

Next ==
  \/ \E c \in Creatures : CreatureEnters(c) \/ ChangeType(c) \/ GrantFlying(c) \/ Pump({c})
  \/ \E l \in Lords : LordEnters(l)
  \/ \E x \in Cards : Leaves(x)
  \/ Pump(CreaturesInPlay(g) \cap g.member)
  \/ Frame
  \/ FrameWhileStackWaits
  \/ NextTurn

(* A frame can come in every state, and the game draws frames for ever.     *)
Fairness == WF_tick(tick' = ~tick)

Spec == Init /\ [][Next]_vars /\ Fairness

----------------------------------------------------------------------------
InLayer(u, kinds) == {i \in ToSet(u.mObjects) : Ability(u, i).kind \in kinds}

TypeOK ==
  /\ \A i \in DOMAIN g.heap :
        /\ Ability(g, i).kind \in {"lord", "flag", "pump"} \cup Instants
        /\ Ability(g, i).source \in Cards /\ Ability(g, i).target \in Cards
        /\ Ability(g, i).forced \in BOOLEAN /\ Ability(g, i).saved \in BOOLEAN
        /\ Ability(g, i).worth \in Nat /\ Ability(g, i).child \in Nat
        /\ Listed(g, i) \subseteq Creatures
  /\ g.mObjects \in Seq(DOMAIN g.heap) /\ g.garbage \in Seq(DOMAIN g.heap)
  /\ g.inPlay \subseteq Cards /\ g.member \subseteq Creatures /\ g.changed \subseteq Creatures
  /\ g.flying \in [Creatures -> BOOLEAN] /\ g.power \in [Creatures -> Int]
  /\ gone \subseteq Cards \ g.inPlay /\ turn \in 1..MaxTurns
  /\ tick \in BOOLEAN /\ acts \in 0..MaxActs

(* Every ability that is not deleted is in the layer or in the garbage, and *)
(* there once; so none is deleted twice or lost.                            *)
EachOnce ==
  LET both == g.mObjects \o g.garbage
  IN Len(both) = Cardinality(DOMAIN g.heap) /\ ToSet(both) = DOMAIN g.heap

(* Every child of a lord or of a wrapper is that of one owner in the layer, *)
(* and it goes with it: outside Update() no owner points at what has gone   *)
(* and no child outlives its owner.                                         *)
OneOwner ==
  LET kidsOf(i) == {Ability(g, i).kids[c] : c \in Listed(g, i)} \cup ({Ability(g, i).child} \ {Nobody})
      owners == InLayer(g, {"lord", "wrapper"})
  IN /\ UNION {kidsOf(i) : i \in owners} = InLayer(g, {"flag", "pump"})
     /\ \A i, j \in owners : i # j => kidsOf(i) \cap kidsOf(j) = {}

(* The power a creature has gained is what the pumps in the layer are for:  *)
(* nothing stays of those that have gone, in whatever order they went.      *)
PowerIsSum ==
  \A c \in Creatures :
     g.power[c] = MapThenSumSet(LAMBDA i : Ability(g, i).worth,
                                {i \in InLayer(g, {"pump"}) : Ability(g, i).target = c})

(* What the layer holds and what the creatures have are two views of the    *)
(* same effects.                                                            *)
LayerSound == TypeOK /\ EachOnce /\ OneOwner /\ PowerIsSum

(* What lasts until the end of turn is not there in the next: the sweep     *)
(* from the last to the first, which takes two abilities away at a time,    *)
(* leaves none of them out.                                                 *)
InstantsEnd == [][turn' # turn => InLayer(g', Instants) = {}]_vars

(* Every lord is in play, its list is that of the creatures it is for, and  *)
(* what a pump is worth is up to date.                                      *)
Covered ==
  /\ \A i \in InLayer(g, {"lord"}) :
        /\ Ability(g, i).source \in g.inPlay
        /\ Listed(g, i) = {c \in Creatures : CanBeInList(g, i, c)}
  /\ \A i \in InLayer(g, {"pump"}) : Ability(g, i).worth = WorthOf(g)

(* The lords depend on each other (one gives what another one asks for),    *)
(* and each looks at the creatures once in a frame, in the order of the     *)
(* layer: when the players do nothing more, they come to agree.             *)
Settles == <>[]Covered

(* AllAbilities.h:1554 calls the flag's class "Instants that modifies a     *)
(* basic ability until end of turn".  A creature that does not fly by       *)
(* itself flies only while an ability in the layer makes it.                *)
FlightEnds ==
  \A c \in CreaturesInPlay(g) :
     g.flying[c] => \E i \in InLayer(g, {"flag", "flagEOT"}) : Ability(g, i).target = c
===============================================================================
