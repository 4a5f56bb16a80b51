----------------------------- MODULE TurnEngine -----------------------------
(***************************************************************************)
(* The turn engine of the duel: GameObserver's phase and combat-step       *)
(* machine, the default PhaseRing, the event queue of                      *)
(* GameObserver::receiveEvent, and GuiCombat, the listener that drives the *)
(* combat steps and keeps its own view of attackers and blockers.          *)
(*                                                                         *)
(* The C++ code is single threaded but re-entrant: a listener called by    *)
(* the loop of receiveEvent calls nextCombatStep or                        *)
(* userRequestNextGamePhase again, whose own events are then queued behind *)
(* the one being handled instead of being delivered at once.  The variable *)
(* calls is that C++ call stack: the calls still to be made, next first.   *)
(* Nothing from outside (a player, the stack) happens while it is not      *)
(* empty.                                                                  *)
(***************************************************************************)
EXTENDS Integers, Sequences, FiniteSets, SequencesExt

CONSTANTS
  Creature,      \* the creatures of the game
  Owner,         \* Owner[c]: the player who controls creature c
  Strike,        \* Strike[c]: "normal", "first" or "double" strike
  Trample,       \* the creatures with trample
  AI,            \* the players for whom displayStack() returns 0
  StartPhase,    \* the phase the rules file starts the game in
  MaxMod,        \* bound on extraTurn and skippingTurn of a player
  NoCard         \* the null card pointer

Players == 0..1

ASSUME CreatureAssumption ==
  /\ NoCard \notin Creature /\ IsFiniteSet(Creature)
  /\ Owner \in [Creature -> Players]
  /\ Strike \in [Creature -> {"normal", "first", "double"}]
  /\ Trample \subseteq Creature

(* The phases of MTGDefinitions.h, in the order of the default ring.       *)
BEFORE_BEGIN    == 0
UNTAP           == 1
COMBATBEGIN     == 5
COMBATATTACKERS == 6
COMBATBLOCKERS  == 7
COMBATDAMAGE    == 8
COMBATEND       == 9
CLEANUP         == 12
AFTER_EOT       == 13
Phase           == BEFORE_BEGIN..AFTER_EOT

(* The rules files, puzzles and tests start a game in phases from untap on *)
(* (none in the combat damage phase, whose first step would be missing).   *)
ASSUME GameAssumption ==
  /\ AI \subseteq Players
  /\ StartPhase \in (UNTAP..CLEANUP) \ {COMBATDAMAGE}
  /\ MaxMod \in Nat

CombatStep == {"BLOCKERS", "TRIGGERS", "ORDER", "FIRST_STRIKE",
               "END_FIRST_STRIKE", "DAMAGE", "END_DAMAGE"}

VARIABLES
  phase,             \* id of *phaseRing->current
  ringOwner,         \* the player whose gameTurn list is phaseRing->turn
  currentGamePhase,
  combatStep,
  currentPlayer,
  extraTurn,
  skippingTurn,
  eventsQueue,
  calls,
  inPlay,            \* the creatures on the battlefield
  attacker,          \* the creatures whose attacker flag is set
  defenser,          \* defenser[b]: the creature b blocks, or NoCard
  blockers,          \* blockers[a]: the list of blockers kept on card a
  blocked,           \* the creatures whose blocked flag is set
  guiStep,           \* GuiCombat::step
  cursor,            \* GuiCombat::cursor_pos
  activeAtk,         \* GuiCombat::activeAtk
  view,              \* GuiCombat::attackers
  viewBlk,           \* viewBlk[a]: the blockers of the view of a
  show,              \* the views of attackers the damage screen shows
  damages,           \* <<s, t>>: the view of t holds damage from s
  strikes            \* history: the damage steps resolved in this combat

turnVars == <<phase, ringOwner, currentGamePhase, currentPlayer, extraTurn, skippingTurn>>
cardVars == <<inPlay, attacker, defenser, blockers, blocked>>
guiVars  == <<guiStep, cursor, activeAtk, view, viewBlk, show, damages>>
vars == <<turnVars, combatStep, eventsQueue, calls, cardVars, guiVars, strikes>>

-----------------------------------------------------------------------------
(* Events (WEvent.h), restricted to those a modelled listener reacts to.   *)

Event ==
  [type : {"AttackersChosen", "BlockersChosen"}]
    \cup [type : {"PhaseChange"}, from : Phase, to : Phase]
    \cup [type : {"CombatStepChange"}, step : CombatStep]
    \cup [type : {"AttackerOn", "AttackerOff", "ZoneChange"}, card : Creature]
    \cup [type : {"Blocker"}, card : Creature, before : Creature \cup {NoCard},
          after : Creature \cup {NoCard}]
    \cup [type : {"DamageStackResolved"}, hit : SUBSET Creature]

Call ==
  [op : {"drain", "pop", "nextGamePhase", "forward", "enterPhase",
         "phaseActions", "nextCombatStep", "triggersStep"}]
    \cup [op : {"skipCombat"}, old : Phase]

Do(op) == [op |-> op]

TypeOK ==
  /\ phase \in Phase /\ currentGamePhase \in Phase
  /\ ringOwner \in Players /\ currentPlayer \in Players
  /\ combatStep \in CombatStep
  /\ extraTurn \in [Players -> Nat] /\ skippingTurn \in [Players -> Nat]
  /\ eventsQueue \in Seq(Event)
  /\ calls \in Seq(Call)
  /\ inPlay \subseteq Creature /\ attacker \subseteq Creature /\ blocked \subseteq Creature
  /\ defenser \in [Creature -> Creature \cup {NoCard}]
  /\ blockers \in [Creature -> SUBSET Creature]
  /\ guiStep \in CombatStep
  /\ cursor \in {"NONE", "ATK", "BLK", "OK"}
  /\ activeAtk \in Creature \cup {NoCard}
  /\ view \subseteq Creature
  /\ viewBlk \in [Creature -> SUBSET Creature]
  /\ show \subseteq Creature
  /\ damages \subseteq (Creature \X Creature)
  /\ strikes \in Seq(CombatStep)

Idle == calls = <<>>

Init ==
  /\ phase = StartPhase /\ currentGamePhase = StartPhase
  /\ combatStep = "BLOCKERS"
  /\ currentPlayer \in Players
  /\ ringOwner = 0
  /\ extraTurn = [p \in Players |-> 0] /\ skippingTurn = [p \in Players |-> 0]
  /\ eventsQueue = <<>> /\ calls = <<>>
  /\ inPlay \in SUBSET Creature
  /\ attacker = {} /\ blocked = {}
  /\ defenser = [c \in Creature |-> NoCard]
  /\ blockers = [c \in Creature |-> {}]
  /\ guiStep = "DAMAGE" /\ cursor = "NONE" /\ activeAtk = NoCard
  /\ view = {} /\ viewBlk = [c \in Creature |-> {}]
  /\ show = {} /\ damages = {}
  /\ strikes = <<>>

(* receiveEvent: the events es are queued; only the outermost call, the    *)
(* one that finds the queue empty, goes on to drain it.  k is what the     *)
(* caller does next.  The events raised together have handlers that raise  *)
(* nothing themselves, so delivering them one by one is the same.          *)
Raise(es, k) ==
  /\ eventsQueue' = eventsQueue \o es
  /\ calls' = (IF eventsQueue = <<>> /\ es # <<>> THEN <<Do("drain")>> ELSE <<>>) \o k

Opponent(p)   == 1 - p
Return(op)    == calls # <<>> /\ Head(calls).op = op
Rest          == Tail(calls)
Then(ops)     == calls' = ops \o Rest
Events(S)     == SetToSeq(S)
Strikes(c, s) ==
  IF s \in {"FIRST_STRIKE", "END_FIRST_STRIKE"}
  THEN Strike[c] \in {"first", "double"}
  ELSE Strike[c] \in {"normal", "double"}

-----------------------------------------------------------------------------
(* GameObserver: turns and phases.                                         *)

(* nextTurnsPlayer(): who PhaseRing::nextTurn() builds the next ring for.  *)
nextTurnsPlayer ==
  IF skippingTurn[currentPlayer] # 0 \/ extraTurn[currentPlayer] = 0
  THEN Opponent(currentPlayer)
  ELSE currentPlayer

(* Mutants of nextPlayer: extra turns are never used up, or are taken from *)
(* the player who has none too.                                            *)
PassTo(p, used) ==
  LET skips == skippingTurn[p] # 0
  IN /\ extraTurn' = [extraTurn EXCEPT ![currentPlayer] = @ - used]
     /\ skippingTurn' = IF skips THEN [skippingTurn EXCEPT ![p] = @ - 1] ELSE skippingTurn
     /\ currentPlayer' = IF skips THEN Opponent(p) ELSE p
     /\ combatStep' = "BLOCKERS"

ExtraTurnKept   == PassTo(nextTurnsPlayer, 0)
ExtraTurnForced == PassTo(nextTurnsPlayer, 1)

(* nextPlayer(), called with the rest of the AFTER_EOT branch; the turn    *)
(* number, only a label, is left out.                                      *)
nextPlayer ==
  LET again == extraTurn[currentPlayer] # 0
      p     == IF again THEN currentPlayer ELSE Opponent(currentPlayer)
      skips == skippingTurn[p] # 0
  IN /\ extraTurn' = IF again THEN [extraTurn EXCEPT ![currentPlayer] = @ - 1] ELSE extraTurn
     /\ skippingTurn' = IF skips THEN [skippingTurn EXCEPT ![p] = @ - 1] ELSE skippingTurn
     /\ currentPlayer' = IF skips THEN Opponent(p) ELSE p
     /\ combatStep' = "BLOCKERS"

(* nextGamePhase() up to the first forward(): in the middle of a combat    *)
(* phase the request only moves to the next combat step.                   *)
NextGamePhase ==
  /\ Return("nextGamePhase")
  /\ IF \/ /\ phase = COMBATDAMAGE
           /\ combatStep \in {"FIRST_STRIKE", "END_FIRST_STRIKE", "DAMAGE"}
        \/ phase = COMBATBLOCKERS /\ combatStep \in {"BLOCKERS", "TRIGGERS"}
     THEN Then(<<Do("nextCombatStep")>>)
     ELSE Then(<<Do("forward"), [op |-> "skipCombat", old |-> phase], Do("enterPhase")>>)
  /\ UNCHANGED <<turnVars, combatStep, eventsQueue, cardVars, guiVars, strikes>>

(* PhaseRing::forward() on the default ring: at the end of the list the    *)
(* next one is fetched; then the phase change is announced.                *)
Forward ==
  /\ Return("forward")
  /\ phase' = IF phase = AFTER_EOT THEN BEFORE_BEGIN ELSE phase + 1
  /\ ringOwner' = IF phase = AFTER_EOT THEN nextTurnsPlayer ELSE ringOwner
  /\ Raise(<<[type |-> "PhaseChange", from |-> phase, to |-> phase']>>, Rest)
  /\ strikes' = IF phase' = COMBATBEGIN THEN <<>> ELSE strikes
  /\ UNCHANGED <<currentGamePhase, currentPlayer, extraTurn, skippingTurn,
                 combatStep, cardVars, guiVars>>

(* "Go directly to end of combat if no attackers".                         *)
SkipCombat ==
  /\ Return("skipCombat")
  /\ IF /\ Head(calls).old = COMBATATTACKERS
        /\ ~ \E c \in inPlay \cap attacker : Owner[c] = currentPlayer
     THEN Then(<<Do("forward"), Do("forward")>>)
     ELSE Then(<<>>)
  /\ UNCHANGED <<turnVars, combatStep, eventsQueue, cardVars, guiVars, strikes>>

(* Mutant of EnterPhase: the damage phase does not start its first step.   *)
EnterWithoutStep ==
  /\ Return("enterPhase")
  /\ currentGamePhase' = phase
  /\ Then(<<Do("phaseActions")>>)
  /\ UNCHANGED <<phase, ringOwner, currentPlayer, extraTurn, skippingTurn,
                 combatStep, eventsQueue, cardVars, guiVars, strikes>>

EnterPhase ==
  /\ Return("enterPhase")
  /\ currentGamePhase' = phase
  /\ Then((IF phase = COMBATDAMAGE THEN <<Do("nextCombatStep")>> ELSE <<>>)
          \o <<Do("phaseActions")>>)
  /\ UNCHANGED <<phase, ringOwner, currentPlayer, extraTurn, skippingTurn,
                 combatStep, eventsQueue, cardVars, guiVars, strikes>>

-----------------------------------------------------------------------------
(* MTGCardInstance: the attack and block flags.                            *)

(* Mutant of Unblocks: the phase is not looked at.                         *)
UnblocksAlways == TRUE

(* removeBlocker() takes the blocked mark back when the list of blockers   *)
(* empties in the blockers phase, where the player takes a block back, and *)
(* not in the damage phase.                                                *)
Unblocks == currentGamePhase = COMBATBLOCKERS

(* Mutant of Freed: setDefenser() does not tell the attacker.              *)
FreedNone(C, a) == {}

(* setDefenser(): who of C is taken off the list of a.                     *)
Freed(C, a) == {b \in C : defenser[b] = a}

(* initAttackersDefensers() on the creatures of C (they leave the combat), *)
(* while those of D leave play: what returns later is another instance,    *)
(* and the list of a creature that D blocked keeps the dead blocker.       *)
LeaveCombat(C, D) ==
  LET Out     == C \cup D
      left(a) == IF a \in inPlay THEN blockers[a] \ Freed(C, a) ELSE blockers[a]
  IN /\ attacker' = attacker \ Out
     /\ defenser' = [b \in Creature |-> IF b \in Out THEN NoCard ELSE defenser[b]]
     /\ blockers' = [a \in Creature |-> IF a \in Out THEN {} ELSE left(a)]
     /\ blocked'  = {a \in blocked \ Out : a \in inPlay /\ Freed(C, a) # {} /\ left(a) = {}
                                            => ~ Unblocks}
     /\ inPlay'   = inPlay \ D

(* Mutant of LeaveEvents: setDefenser() raises no event.                   *)
LeaveSilently(C, D) ==
  {[type |-> "AttackerOff", card |-> c] : c \in C \cap attacker}
    \cup {[type |-> "ZoneChange", card |-> c] : c \in D}

LeaveEvents(C, D) ==
  {[type |-> "AttackerOff", card |-> c] : c \in C \cap attacker}
    \cup {[type |-> "Blocker", card |-> b, before |-> defenser[b], after |-> NoCard]
            : b \in {c \in C : defenser[c] # NoCard}}
    \cup {[type |-> "ZoneChange", card |-> c] : c \in D}

(* The rest of nextGamePhase(), which reads currentGamePhase again: the    *)
(* combat damage it may have started can have moved the game on.           *)
PhaseActions ==
  /\ Return("phaseActions")
  /\ CASE currentGamePhase = COMBATEND ->
            /\ combatStep' = "BLOCKERS"
            /\ Then(<<>>)
            /\ UNCHANGED <<currentPlayer, extraTurn, skippingTurn, eventsQueue, cardVars>>
       [] currentGamePhase = BEFORE_BEGIN ->
            /\ combatStep' = "BLOCKERS"
            /\ LeaveCombat(inPlay, {})
            /\ Raise(Events(LeaveEvents(inPlay, {})), <<Do("nextGamePhase")>> \o Rest)
            /\ UNCHANGED <<currentPlayer, extraTurn, skippingTurn>>
       [] currentGamePhase = AFTER_EOT ->
            /\ nextPlayer
            /\ Then(<<Do("nextGamePhase")>>)
            /\ UNCHANGED <<eventsQueue, cardVars>>
       [] currentGamePhase = COMBATBLOCKERS ->
            /\ Raise(<<[type |-> "AttackersChosen"]>>, Rest)
            /\ UNCHANGED <<currentPlayer, extraTurn, skippingTurn, combatStep, cardVars>>
       [] OTHER ->
            /\ Then(<<>>)
            /\ UNCHANGED <<currentPlayer, extraTurn, skippingTurn, combatStep,
                           eventsQueue, cardVars>>
  /\ UNCHANGED <<phase, ringOwner, currentGamePhase, guiVars, strikes>>

-----------------------------------------------------------------------------
(* GameObserver::nextCombatStep().                                         *)

(* Mutants of StepAfter: a step of the damage is skipped.                  *)
StepsWithoutFirst ==
  [TRIGGERS |-> "ORDER", ORDER |-> "DAMAGE", FIRST_STRIKE |-> "END_FIRST_STRIKE",
   END_FIRST_STRIKE |-> "DAMAGE", DAMAGE |-> "END_DAMAGE"]
StepsWithoutDamage ==
  [TRIGGERS |-> "ORDER", ORDER |-> "FIRST_STRIKE", FIRST_STRIKE |-> "END_FIRST_STRIKE",
   END_FIRST_STRIKE |-> "END_DAMAGE", DAMAGE |-> "END_DAMAGE"]

StepAfter ==
  [TRIGGERS |-> "ORDER", ORDER |-> "FIRST_STRIKE", FIRST_STRIKE |-> "END_FIRST_STRIKE",
   END_FIRST_STRIKE |-> "DAMAGE", DAMAGE |-> "END_DAMAGE"]

NextCombatStep ==
  /\ Return("nextCombatStep")
  /\ CASE combatStep = "BLOCKERS" ->
            /\ Raise(<<[type |-> "BlockersChosen"]>>, <<Do("triggersStep")>> \o Rest)
            /\ UNCHANGED combatStep
       [] combatStep = "END_DAMAGE" ->
            /\ Then(<<>>)
            /\ UNCHANGED <<combatStep, eventsQueue>>
       [] OTHER ->
            /\ combatStep' = StepAfter[combatStep]
            /\ Raise(<<[type |-> "CombatStepChange", step |-> combatStep']>>, Rest)
  /\ UNCHANGED <<turnVars, cardVars, guiVars, strikes>>

TriggersStep ==
  /\ Return("triggersStep")
  /\ combatStep' = "TRIGGERS"
  /\ Raise(<<[type |-> "CombatStepChange", step |-> "TRIGGERS"]>>, Rest)
  /\ UNCHANGED <<turnVars, cardVars, guiVars, strikes>>

-----------------------------------------------------------------------------
(* receiveEvent's loop: the front event is handed to every listener and    *)
(* then popped; what the listeners raised meanwhile waits behind it.       *)

Delivering(type) ==
  Return("drain") /\ eventsQueue # <<>> /\ Head(eventsQueue).type = type
Delivery       == Head(eventsQueue)
Delivered(ops) == calls' = ops \o <<Do("pop")>> \o Rest

(* Mutant of Pop: the event handled stays in front.                        *)
PopNothing ==
  /\ Return("pop")
  /\ calls' = (IF eventsQueue = <<>> THEN <<>> ELSE <<Do("drain")>>) \o Rest
  /\ UNCHANGED <<turnVars, combatStep, eventsQueue, cardVars, guiVars, strikes>>

Pop ==
  /\ Return("pop")
  /\ eventsQueue' = Tail(eventsQueue)
  /\ calls' = (IF eventsQueue' = <<>> THEN <<>> ELSE <<Do("drain")>>) \o Rest
  /\ UNCHANGED <<turnVars, combatStep, cardVars, guiVars, strikes>>

(* Events no modelled listener changes state on: the combat triggers rule  *)
(* only raises events for abilities.                                       *)
OnChosen ==
  /\ Delivering("AttackersChosen") \/ Delivering("BlockersChosen")
  /\ Delivered(<<>>)
  /\ UNCHANGED <<turnVars, combatStep, eventsQueue, cardVars, guiVars, strikes>>

(* The view of attacker c goes, with the views of its blockers.            *)
DropAttacker(c) ==
  /\ view' = view \ {c}
  /\ viewBlk' = [viewBlk EXCEPT ![c] = {}]
  /\ show' = show \ {c}
  /\ damages' = {d \in damages : d[2] # c /\ d[2] \notin viewBlk[c]}

(* The view of blocker b of a goes; damage b deals to a stays assigned.    *)
DropBlocker(b, a) ==
  /\ viewBlk' = [viewBlk EXCEPT ![a] = @ \ {b}]
  /\ damages' = {d \in damages : d[2] # b}

OnAttackerOn ==
  /\ Delivering("AttackerOn")
  /\ view' = view \cup {Delivery.card}
  /\ viewBlk' = [viewBlk EXCEPT ![Delivery.card] = {}]
  /\ Delivered(<<>>)
  /\ UNCHANGED <<turnVars, combatStep, eventsQueue, cardVars, guiStep, cursor,
                 activeAtk, show, damages, strikes>>

(* activeAtk is not reset here.                                            *)
OnAttackerOff ==
  /\ Delivering("AttackerOff")
  /\ IF Delivery.card \in view
     THEN DropAttacker(Delivery.card)
     ELSE UNCHANGED <<view, viewBlk, show, damages>>
  /\ Delivered(<<>>)
  /\ UNCHANGED <<turnVars, combatStep, eventsQueue, cardVars, guiStep, cursor,
                 activeAtk, strikes>>

OnBlocker ==
  /\ Delivering("Blocker")
  /\ LET b       == Delivery.card
         added   == IF Delivery.after \in view
                    THEN [viewBlk EXCEPT ![Delivery.after] = @ \cup {b}] ELSE viewBlk
         shown   == Delivery.before \in view /\ b \in added[Delivery.before]
     IN IF shown
        THEN /\ viewBlk' = [added EXCEPT ![Delivery.before] = @ \ {b}]
             /\ damages' = {d \in damages : d[2] # b}
        ELSE viewBlk' = added /\ UNCHANGED damages
  /\ Delivered(<<>>)
  /\ UNCHANGED <<turnVars, combatStep, eventsQueue, cardVars, guiStep, cursor,
                 activeAtk, view, show, strikes>>

OnZoneChange ==
  /\ Delivering("ZoneChange")
  /\ LET c == Delivery.card
     IN \/ /\ c \in view
           /\ DropAttacker(c)
           /\ activeAtk' = IF activeAtk = c THEN NoCard ELSE activeAtk
        \/ /\ c \notin view
           /\ \E a \in view : c \in viewBlk[a] /\ DropBlocker(c, a)
           /\ UNCHANGED <<view, show, activeAtk>>
        \/ /\ c \notin view /\ \A a \in view : c \notin viewBlk[a]
           /\ UNCHANGED <<view, viewBlk, show, damages, activeAtk>>
  /\ Delivered(<<>>)
  /\ UNCHANGED <<turnVars, combatStep, eventsQueue, cardVars, guiStep, cursor, strikes>>

(* Leaving the attackers phase, MTGAttackRule makes the creatures that     *)
(* must attack (forced) attack, and drops those found tapped; the events   *)
(* of setAttacker() come after this one.                                   *)
OnPhaseChange ==
  /\ Delivering("PhaseChange")
  /\ IF Delivery.from = COMBATATTACKERS
     THEN LET own == {c \in inPlay : Owner[c] = currentPlayer}
          IN \E forced \in SUBSET (own \ attacker), tapped \in SUBSET (own \cap attacker) :
               /\ attacker' = (attacker \cup forced) \ tapped
               /\ eventsQueue' = eventsQueue
                    \o Events({[type |-> "AttackerOn", card |-> c] : c \in forced})
                    \o Events({[type |-> "AttackerOff", card |-> c] : c \in tapped})
     ELSE UNCHANGED <<attacker, eventsQueue>>
  /\ IF Delivery.to = COMBATDAMAGE
     THEN guiStep' = "BLOCKERS" /\ UNCHANGED cursor
     ELSE cursor' = "NONE" /\ UNCHANGED guiStep
  /\ Delivered(<<>>)
  /\ UNCHANGED <<turnVars, combatStep, inPlay, defenser, blockers, blocked,
                 activeAtk, view, viewBlk, show, damages, strikes>>

-----------------------------------------------------------------------------
(* GuiCombat::receiveEventMinus on a combat step change.                   *)

(* What autoaffectDamage() assigns for step s over all views.  Amounts are *)
(* left out: power and toughness are taken to be positive, so that a       *)
(* striker deals damage to each creature it faces.                         *)
Assignment(s) ==
  UNION {{<<a, b>> : b \in {x \in viewBlk[a] : Strikes(a, s)}}
           \cup {<<b, a>> : b \in {x \in viewBlk[a] : Strikes(x, s)}} : a \in view}

Stepping(step) == Delivering("CombatStepChange") /\ Delivery.step = step
AITurn         == currentPlayer \in AI

(* Mutant of ToAssign: the blockers are not counted.                       *)
ToAssignStrikers(s) == {a \in view : Strikes(a, s)}

(* The attackers shown when damage is assigned: there is a choice to make  *)
(* among several blockers, or between one and the player for a trampler.   *)
ToAssign(s) ==
  {a \in view : /\ Strikes(a, s)
                /\ Cardinality(viewBlk[a]) > IF a \in Trample THEN 0 ELSE 1}

(* The damage screen comes up on some shown attacker.                      *)
OpenScreen ==
  /\ activeAtk' \in show'
  /\ cursor' = "ATK"

OnTriggers ==
  /\ Stepping("TRIGGERS")
  /\ guiStep' = "TRIGGERS"
  /\ Delivered(<<>>)
  /\ UNCHANGED <<cursor, activeAtk, show, damages, strikes>>

(* The attacking player orders the blockers of creatures blocked by many;  *)
(* for the AI the step is passed at once, inside this very delivery.       *)
OnOrder ==
  /\ Stepping("ORDER")
  /\ \/ /\ guiStep = "ORDER"
        /\ Delivered(<<>>)
        /\ UNCHANGED <<guiStep, cursor, activeAtk, show, damages>>
     \/ /\ guiStep # "ORDER" /\ AITurn
        /\ Delivered(<<Do("nextCombatStep")>>)
        /\ UNCHANGED <<guiStep, cursor, activeAtk, show, damages>>
     \/ /\ guiStep # "ORDER" /\ ~ AITurn
        /\ show' = {a \in view : Cardinality(viewBlk[a]) > 1}
        /\ damages' = Assignment("DAMAGE")
        /\ IF show' # {}
           THEN OpenScreen /\ guiStep' = "ORDER" /\ Delivered(<<>>)
           ELSE /\ activeAtk' = NoCard
                /\ Delivered(<<Do("nextGamePhase")>>)
                /\ UNCHANGED <<guiStep, cursor>>
  /\ UNCHANGED strikes

(* The code both DAMAGE and FIRST_STRIKE end up in.                        *)
AssignDamage(s) ==
  /\ guiStep' = s
  /\ damages' = Assignment(s)
  /\ IF AITurn
     THEN /\ Delivered(<<Do("nextGamePhase")>>)
          /\ UNCHANGED <<cursor, activeAtk, show>>
     ELSE /\ show' = ToAssign(s)
          /\ IF show' # {}
             THEN OpenScreen /\ Delivered(<<>>)
             ELSE /\ activeAtk' = NoCard
                  /\ Delivered(<<Do("nextCombatStep")>>)
                  /\ UNCHANGED cursor
  /\ UNCHANGED strikes

OnFirstStrike ==
  /\ Stepping("FIRST_STRIKE")
  /\ IF \E a \in view : Strike[a] \in {"first", "double"}
     THEN AssignDamage("FIRST_STRIKE")
     ELSE /\ guiStep' = "FIRST_STRIKE"
          /\ Delivered(<<Do("nextCombatStep")>>)
          /\ UNCHANGED <<cursor, activeAtk, show, damages, strikes>>

OnDamage == Stepping("DAMAGE") /\ AssignDamage("DAMAGE")

(* resolve(): the damage of assigned, and that of the unblocked attackers  *)
(* and of the tramplers nobody faces any more, which goes to the player,   *)
(* is put on the stack and resolved at once; what follows from it waits    *)
(* for the damage-stack event.  If there was none, otherwise is called.    *)
Free(s) ==
  {a \in view : Strikes(a, s) /\ viewBlk[a] = {} /\ (a \notin blocked \/ a \in Trample)}

ResolveDamage(s, assigned, otherwise) ==
  /\ guiStep' = s
  /\ damages' = assigned
  /\ strikes' = Append(strikes, s)
  /\ IF assigned = {} /\ Free(s) = {}
     THEN Delivered(<<Do(otherwise)>>) /\ UNCHANGED eventsQueue
     ELSE /\ Delivered(<<>>)
          /\ eventsQueue' = Append(eventsQueue,
               [type |-> "DamageStackResolved", hit |-> {d[2] : d \in assigned}])
  /\ UNCHANGED <<cursor, activeAtk, show>>

OnEndFirstStrike ==
  /\ Stepping("END_FIRST_STRIKE")
  /\ ResolveDamage("END_FIRST_STRIKE", Assignment("FIRST_STRIKE"), "nextCombatStep")

OnEndDamage ==
  /\ Stepping("END_DAMAGE")
  /\ ResolveDamage("END_DAMAGE", damages, "nextGamePhase")

OnCombatStepChange ==
  /\ \/ (OnTriggers \/ OnOrder \/ OnFirstStrike \/ OnDamage) /\ UNCHANGED eventsQueue
     \/ OnEndFirstStrike \/ OnEndDamage
  /\ UNCHANGED <<turnVars, combatStep, cardVars, view, viewBlk>>

(* DamageStack::receiveEvent -> afterDamage() on every creature hit: some  *)
(* survive, some are destroyed, and some of these regenerate instead.      *)
OnDamageStackResolved ==
  /\ Delivering("DamageStackResolved")
  /\ \E dead \in SUBSET (Delivery.hit \cap inPlay) :
       \E saved \in SUBSET ((Delivery.hit \cap inPlay) \ dead) :
         /\ LeaveCombat(saved, dead)
         /\ eventsQueue' = eventsQueue \o Events(LeaveEvents(saved, dead))
  /\ Delivered(<<>>)
  /\ UNCHANGED <<turnVars, combatStep, guiVars, strikes>>

Engine ==
  \/ NextGamePhase \/ Forward \/ SkipCombat \/ EnterPhase \/ PhaseActions
  \/ NextCombatStep \/ TriggersStep
  \/ Pop \/ OnChosen \/ OnAttackerOn \/ OnAttackerOff \/ OnBlocker \/ OnZoneChange
  \/ OnPhaseChange \/ OnCombatStepChange \/ OnDamageStackResolved

-----------------------------------------------------------------------------
(* What reaches the engine from outside, between two calls.                *)

(* The stack is empty while blockers are ordered, and the player who could *)
(* act orders them; but objects resolve while the screen asks for damage.  *)
MayResolve == Idle /\ (cursor = "NONE" \/ currentGamePhase = COMBATDAMAGE)

(* The automatic skip of the damage phase does not look at the screen.     *)
SkipsScreen == currentGamePhase = COMBATDAMAGE /\ Opponent(currentPlayer) \in AI

(* A player, the AI, an automatic skip or a NextGamePhase that comes off   *)
(* the stack asks for the next phase; the damage screen swallows the key.  *)
Request ==
  /\ Idle /\ (cursor = "NONE" \/ SkipsScreen)
  /\ calls' = <<Do("nextGamePhase")>>
  /\ UNCHANGED <<turnVars, combatStep, eventsQueue, cardVars, guiVars, strikes>>

(* toggleAttacker() through MTGAttackRule.                                 *)
ToggleAttacker(c) ==
  /\ Idle /\ cursor = "NONE" /\ currentGamePhase = COMBATATTACKERS
  /\ c \in inPlay /\ Owner[c] = currentPlayer
  /\ attacker' = IF c \in attacker THEN attacker \ {c} ELSE attacker \cup {c}
  /\ Raise(<<[type |-> IF c \in attacker THEN "AttackerOff" ELSE "AttackerOn", card |-> c]>>, <<>>)
  /\ UNCHANGED <<turnVars, combatStep, inPlay, defenser, blockers, blocked, guiVars, strikes>>

(* setDefenser(a) through MTGBlockRule, which asks for the blockers phase; *)
(* the opponent acts there only while combatStep is BLOCKERS.              *)
ToggleBlocker(b, a) ==
  /\ Idle /\ cursor = "NONE" /\ currentGamePhase = COMBATBLOCKERS /\ combatStep = "BLOCKERS"
  /\ b \in inPlay /\ Owner[b] # currentPlayer /\ defenser[b] # a
  /\ a \in (inPlay \cap attacker) \cup {NoCard}
  /\ LET old == defenser[b]
     IN /\ defenser' = [defenser EXCEPT ![b] = a]
        /\ blockers' = [c \in Creature |->
                           IF c = a THEN blockers[c] \cup {b}
                           ELSE IF c = old /\ c \in inPlay THEN blockers[c] \ {b} ELSE blockers[c]]
        /\ blocked' = (blocked \ (IF old \in inPlay /\ blockers[old] = {b} THEN {old} ELSE {}))
                       \cup ({a} \ {NoCard})
        /\ Raise(<<[type |-> "Blocker", card |-> b, before |-> old, after |-> a]>>, <<>>)
  /\ UNCHANGED <<turnVars, combatStep, inPlay, attacker, guiVars, strikes>>

(* A spell or an ability, between two requests: a creature leaves the      *)
(* combat (it regenerates, it phases out), leaves play, or enters play as  *)
(* a new instance (its name is free once nothing refers to the old one).   *)
Affect(C, D) ==
  /\ MayResolve
  /\ LeaveCombat(C, D)
  /\ Raise(Events(LeaveEvents(C, D)), <<>>)
  /\ UNCHANGED <<turnVars, combatStep, guiVars, strikes>>

RemoveFromCombat(c) ==
  c \in inPlay /\ (c \in attacker \/ defenser[c] # NoCard) /\ Affect({c}, {})

LeavePlay(c) == c \in inPlay /\ Affect({}, {c})

EnterPlay(c) ==
  /\ MayResolve
  /\ c \notin inPlay /\ \A d \in Creature : defenser[d] # c /\ c \notin blockers[d]
  /\ \A d \in damages : c # d[1] /\ c # d[2]
  /\ inPlay' = inPlay \cup {c}
  /\ UNCHANGED <<turnVars, combatStep, eventsQueue, calls, attacker, defenser, blockers,
                 blocked, guiVars, strikes>>

(* AAModTurn::resolve(): extra turns and turns to skip.                    *)
ModTurn(p) ==
  /\ MayResolve
  /\ \/ /\ extraTurn[p] < MaxMod
        /\ extraTurn' = [extraTurn EXCEPT ![p] = @ + 1] /\ UNCHANGED skippingTurn
     \/ /\ skippingTurn[p] < MaxMod
        /\ skippingTurn' = [skippingTurn EXCEPT ![p] = @ + 1] /\ UNCHANGED extraTurn
  /\ UNCHANGED <<phase, ringOwner, currentGamePhase, currentPlayer, combatStep, eventsQueue,
                 calls, cardVars, guiVars, strikes>>

-----------------------------------------------------------------------------
(* GuiCombat::CheckUserInput: the damage screen.                           *)

(* The view of the attacker the cursor is on is still there.               *)
OnView == cursor \in {"ATK", "BLK"} => activeAtk \in view

(* LEFT and RIGHT move between the attackers shown and the OK button, OK   *)
(* and CANCEL between an attacker and its blockers; PRI goes to the button *)
(* from anywhere.  LEFT on the button finds no attacker when none is shown *)
(* any more.  A key that reads a view that is gone, or the first blocker   *)
(* of none, is undefined and not followed.                                 *)
MoveCursor ==
  /\ Idle
  /\ \/ /\ cursor \in {"ATK", "OK"} /\ OnView /\ cursor' = "ATK"
        /\ activeAtk' \in IF show = {} THEN {NoCard} ELSE show
     \/ /\ cursor = "ATK" /\ OnView /\ viewBlk[activeAtk] # {}
        /\ cursor' = "BLK" /\ UNCHANGED activeAtk
     \/ cursor = "BLK" /\ OnView /\ cursor' = "ATK" /\ UNCHANGED activeAtk
     \/ cursor \in {"ATK", "BLK"} /\ cursor' = "OK" /\ activeAtk' = NoCard
  /\ UNCHANGED <<turnVars, combatStep, eventsQueue, calls, cardVars, guiStep,
                 view, viewBlk, show, damages, strikes>>

(* clickOK(): the screen closes.  Once the order is confirmed the next     *)
(* phase is requested through the stack (a later Request), once the damage *)
(* is confirmed at once, and after a first strike screen not at all.       *)
ClickOK ==
  /\ Idle /\ cursor = "OK"
  /\ cursor' = "NONE" /\ activeAtk' = NoCard
  /\ calls' = IF guiStep = "DAMAGE" THEN <<Do("nextGamePhase")>> ELSE <<>>
  /\ UNCHANGED <<turnVars, combatStep, eventsQueue, cardVars, guiStep,
                 view, viewBlk, show, damages, strikes>>

Environment ==
  \/ Request \/ MoveCursor \/ ClickOK
  \/ \E c \in Creature : \/ ToggleAttacker(c) \/ RemoveFromCombat(c)
                          \/ LeavePlay(c) \/ EnterPlay(c)
  \/ \E b \in Creature, a \in Creature \cup {NoCard} : ToggleBlocker(b, a)
  \/ \E p \in Players : ModTurn(p)

Next == Engine \/ Environment

Spec == Init /\ [][Next]_vars /\ WF_vars(Engine)

-----------------------------------------------------------------------------
(* Properties.                                                             *)

(* Between calls the three places that know how far the turn is agree: the *)
(* ring's position, currentGamePhase and combatStep.  Only a combat whose  *)
(* attacker is the AI has dealt first strike damage in the blockers phase, *)
(* and the AI never leaves a damage assignment open.                       *)
StepFitsPhase ==
  Idle =>
    /\ currentGamePhase = phase /\ phase \notin {BEFORE_BEGIN, AFTER_EOT}
    /\ CASE phase = COMBATBLOCKERS ->
              combatStep \in {"BLOCKERS", "TRIGGERS"}
                             \cup (IF AITurn THEN {"END_FIRST_STRIKE"} ELSE {"ORDER"})
         [] phase = COMBATDAMAGE ->
              combatStep \in {"END_FIRST_STRIKE", "END_DAMAGE"}
                             \cup (IF AITurn THEN {} ELSE {"FIRST_STRIKE", "DAMAGE"})
         [] OTHER -> combatStep = "BLOCKERS"

(* A combat deals first strike damage once, then normal damage once,       *)
(* whatever steps the listeners skip for one another, and a creature still *)
(* attacking at the end of combat went through both.                       *)
FullCombat ==
  /\ IsPrefix(strikes, <<"END_FIRST_STRIKE", "END_DAMAGE">>)
  /\ Idle /\ phase = COMBATEND /\ (\E c \in inPlay \cap attacker : Owner[c] = currentPlayer)
       => Len(strikes) = 2

(* GuiCombat works on views it keeps from events delivered late; between   *)
(* calls they show the attackers in play and who really blocks them.       *)
ViewsAgree ==
  Idle => /\ view = inPlay \cap attacker
          /\ \A a \in view : viewBlk[a] = {b \in inPlay : defenser[b] = a}

(* An attacker's own list agrees with the blockers' pointers, up to the    *)
(* dead blockers it keeps.                                                 *)
ListsAgree ==
  \A a \in inPlay \cap attacker :
    /\ {b \in inPlay : defenser[b] = a} = blockers[a] \cap inPlay
    /\ blockers[a] # {} => a \in blocked

(* What the keys of the damage screen dereference is there: shown views    *)
(* that exist and have blockers, the one the cursor is on among them.      *)
(* Which blocker of that one the cursor is on is left out.                 *)
Safe ==
  cursor # "NONE" =>
    /\ show # {} /\ show \subseteq view /\ \A a \in show : viewBlk[a] # {}
    /\ cursor \in {"ATK", "BLK"} => activeAtk \in show

(* The event being delivered takes off what the screen cannot do without:  *)
(* the attacker the cursor is on, the only one shown, or a last blocker.   *)
Stranding ==
  /\ \E type \in {"AttackerOff", "Blocker", "ZoneChange"} : Delivering(type)
  /\ \/ Delivery.card = activeAtk \/ show = {Delivery.card}
     \/ \E a \in show : viewBlk[a] = {Delivery.card}

(* The first strike screen was skipped, its cursor is still up, and normal *)
(* damage leaves nothing to assign.                                        *)
LeftUp == Stepping("DAMAGE") /\ cursor # "NONE" /\ ToAssign("DAMAGE") = {}

(* Objects resolve and phases are skipped while the screen is up.  It is   *)
(* never up in the steps clickOK() asserts it is not (GuiCombat.cpp), and  *)
(* shows the step the combat is in.  Its keys are safe as long as it is    *)
(* not stranded by a departure or left up by a skip: nothing else, in any  *)
(* order, makes one of them read a view that is gone.                      *)
ScreenSafe ==
  /\ [](Idle /\ cursor # "NONE" => guiStep = combatStep /\ guiStep \notin {"BLOCKERS", "TRIGGERS"})
  /\ [][Safe /\ ~ Stranding /\ ~ LeftUp => Safe']_vars

(* When normal damage is resolved, all that the creatures still facing     *)
(* each other deal in that step is assigned, and nothing is left of first  *)
(* strike damage, or for a creature that died of it or left meanwhile.     *)
(* More than that is only the normal damage to an attacker of a blocker    *)
(* that left while the screen was up.                                      *)
DamageIsCurrent ==
  Stepping("END_DAMAGE") =>
    /\ Assignment("DAMAGE") \subseteq damages
    /\ \A d \in damages \ Assignment("DAMAGE") : Strikes(d[1], "DAMAGE") /\ d[2] \in view

(* An attacker that was blocked stays blocked when its blockers die or     *)
(* regenerate in the damage steps (comment in removeBlocker()).            *)
BlockedStays ==
  [][Delivering("DamageStackResolved") =>
       \A a \in blocked : a \in inPlay' /\ a \in attacker' => a \in blocked']_vars

(* The re-entrant calls always come to an end: control returns to the game *)
(* loop.                                                                   *)
EngineReturns == ~ Idle ~> Idle

(* Turns and phases succeed one another as TurnOrder promises.  The turn   *)
(* has been passed on once AFTER_EOT has no phase actions left to do.      *)
Passed == currentGamePhase = AFTER_EOT /\ \A i \in DOMAIN calls : calls[i].op # "phaseActions"

Turns == INSTANCE TurnOrder WITH phase <- currentGamePhase, player <- currentPlayer,
                                 passed <- Passed

TurnsInOrder == Turns!Spec
=============================================================================
