----------------------------- MODULE TurnOrder ------------------------------
(***************************************************************************)
(* What the turn engine promises about the order of phases and turns,      *)
(* whatever the combat does: the phases of a turn come one after the       *)
(* other, except that a turn without attackers goes from the attackers     *)
(* phase to the end of combat; the turn is passed exactly once, after its  *)
(* last phase, to the other player, unless an extra turn is due; and every *)
(* turn to skip, or extra turn, is used up once.                           *)
(***************************************************************************)
EXTENDS Integers

CONSTANTS StartPhase

Players == 0..1

LastPhase  == 13
Attackers  == 6
CombatEnds == 9

VARIABLES
  phase,
  player,         \* whose turn it is
  extraTurn,      \* extraTurn[p]: the extra turns p still has to take
  skippingTurn,   \* skippingTurn[p]: the turns p still has to skip
  passed          \* the turn has been passed on, but has not begun

vars == <<phase, player, extraTurn, skippingTurn, passed>>

Init ==
  /\ phase = StartPhase /\ player \in Players /\ passed = FALSE
  /\ extraTurn = [p \in Players |-> 0] /\ skippingTurn = [p \in Players |-> 0]

NextPhase ==
  /\ phase # LastPhase
  /\ \/ phase' = phase + 1
     \/ phase = Attackers /\ phase' = CombatEnds
  /\ UNCHANGED <<player, extraTurn, skippingTurn, passed>>

Use(due, p) == [due EXCEPT ![p] = @ - 1]

(* The candidate is the player again if an extra turn is due, which it     *)
(* uses up even if it then has to skip this turn.                          *)
PassTurn ==
  /\ phase = LastPhase /\ ~ passed /\ passed' = TRUE
  /\ \E next \in Players :
       /\ \/ extraTurn[player] > 0 /\ next = player /\ extraTurn' = Use(extraTurn, player)
          \/ extraTurn[player] = 0 /\ next # player /\ UNCHANGED extraTurn
       /\ \/ skippingTurn[next] > 0 /\ player' = 1 - next /\ skippingTurn' = Use(skippingTurn, next)
          \/ skippingTurn[next] = 0 /\ player' = next /\ UNCHANGED skippingTurn
  /\ UNCHANGED phase

BeginTurn ==
  /\ phase = LastPhase /\ passed /\ passed' = FALSE /\ phase' = 0
  /\ UNCHANGED <<player, extraTurn, skippingTurn>>

(* Spells give extra turns and turns to skip during a turn.                *)
ModTurn ==
  /\ phase # LastPhase
  /\ \E p \in Players :
       \/ extraTurn' = [extraTurn EXCEPT ![p] = @ + 1] /\ UNCHANGED skippingTurn
       \/ skippingTurn' = [skippingTurn EXCEPT ![p] = @ + 1] /\ UNCHANGED extraTurn
  /\ UNCHANGED <<phase, player, passed>>

Next == NextPhase \/ PassTurn \/ BeginTurn \/ ModTurn

Spec == Init /\ [][Next]_vars
=============================================================================
