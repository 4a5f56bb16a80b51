---------------------------- MODULE MCTurnEngine ----------------------------
EXTENDS TurnEngine

CONSTANTS a1, a2, b1, b2

(* Player 0 has a1 and a2, player 1 b1 and b2.  a1 strikes twice, b1 first. *)
OwnerOf  == [c \in Creature |-> IF c \in {a1, a2} THEN 0 ELSE 1]
StrikeOf == [c \in Creature |-> IF c = a1 THEN "double" ELSE IF c = b1 THEN "first" ELSE "normal"]
=============================================================================
