------------------------------ MODULE MCAbilities ------------------------------
EXTENDS Abilities

CONSTANTS bird, bear, flock, banner

(* One lord lets the creatures fly, the other one is for those that do.      *)
GivesOf == [l \in Lords |-> IF l = flock THEN "flag" ELSE "pump"]
FlyersFor == Lords \ {flock}
===============================================================================
