------------------------------- MODULE MCProfile -------------------------------
EXTENDS Profile, TLC

CONSTANTS cheap, dear

(* The player begins with two cheap cards, one dear one, and too few credits *)
(* to buy one of each.                                                       *)
PriceOf == (cheap :> 1) @@ (dear :> 2)
FirstCards == (cheap :> 2) @@ (dear :> 1)
===============================================================================
