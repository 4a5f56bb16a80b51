-------------------------------- MODULE MCZones --------------------------------
EXTENDS Zones, TLC

CONSTANTS persist, treason, treason2, aura, sorcery, token

(* A creature that persists has an aura on it, is stolen, sacrificed and     *)
(* returned; two creatures are bound to leave at the end of the turn.        *)
OwnerOf == [c \in Cards \cup Tokens |-> IF c = sorcery THEN 1 ELSE 0]
HasOf == (persist :> {"persist"}) @@ (treason :> {"treason"}) @@ (treason2 :> {"treason", "persist"})
         @@ (aura :> {"aura"}) @@ (sorcery :> {"sorcery"}) @@ (token :> {"persist"})
HasThese == [c \in Cards \cup Tokens |-> HasOf[c]]
StartSet == { [c \in Cards |-> IF c \in {persist, treason, treason2} THEN "inPlay" ELSE "hand"],
              [c \in Cards |-> IF c \in {persist, treason2} THEN "library" ELSE "hand"] }
===============================================================================
