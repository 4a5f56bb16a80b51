---------------------------- MODULE MCCombatDamage ----------------------------
EXTENDS CombatDamage, TLC

CONSTANTS att, b1, b2, b3

BatchSet == {-1, 2}

C(p, t, h) == [power |-> p, toughness |-> t, has |-> h, zone |-> "inPlay"]
Out == [power |-> 0, toughness |-> 1, has |-> {}, zone |-> "graveyard"]
Cast(w, x, y, z) == (att :> w) @@ (b1 :> x) @@ (b2 :> y) @@ (b3 :> z)

(* The abilities meet in pairs that matter to each other.                    *)
CastSet ==
  { Cast(C(5, 2, {}), C(1, 2, {}), C(1, 1, {}), C(1, 1, {})),
    Cast(C(4, 2, {"red"}), C(1, 2, {}), C(2, 1, {"protection"}), Out),
    Cast(C(4, 3, {"trample"}), C(1, 2, {"absorb"}), C(2, 1, {"wither"}), Out),
    Cast(C(3, 2, {"deathtouch"}), C(1, 3, {"indestructible"}), C(2, 2, {"deathtouch"}), Out),
    Cast(C(3, 2, {"deathtouch", "trample"}), C(1, 2, {"cantregen"}), C(1, 2, {"nocounters"}), Out),
    Cast(C(3, 2, {"wither"}), C(1, 2, {"indestructible"}), C(2, 2, {"exiledeath"}), Out),
    Cast(C(3, 3, {"infect"}), C(1, 2, {"wilting"}), C(1, 1, {"phantom"}), Out),
    Cast(C(3, 3, {"toxic"}), C(1, 2, {"hydra"}), C(1, 1, {"vigor"}), Out) }
===============================================================================
