------------------------------ MODULE MCManaPool ------------------------------
EXTENDS ManaPool

M(colorless, green, white) == [c \in Colors |-> <<colorless, green, white>>[c + 1]]
Cost(m) == AsCost(m)
CostX(m, x) == [AsCost(m) EXCEPT !.x = x]
CostHybrid(m, hs) == [AsCost(m) EXCEPT !.hybrids = hs]
H(c1, v1, c2, v2) == [color1 |-> c1, value1 |-> v1, color2 |-> c2, value2 |-> v2]

Plain(cost) == [cost |-> cost, kicker |-> NoKicker, multi |-> FALSE, phyrexian |-> 0,
                sunburst |-> FALSE, targets |-> FALSE]
Kicked(cost, kicker, multi, targets) ==
    [Plain(cost) EXCEPT !.kicker = Cost(kicker), !.multi = multi, !.targets = targets]

CostSet ==
  { Kicked(Cost(M(1, 1, 0)), M(0, 1, 0), FALSE, FALSE),
    Kicked(Cost(M(1, 0, 1)), M(1, 0, 0), TRUE, TRUE),
    Plain(CostX(M(0, 1, 0), AnyX)), Plain(CostX(M(1, 0, 0), 2)),
    Plain(CostHybrid(M(1, 0, 0), <<H(1, 1, 2, 1), H(2, 1, 1, 1)>>)),
    Plain(CostHybrid(M(0, 0, 0), <<H(0, 2, 2, 1), H(0, 2, 1, 1)>>)),
    [Plain(Cost(M(1, 0, 0))) EXCEPT !.sunburst = TRUE],
    [Plain(CostX(M(0, 0, 0), AnyX)) EXCEPT !.sunburst = TRUE],
    [Plain(Cost(M(1, 0, 0))) EXCEPT !.phyrexian = 2] }

AbilitySet == { [cost |-> Cost(M(1, 0, 0)), phyrexian |-> 0],
                [cost |-> Cost(M(0, 1, 0)), phyrexian |-> 1],
                [cost |-> CostHybrid(M(0, 0, 0), <<H(1, 1, 2, 1)>>), phyrexian |-> 0] }

OutputSet == {M(1, 0, 0), M(0, 1, 0), M(0, 1, 1), M(0, 0, 2)}
===============================================================================
