---------------------------- MODULE MCPerpMarket ----------------------------
(* Small markets for TLC: units far coarser than the code's, so that       *)
(* roundings and limits are met within a few trades.                       *)
EXTENDS PerpMarket, TLC

CONSTANTS u1, u2

Traders == {u1, u2}
Symmetry == Permutations(Traders)
Says(price, confidence, delay, is_valid) ==
    [price |-> price, confidence |-> confidence, delay |-> delay, is_valid |-> is_valid]
Oracles == {Says(190, 5, 0, TRUE), Says(110, 5, 0, TRUE), Says(120, 20, 6, FALSE)}
Rates == {0, 400}
=============================================================================
