------------------------- MODULE MCCounterfactuals -------------------------
(* Counterfactuals on a small market: a stop and a target one price away,   *)
(* two horizons, one settlement.                                            *)
EXTENDS Counterfactuals

MCPrices == 1..3
MCHorizons == {2, 4}
MCSettlements == {2}
=============================================================================
