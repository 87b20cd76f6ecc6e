-------------------------- MODULE MCMarketData --------------------------
(* Instances of MarketData for TLC. *)
EXTENDS MarketData

CONSTANTS pair1

OnePair == {pair1}
MCPrices == {1, 2}
MCAmounts == {1}
==========================================================================
