--------------------------- MODULE MCExchange ---------------------------
(* Instances of Exchange for TLC. *)
EXTENDS Exchange

MCPrices == 1 .. 5
MCAmounts == 1 .. 9
==========================================================================
