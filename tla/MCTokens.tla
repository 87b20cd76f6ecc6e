---------------------------- MODULE MCTokens ----------------------------
(* Instances of Tokens for TLC. *)
EXTENDS Tokens, TLC

CONSTANTS alice, bob, carol

MCAccounts == {alice, bob, carol}
UpToTwo == 0 .. 2
==========================================================================
