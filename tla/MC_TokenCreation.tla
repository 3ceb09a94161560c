------------------------- MODULE MC_TokenCreation -------------------------
(* Instances of TokenCreation for TLC. *)
EXTENDS TokenCreation
=============================================================================
