---------------------------- MODULE MC_FeeManager ----------------------------
(* Instances of FeeManager for TLC. *)
EXTENDS FeeManager, TLC

LedgerSymmetry == Permutations(Tokens) \cup Permutations(Addresses)
=============================================================================
