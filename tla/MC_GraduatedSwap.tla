------------------------- MODULE MC_GraduatedSwap -------------------------
(* Instances of GraduatedSwap for TLC. *)
EXTENDS GraduatedSwap, TLC

WalletSymmetry == Permutations(Wallets)
=============================================================================
