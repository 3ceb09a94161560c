---------------------------- MODULE MC_ZonkCurve ----------------------------
(* Instances of ZonkCurve for TLC. *)
EXTENDS ZonkCurve, TLC

TraderSymmetry == Permutations(Traders)
=============================================================================
