------------------------ MODULE MC_TreasuryRotation ------------------------
(* Instances of TreasuryRotation for TLC. *)
EXTENDS TreasuryRotation, TLC

AddressSymmetry == Permutations(Addresses)
=============================================================================
