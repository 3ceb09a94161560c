---------------------- MODULE MC_TransactionRecovery ----------------------
(* An instance of TransactionRecovery for TLC. *)
EXTENDS TransactionRecovery, TLC
=============================================================================
