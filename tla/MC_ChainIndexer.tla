-------------------------- MODULE MC_ChainIndexer --------------------------
(* Instances of ChainIndexer for TLC. *)
EXTENDS ChainIndexer, TLC
=============================================================================
