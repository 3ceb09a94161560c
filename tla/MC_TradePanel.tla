--------------------------- MODULE MC_TradePanel ---------------------------
(* Instances of TradePanel for TLC. *)
EXTENDS TradePanel, TLC

PanelSymmetry ==
  Permutations(Wallets) \cup Permutations(Panels) \cup Permutations(Trades)
=============================================================================
