\* One tab, one wallet, two purchases.
SPECIFICATION Spec
CONSTANTS
  Wallets = {a}
  Panels = {p}
  Trades = {t1, t2}
  None = none
  MaxTurns = 2
INVARIANTS
  BlockedUntilAbandoned
CHECK_DEADLOCK FALSE
