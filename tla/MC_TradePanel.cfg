\* Two wallets and two submissions; in one tab two changes of wallet or reloads,
\* or two tabs with none.  The bounds let everything stop.
SPECIFICATION Spec
CONSTANTS
  Wallets = {a,b}
  Panels = {p,q}
  Trades = {t1, t2}
  None = none
  MaxTurns = 4
SYMMETRY PanelSymmetry
INVARIANTS
  TypeOK KeptUntilResolved OneTabNeverCrosses BusyHasOperation RecordOfItsWallet ProvenanceKept
CHECK_DEADLOCK FALSE
