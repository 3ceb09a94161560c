\* Two wallets, two amounts, two submissions and one quote in flight at a time;
\* one change of wallet or network, reload or edit during a submission.  The
\* bounds let everything stop.
SPECIFICATION Spec
CONSTANTS
  Wallets = {a, b}
  None = none
  MaxAmount = 2
  MaxSwaps = 2
  MaxTurns = 1
SYMMETRY WalletSymmetry
INVARIANTS
  TypeOK
  SentAsShown
  NoIdleAllowance
CHECK_DEADLOCK FALSE
