\* Two tokens, two accounts and three deposits of two sizes: one whose shares
\* are all positive, one where all but the creator's and the protocol's round
\* to zero.
SPECIFICATION Spec
CONSTANTS
  CURVE_ALLOCATION = 48
  LP_ALLOCATION = 12
  VIRTUAL_TOKEN_RESERVE = 64
  VIRTUAL_ETH_RESERVE = 4
  GRADUATION_RESERVE = 12
  TOTAL_FEE_BPS = 100
  FEE_DENOMINATOR = 10000
  CREATOR_FEE_PERCENT = 35
  COMMUNITY_FEE_PERCENT = 20
  TRADER_REWARDS_FEE_PERCENT = 15
  FEE_SPLIT_DENOMINATOR = 100
  WAD = 100
  Tokens = {tokA, tokB}
  Addresses = {alice, bob}
  NoOne = zero
  Grosses = {300, 1000}
  MaxDeposits = 3
  MaxForced = 1
SYMMETRY LedgerSymmetry
INVARIANTS
  TypeOK
  Solvent
  BooksAgree
  FeesConserved
PROPERTIES
  PayoutAsOffered
