\* A coarse curve with two traders, where every reachable (sold, reserve) pair
\* and every split of the tokens between holders is visited.
SPECIFICATION Spec
CONSTANTS
  CURVE_ALLOCATION = 96
  LP_ALLOCATION = 24
  VIRTUAL_TOKEN_RESERVE = 128
  VIRTUAL_ETH_RESERVE = 8
  GRADUATION_RESERVE = 24
  TOTAL_FEE_BPS = 1
  FEE_DENOMINATOR = 8
  CREATOR_FEE_PERCENT = 35
  COMMUNITY_FEE_PERCENT = 20
  TRADER_REWARDS_FEE_PERCENT = 15
  FEE_SPLIT_DENOMINATOR = 100
  WAD = 100
  Traders = {alice, bob}
  Curve = curve
  Manager = manager
  MaxGross = 31
  MaxForced = 1
  MaxUnsolicited = 1
  SlippageBounds = {0, 6}
SYMMETRY TraderSymmetry
INVARIANTS
  TypeOK
  PathIndependence
  SalesCovered
  BuysAlwaysQuoted
  RoundTripExact
  GraduationOneBuyAway
  GraduationComplete
PROPERTIES
  PriceFollowsSupply
  ImplementsBondingCurve
