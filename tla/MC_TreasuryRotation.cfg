\* Three accounts, a delay of two ticks and time for three rotations.
SPECIFICATION RSpec
CONSTANTS
  Addresses = {alice, bob, carol}
  NoOne = zero
  TREASURY_ROTATION_DELAY = 2
  MaxTime = 6
SYMMETRY AddressSymmetry
INVARIANTS
  RTypeOK
  PendingIsStanding
PROPERTIES
  RotationWaits
  TreasuryOutlastsTransfer
CHECK_DEADLOCK FALSE
