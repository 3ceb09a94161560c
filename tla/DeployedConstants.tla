-------------------------- MODULE DeployedConstants --------------------------
(***************************************************************************)
(* The deployed values of EndpointConstantsV3.sol, and EndpointMath with   *)
(* them.  The numbers are beyond TLC's integers, so only the prover reads  *)
(* this module (ZonkCurve_proofs.tla).  They are written as multiples of   *)
(* one ether and the proofs keep Ether symbolic: tlapm folds the product   *)
(* of two literals in machine integers.                                    *)
(***************************************************************************)
EXTENDS Integers

Ether == 1000000000000000000

\* EndpointConstantsV3: supplies, virtual reserves and graduation reserve.
CurveAllocation == 800000000 * Ether
LpAllocation == 200000000 * Ether
VirtualTokens == 1066666666 * Ether + 666666666666666667
VirtualEth == Ether
GraduationReserve == 3 * Ether

\* EndpointConstantsV3: the prices and the gross amount it states.
INITIAL_PRICE == 937500000
TERMINAL_PRICE == 15000000000
EXACT_GRADUATION_GROSS == 3030303030303030303

Deployed == INSTANCE EndpointMath WITH
  CURVE_ALLOCATION <- CurveAllocation,
  LP_ALLOCATION <- LpAllocation,
  VIRTUAL_TOKEN_RESERVE <- VirtualTokens,
  VIRTUAL_ETH_RESERVE <- VirtualEth,
  GRADUATION_RESERVE <- GraduationReserve,
  TOTAL_FEE_BPS <- 100,
  FEE_DENOMINATOR <- 10000,
  CREATOR_FEE_PERCENT <- 35,
  COMMUNITY_FEE_PERCENT <- 20,
  TRADER_REWARDS_FEE_PERCENT <- 15,
  FEE_SPLIT_DENOMINATOR <- 100,
  WAD <- Ether

\* The virtual reserves at graduation.
Rest == VirtualTokens - CurveAllocation
Last == VirtualEth + GraduationReserve
=============================================================================
