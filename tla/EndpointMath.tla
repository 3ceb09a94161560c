---------------------------- MODULE EndpointMath ----------------------------
(***************************************************************************)
(* The economic constants of contracts/src/v3/libraries/                   *)
(* EndpointConstantsV3.sol and the pure arithmetic the v3 contracts build  *)
(* on them: ceiling division, the fee split and the inverse of the fee.    *)
(* The constants are parameters, so that TLC checks small instances; the   *)
(* assumptions name what the arithmetic needs of them, and                 *)
(* ZonkCurve_proofs.tla proves that the deployed values satisfy them.      *)
(***************************************************************************)
EXTENDS Integers

CONSTANTS
  CURVE_ALLOCATION,            (* tokens sold by the curve                  *)
  LP_ALLOCATION,               (* tokens kept for the permanent pool        *)
  VIRTUAL_TOKEN_RESERVE,
  VIRTUAL_ETH_RESERVE,
  GRADUATION_RESERVE,          (* net ETH at which the curve graduates      *)
  TOTAL_FEE_BPS,
  FEE_DENOMINATOR,
  CREATOR_FEE_PERCENT,
  COMMUNITY_FEE_PERCENT,
  TRADER_REWARDS_FEE_PERCENT,
  FEE_SPLIT_DENOMINATOR,
  WAD                          (* 1 ether, the scale of a spot price        *)

TOTAL_SUPPLY == CURVE_ALLOCATION + LP_ALLOCATION

K == VIRTUAL_TOKEN_RESERVE * VIRTUAL_ETH_RESERVE

NET_GROSS_ADJUSTMENT_DENOMINATOR ==
  (FEE_DENOMINATOR - TOTAL_FEE_BPS) \div TOTAL_FEE_BPS

ASSUME AllocationAssumption ==
  /\ CURVE_ALLOCATION \in Nat \ {0}
  /\ LP_ALLOCATION \in Nat \ {0}
  /\ VIRTUAL_TOKEN_RESERVE \in Nat \ {0}
  /\ VIRTUAL_ETH_RESERVE \in Nat \ {0}
  /\ GRADUATION_RESERVE \in Nat \ {0}
  /\ CURVE_ALLOCATION < VIRTUAL_TOKEN_RESERVE
  /\ WAD \in Nat \ {0}

\* The whole curve allocation is sold exactly when the reserve is full: the
\* point (CURVE_ALLOCATION, GRADUATION_RESERVE) lies on or above the product
\* K, and one wei less of reserve lies below it.
ASSUME EndpointAssumption ==
  LET finalTokens == VIRTUAL_TOKEN_RESERVE - CURVE_ALLOCATION
      finalEth == VIRTUAL_ETH_RESERVE + GRADUATION_RESERVE
  IN  finalTokens * finalEth >= K /\ finalTokens * (finalEth - 1) < K

\* A token unit is never worth more than one wei: along the whole curve the
\* virtual ETH is small beside the virtual tokens.
ASSUME GranularityAssumption ==
  LET lastEth == VIRTUAL_ETH_RESERVE + GRADUATION_RESERVE - 1
  IN  lastEth * (lastEth - 1) < K

\* The fee is one part in NET_GROSS_ADJUSTMENT_DENOMINATOR + 1.
ASSUME FeeAssumption ==
  /\ TOTAL_FEE_BPS \in Nat \ {0}
  /\ FEE_DENOMINATOR \in Nat \ {0}
  /\ TOTAL_FEE_BPS < FEE_DENOMINATOR
  /\ FEE_DENOMINATOR % TOTAL_FEE_BPS = 0

ASSUME SplitAssumption ==
  /\ FEE_SPLIT_DENOMINATOR \in Nat \ {0}
  /\ CREATOR_FEE_PERCENT \in Nat
  /\ COMMUNITY_FEE_PERCENT \in Nat
  /\ TRADER_REWARDS_FEE_PERCENT \in Nat
  /\ CREATOR_FEE_PERCENT + COMMUNITY_FEE_PERCENT + TRADER_REWARDS_FEE_PERCENT
       <= FEE_SPLIT_DENOMINATOR

-----------------------------------------------------------------------------
\* ZonkCurveV3._ceilDiv.
ceilDiv(numerator, denominator) ==
  IF numerator = 0 THEN 0 ELSE ((numerator - 1) \div denominator) + 1

\* ZonkCurveV3.splitFee: every part is rounded down and the protocol takes
\* what rounding leaves.
totalFeeOf(grossAmount) == (grossAmount * TOTAL_FEE_BPS) \div FEE_DENOMINATOR

shareOf(totalFee, percent) == (totalFee * percent) \div FEE_SPLIT_DENOMINATOR

splitFee(grossAmount) ==
  LET total == totalFeeOf(grossAmount)
      creator == shareOf(total, CREATOR_FEE_PERCENT)
      community == shareOf(total, COMMUNITY_FEE_PERCENT)
      rewards == shareOf(total, TRADER_REWARDS_FEE_PERCENT)
  IN  [totalFee |-> total, creatorFee |-> creator, communityFee |-> community,
       traderRewardsFee |-> rewards,
       protocolFee |-> total - creator - community - rewards]

netOf(grossAmount) == grossAmount - totalFeeOf(grossAmount)

\* A gross amount one fee step too high, as an inverse that divided netAmount
\* instead of netAmount - 1 would give.
GrossOffByOne(netAmount) ==
  IF netAmount = 0 THEN 0
  ELSE netAmount + (netAmount \div NET_GROSS_ADJUSTMENT_DENOMINATOR)

\* A gross amount that adds the net amount's own fee to it.
GrossFeeOfNet(netAmount) == netAmount + totalFeeOf(netAmount)

\* ZonkCurveV3.grossRequiredForNet, before its own check that the result nets
\* to netAmount (grossMismatch).
grossRequiredForNet(netAmount) ==
  IF netAmount = 0 THEN 0
  ELSE netAmount + ((netAmount - 1) \div NET_GROSS_ADJUSTMENT_DENOMINATOR)

grossMismatch(netAmount) == netOf(grossRequiredForNet(netAmount)) # netAmount
=============================================================================
