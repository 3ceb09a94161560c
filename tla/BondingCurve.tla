---------------------------- MODULE BondingCurve ----------------------------
(***************************************************************************)
(* What a bonding curve promises, with no fees, no holders and no          *)
(* rounding bookkeeping: until it graduates its reserve is a function of   *)
(* the tokens sold, whatever trades led there, and graduation happens      *)
(* once, from an open curve, with the whole allocation sold and the whole  *)
(* reserve forwarded.  ZonkCurve.tla implements it.                        *)
(***************************************************************************)
EXTENDS EndpointMath

VARIABLES sold, reserve, forwarded

abstractVars == <<sold, reserve, forwarded>>

\* The reserve that backs s sold tokens.
ReserveFor(s) == ceilDiv(K, VIRTUAL_TOKEN_RESERVE - s) - VIRTUAL_ETH_RESERVE

AInit == sold = 0 /\ reserve = 0 /\ forwarded = 0

Open == forwarded = 0

Trade ==
  /\ Open
  /\ sold' \in 0..(CURVE_ALLOCATION - 1)
  /\ reserve' = ReserveFor(sold')
  /\ reserve' < GRADUATION_RESERVE
  /\ UNCHANGED forwarded

Graduate ==
  /\ Open
  /\ sold' = CURVE_ALLOCATION
  /\ reserve' = 0
  /\ forwarded' = GRADUATION_RESERVE

ANext == Trade \/ Graduate

ASpec == AInit /\ [][ANext]_abstractVars
=============================================================================
