--------------------------- MODULE ZonkCurve_proofs ---------------------------
(***************************************************************************)
(* The properties of ZonkCurve for every value of its constants, the       *)
(* arithmetic they rest on (ceiling division, the fee and its inverse),    *)
(* and that the deployed constants satisfy the assumptions.                *)
(*                                                                         *)
(* The inductive invariant is TypeOK, PathIndependence and                 *)
(* GraduationComplete with one conjunct of SalesCovered.  PathIndependence *)
(* is what makes it inductive: from the two integers sold and reserve      *)
(* alone nothing bounds what the next quote returns, but once the reserve  *)
(* is known to be the ceiling of K over the virtual tokens, every quote is *)
(* determined and every subtraction of the code is covered.                *)
(***************************************************************************)
EXTENDS ZonkCurve, DeployedConstants, TLAPS

-----------------------------------------------------------------------------
(* Ceiling division, the fee and its inverse. *)


\* _ceilDiv returns the least quotient whose product reaches the numerator.
LEMMA CeilBounds ==
  ASSUME NEW a \in Nat \ {0}, NEW b \in Nat \ {0}
  PROVE  /\ ceilDiv(a, b) \in Nat \ {0}
         /\ a <= ceilDiv(a, b) * b
         /\ (ceilDiv(a, b) - 1) * b < a
  BY SMT DEF ceilDiv

\* Those two bounds determine it.
LEMMA CeilUnique ==
  ASSUME NEW a \in Nat \ {0}, NEW b \in Nat \ {0}, NEW c \in Int,
         a <= c * b, (c - 1) * b < a
  PROVE  ceilDiv(a, b) = c
<1> DEFINE d == ceilDiv(a, b)
<1>1. d \in Nat \ {0} /\ a <= d * b /\ (d - 1) * b < a
  BY CeilBounds
<1> HIDE DEF d
<1>2. (c - 1) * b < d * b /\ (d - 1) * b < c * b
  BY <1>1
<1>3. c - 1 < d /\ d - 1 < c
  BY <1>1, <1>2
<1> QED BY <1>1, <1>3 DEF d

\* It does not grow with its denominator.
LEMMA CeilAntitone ==
  ASSUME NEW a \in Nat \ {0}, NEW b \in Nat \ {0}, NEW c \in Nat \ {0}, b <= c
  PROVE  ceilDiv(a, c) <= ceilDiv(a, b)
<1> DEFINE x == ceilDiv(a, b)
           y == ceilDiv(a, c)
<1>1. x \in Nat \ {0} /\ a <= x * b
  BY CeilBounds
<1>2. y \in Nat \ {0} /\ (y - 1) * c < a
  BY CeilBounds
<1> HIDE DEF x, y
<1>3. x * b <= x * c
  BY <1>1
<1>4. (y - 1) * c < x * c
  BY <1>1, <1>2, <1>3
<1>5. y - 1 < x
  BY <1>1, <1>2, <1>4
<1> QED BY <1>1, <1>2, <1>5 DEF x, y

\* Where e * (e - 1) < k, dividing k by e and then by the result, rounding up
\* both times, gives e back: the two quotes are inverse to each other.
LEMMA CeilInverse ==
  ASSUME NEW k \in Nat \ {0}, NEW e \in Nat \ {0}, e * (e - 1) < k
  PROVE  ceilDiv(k, ceilDiv(k, e)) = e
<1> DEFINE x == ceilDiv(k, e)
<1>1. x \in Nat \ {0} /\ k <= x * e /\ (x - 1) * e < k
  BY CeilBounds
<1> HIDE DEF x
<1>2. k <= e * x
  BY <1>1
<1>3. (e - 1) * x < k
  <2>1. CASE e = 1
    BY <2>1, <1>1
  <2>2. CASE e > 1
    <3>1. x * e <= k - 1 + e
      BY <1>1
    <3>2. (e - 1) * (x * e) <= (e - 1) * (k - 1 + e)
      BY <3>1, <2>2, <1>1
    <3>3. ((e - 1) * x) * e <= (e - 1) * k + (e - 1) * (e - 1)
      BY <3>2, <1>1
    <3>4. (e - 1) * k + (e - 1) * (e - 1) < k * e
      BY <2>2
    <3>5. ((e - 1) * x) * e < k * e
      BY <3>3, <3>4, <1>1
    <3> QED BY <3>5, <1>1, <2>2
  <2> QED BY <2>1, <2>2
<1> QED BY <1>1, <1>2, <1>3, CeilUnique DEF x

-----------------------------------------------------------------------------
LEMMA KPositive == K \in Nat \ {0}
  BY AllocationAssumption DEF K

LEMMA AdjustmentDenominator ==
  /\ NET_GROSS_ADJUSTMENT_DENOMINATOR \in Nat \ {0}
  /\ FEE_DENOMINATOR = TOTAL_FEE_BPS * (NET_GROSS_ADJUSTMENT_DENOMINATOR + 1)
<1> DEFINE q == FEE_DENOMINATOR \div TOTAL_FEE_BPS
<1>1. q \in Nat /\ FEE_DENOMINATOR = TOTAL_FEE_BPS * q
  BY FeeAssumption, SMT
<1> HIDE DEF q
<1>2. FEE_DENOMINATOR - TOTAL_FEE_BPS = TOTAL_FEE_BPS * (q - 1)
  BY <1>1, FeeAssumption
<1>3. q > 1
  BY <1>1, FeeAssumption
<1>4. (TOTAL_FEE_BPS * (q - 1)) \div TOTAL_FEE_BPS = q - 1
  BY <1>1, <1>3, FeeAssumption
<1> QED BY <1>1, <1>2, <1>3, <1>4 DEF NET_GROSS_ADJUSTMENT_DENOMINATOR

\* The fee is the amount divided by one more than the adjustment denominator,
\* rounded down, so every positive amount nets to a positive amount.
LEMMA FeeBounds ==
  ASSUME NEW g \in Nat
  PROVE  /\ totalFeeOf(g) \in Nat
         /\ totalFeeOf(g) * (NET_GROSS_ADJUSTMENT_DENOMINATOR + 1) <= g
         /\ g < (totalFeeOf(g) + 1) * (NET_GROSS_ADJUSTMENT_DENOMINATOR + 1)
<1> DEFINE f == totalFeeOf(g)
           D == NET_GROSS_ADJUSTMENT_DENOMINATOR + 1
           p == TOTAL_FEE_BPS
<1>1. D \in Nat \ {0} /\ p \in Nat \ {0} /\ FEE_DENOMINATOR = p * D
  BY AdjustmentDenominator, FeeAssumption
<1>2. f = (g * p) \div (p * D)
  BY <1>1 DEF totalFeeOf
<1> HIDE DEF f, D, p
<1>3. /\ g * p \in Nat
      /\ p * D \in Nat \ {0}
  BY <1>1
<1>4. /\ f \in Nat
      /\ f * (p * D) <= g * p
      /\ g * p < (f + 1) * (p * D)
  BY <1>2, <1>3, SMT
<1>5. (f * D) * p <= g * p /\ g * p < ((f + 1) * D) * p
  BY <1>1, <1>4
<1>6. f * D <= g /\ g < (f + 1) * D
  BY <1>1, <1>4, <1>5
<1> QED BY <1>4, <1>6 DEF f, D

LEMMA NetPositive ==
  ASSUME NEW g \in Nat \ {0}
  PROVE  netOf(g) \in Nat \ {0} /\ netOf(g) <= g
<1> DEFINE f == totalFeeOf(g)
           D == NET_GROSS_ADJUSTMENT_DENOMINATOR + 1
<1>1. D \in Nat /\ D >= 2
  BY AdjustmentDenominator
<1>2. f \in Nat /\ f * D <= g
  BY FeeBounds
<1> HIDE DEF f, D
<1>3. f * 2 <= f * D
  BY <1>1, <1>2
<1>4. f < g
  BY <1>2, <1>3, <1>1
<1> QED BY <1>4, <1>2 DEF netOf, f

\* grossRequiredForNet is an exact inverse of the fee: its own accounting check
\* never fires.
LEMMA GrossIsExact ==
  ASSUME NEW n \in Nat
  PROVE  /\ grossRequiredForNet(n) \in Nat
         /\ netOf(grossRequiredForNet(n)) = n
         /\ ~grossMismatch(n)
<1> DEFINE d == NET_GROSS_ADJUSTMENT_DENOMINATOR
           g == grossRequiredForNet(n)
           f == totalFeeOf(g)
<1>1. d \in Nat \ {0}
  BY AdjustmentDenominator
<1>2. CASE n = 0
  <2>1. g = 0
    BY <1>2 DEF grossRequiredForNet
  <2>2. f \in Nat /\ f * (d + 1) <= 0
    BY <2>1, FeeBounds
  <2>3. f = 0
    BY <2>2, <1>1
  <2> QED BY <2>1, <2>3, <1>2 DEF netOf, grossMismatch
<1>3. CASE n # 0
  <2> DEFINE a == (n - 1) \div d
  <2>1. a \in Nat /\ a * d <= n - 1 /\ n - 1 < (a + 1) * d
    BY <1>1, <1>3, SMT
  <2>2. g = n + a
    BY <1>3 DEF grossRequiredForNet
  <2> HIDE DEF a
  <2>3. g \in Nat
    BY <2>1, <2>2
  <2>4. f \in Nat /\ f * (d + 1) <= g /\ g < (f + 1) * (d + 1)
    BY <2>3, FeeBounds
  <2> HIDE DEF d, g, f
  <2>5. a * (d + 1) < g /\ g <= (a + 1) * (d + 1)
    BY <1>1, <2>1, <2>2
  <2>6. f = a
    <3>1. a * (d + 1) < (f + 1) * (d + 1)
      BY <2>4, <2>5, <2>3, <2>1, <1>1
    <3>2. a < f + 1
      BY <3>1, <2>1, <2>4, <1>1
    <3>3. g <= (a + 1) * (d + 1) - 1
      BY <2>1, <2>2, <1>1
    <3>4. f * (d + 1) < (a + 1) * (d + 1)
      BY <3>3, <2>4, <2>3, <2>1, <1>1
    <3>5. f < a + 1
      BY <3>4, <2>1, <2>4, <1>1
    <3> QED BY <3>2, <3>5, <2>1, <2>4
  <2> QED BY <2>1, <2>2, <2>3, <2>6 DEF netOf, grossMismatch, g, f
<1> QED BY <1>2, <1>3

\* An amount that nets at least n is at least the amount required for n, so
\* the refund of a capped purchase never underflows.
LEMMA GrossIsLeast ==
  ASSUME NEW n \in Nat \ {0}, NEW h \in Nat, netOf(h) >= n
  PROVE  grossRequiredForNet(n) <= h
<1> DEFINE d == NET_GROSS_ADJUSTMENT_DENOMINATOR
           a == (n - 1) \div d
           f == totalFeeOf(h)
<1>1. d \in Nat \ {0}
  BY AdjustmentDenominator
<1>2. a \in Nat /\ a * d <= n - 1
  BY <1>1, SMT
<1>3. grossRequiredForNet(n) = n + a
  BY DEF grossRequiredForNet
<1>4. f \in Nat /\ h < (f + 1) * (d + 1)
  BY FeeBounds
<1>5. h - f >= n
  BY <1>4 DEF netOf
<1> HIDE DEF d, a, f
<1>6. h - f <= f * d + d
  BY <1>1, <1>4
<1>7. a * d < (f + 1) * d
  BY <1>1, <1>2, <1>4, <1>5, <1>6
<1>8. a < f + 1
  BY <1>1, <1>2, <1>4, <1>7
<1> QED BY <1>2, <1>3, <1>4, <1>5, <1>8

\* The four parts of a fee are natural numbers that add up to it, whatever
\* rounding does to each: the sequential check of depositFees accepts them.
THEOREM SplitIsExact ==
  ASSUME NEW g \in Nat
  PROVE  LET s == splitFee(g)
         IN  /\ s.totalFee \in Nat /\ s.creatorFee \in Nat /\ s.communityFee \in Nat
             /\ s.traderRewardsFee \in Nat /\ s.protocolFee \in Nat
             /\ s.creatorFee + s.protocolFee + s.communityFee + s.traderRewardsFee
                  = s.totalFee
<1> DEFINE t == totalFeeOf(g)
           D == FEE_SPLIT_DENOMINATOR
           a == shareOf(t, CREATOR_FEE_PERCENT)
           b == shareOf(t, COMMUNITY_FEE_PERCENT)
           c == shareOf(t, TRADER_REWARDS_FEE_PERCENT)
<1>1. t \in Nat
  BY FeeBounds
<1>2. \A p \in Nat : shareOf(t, p) \in Nat /\ shareOf(t, p) * D <= t * p
  <2> SUFFICES ASSUME NEW p \in Nat
               PROVE  shareOf(t, p) \in Nat /\ shareOf(t, p) * D <= t * p
    OBVIOUS
  <2> HIDE DEF t
  <2>1. t * p \in Nat /\ D \in Nat \ {0}
    BY <1>1, SplitAssumption
  <2> QED BY <2>1, SMT DEF shareOf
<1>3. a \in Nat /\ b \in Nat /\ c \in Nat
  BY <1>2, SplitAssumption
<1>4. /\ a * D <= t * CREATOR_FEE_PERCENT
      /\ b * D <= t * COMMUNITY_FEE_PERCENT
      /\ c * D <= t * TRADER_REWARDS_FEE_PERCENT
  BY <1>2, SplitAssumption
<1> HIDE DEF t, a, b, c
<1>5. t * (CREATOR_FEE_PERCENT + COMMUNITY_FEE_PERCENT + TRADER_REWARDS_FEE_PERCENT)
        <= t * D
  BY <1>1, SplitAssumption
<1>6. (a + b + c) * D <= t * D
  BY <1>1, <1>3, <1>4, <1>5, SplitAssumption
<1>7. a + b + c <= t
  BY <1>1, <1>3, <1>6, SplitAssumption
<1>8. splitFee(g) = [totalFee |-> t, creatorFee |-> a, communityFee |-> b,
                     traderRewardsFee |-> c, protocolFee |-> t - a - b - c]
  BY DEF splitFee, t, a, b, c
<1> QED BY <1>1, <1>3, <1>7, <1>8

-----------------------------------------------------------------------------
(* The deployed constants. *)

\* A third of a token unit separates the virtual reserve from 3.2 * 10^27 / 3:
\* the linear facts every later step multiplies out.
LEMMA Magnitudes ==
  /\ Ether \in Nat \ {0} /\ Ether = 1000000000000000000
  /\ CurveAllocation \in Nat \ {0} /\ LpAllocation \in Nat \ {0}
  /\ VirtualTokens \in Nat \ {0} /\ VirtualEth = Ether
  /\ GraduationReserve = 3 * Ether /\ Last = 4 * Ether
  /\ Rest \in Nat \ {0} /\ CurveAllocation < VirtualTokens
  /\ 3 * VirtualTokens = 3200000000 * Ether + 1
  /\ 4 * Rest = VirtualTokens + 1
  /\ 3 * Rest = 800000000 * Ether + 1
<1>1. Ether \in Nat \ {0} /\ Ether = 1000000000000000000
  BY SMT DEF Ether
<1>2. /\ CurveAllocation = 800000000 * Ether
      /\ LpAllocation = 200000000 * Ether
      /\ VirtualTokens = 1066666666 * Ether + 666666666666666667
      /\ VirtualEth = Ether
      /\ GraduationReserve = 3 * Ether
  BY SMT DEF CurveAllocation, LpAllocation, VirtualTokens, VirtualEth, GraduationReserve
<1>3. Rest = VirtualTokens - CurveAllocation /\ Last = VirtualEth + GraduationReserve
  BY SMT DEF Rest, Last
<1> DEFINE tail == 666666666666666667
<1>4. tail \in Nat /\ 3 * tail = 2 * Ether + 1 /\ VirtualTokens = 1066666666 * Ether + tail
  BY <1>2, SMT DEF Ether
<1>5. Ether \in Nat \ {0}
  BY <1>1
<1> HIDE DEF tail
<1>6. /\ CurveAllocation \in Nat \ {0} /\ LpAllocation \in Nat \ {0}
      /\ VirtualTokens \in Nat \ {0} /\ VirtualEth = Ether
      /\ GraduationReserve = 3 * Ether /\ Last = 4 * Ether
      /\ Rest \in Nat \ {0} /\ CurveAllocation < VirtualTokens
      /\ 3 * VirtualTokens = 3200000000 * Ether + 1
      /\ 4 * Rest = VirtualTokens + 1
      /\ 3 * Rest = 800000000 * Ether + 1
  BY <1>2, <1>3, <1>4, <1>5, SMT
<1> QED BY <1>1, <1>6, SMT

\* The assumptions of EndpointMath on supplies, endpoint and granularity hold
\* of the deployed constants.
THEOREM DeployedCurveAssumptions ==
  /\ CurveAllocation \in Nat \ {0} /\ LpAllocation \in Nat \ {0}
  /\ VirtualTokens \in Nat \ {0} /\ VirtualEth \in Nat \ {0}
  /\ GraduationReserve \in Nat \ {0} /\ Ether \in Nat \ {0}
  /\ CurveAllocation < VirtualTokens
  /\ Rest * Last >= Deployed!K
  /\ Rest * (Last - 1) < Deployed!K
  /\ (Last - 1) * (Last - 2) < Deployed!K
<1>1. Deployed!K = VirtualTokens * Ether
  BY SMT DEF Deployed!K, VirtualEth
<1>2. Rest * Last = (4 * Rest) * Ether
  BY Magnitudes, SMT
<1>3. Rest * Last = VirtualTokens * Ether + Ether
  BY <1>2, Magnitudes, SMT
<1>4. Rest * (Last - 1) = Rest * Last - Rest /\ Rest > Ether
  BY Magnitudes, SMT
<1>5. (Last - 1) * (Last - 2) < Last * Last
  BY Magnitudes, SMT
<1>6. Last * Last = (16 * Ether) * Ether
  BY Magnitudes, SMT
<1>7. 16 * Ether < VirtualTokens
  BY Magnitudes, SMT
<1>8. (16 * Ether) * Ether < VirtualTokens * Ether
  BY <1>7, Magnitudes, SMT
<1>9. /\ Rest * Last >= Deployed!K
      /\ Rest * (Last - 1) < Deployed!K
      /\ (Last - 1) * (Last - 2) < Deployed!K
  <2> DEFINE t == VirtualTokens * Ether
             r == Rest * Last
  <2>1. t \in Nat /\ r \in Nat
    BY Magnitudes, SMT
  <2> HIDE DEF t, r
  <2>2. r = t + Ether /\ Deployed!K = t /\ Rest * (Last - 1) = r - Rest
    BY <1>1, <1>3, <1>4 DEF t, r
  <2>3. (Last - 1) * (Last - 2) < Deployed!K
    BY <1>1, <1>5, <1>6, <1>8, Magnitudes, SMT
  <2> QED BY <2>1, <2>2, <2>3, <1>4, Magnitudes, SMT DEF r
<1> QED BY <1>9, Magnitudes, SMT

\* The fee and split assumptions of EndpointMath hold of the deployed ones.
THEOREM DeployedFeeAssumptions ==
  /\ 100 < 10000 /\ 10000 % 100 = 0
  /\ 35 + 20 + 15 <= 100
  /\ Deployed!NET_GROSS_ADJUSTMENT_DENOMINATOR = 99
  BY SMT DEF Deployed!NET_GROSS_ADJUSTMENT_DENOMINATOR

\* The bounds that determine a ceiling division of a product.
LEMMA CeilOfProduct ==
  ASSUME NEW x \in Nat \ {0}, NEW y \in Nat \ {0}, NEW b \in Nat \ {0}, NEW c \in Nat,
         x * y <= c * b, (c - 1) * b < x * y
  PROVE  Deployed!ceilDiv(x * y, b) = c
<1> DEFINE a == x * y
           d == ((a - 1) \div b) + 1
<1>1. a \in Nat \ {0}
  OBVIOUS
<1> HIDE DEF a
<1>2. d \in Nat \ {0} /\ a <= d * b /\ (d - 1) * b < a
  BY <1>1, SMT
<1>3. Deployed!ceilDiv(a, b) = d
  BY <1>1 DEF Deployed!ceilDiv
<1> HIDE DEF d
<1>4. a <= c * b /\ (c - 1) * b < a
  BY DEF a
<1>5. (c - 1) * b < d * b /\ (d - 1) * b < c * b
  BY <1>1, <1>2, <1>4
<1>6. c - 1 < d /\ d - 1 < c
  BY <1>2, <1>5
<1> QED BY <1>2, <1>3, <1>6 DEF a

\* INITIAL_PRICE, TERMINAL_PRICE and EXACT_GRADUATION_GROSS are what spotPrice
\* returns before the first trade and at graduation, and what
\* grossRequiredForNet returns, with no mismatch, for the whole reserve.
THEOREM DeployedDerivedConstants ==
  /\ Deployed!ceilDiv(VirtualEth * Ether, VirtualTokens) = INITIAL_PRICE
  /\ Deployed!ceilDiv(Last * Ether, Rest) = TERMINAL_PRICE
  /\ Deployed!grossRequiredForNet(GraduationReserve) = EXACT_GRADUATION_GROSS
  /\ ~Deployed!grossMismatch(GraduationReserve)
<1>1. Deployed!ceilDiv(VirtualEth * Ether, VirtualTokens) = INITIAL_PRICE
  <2>1. INITIAL_PRICE \in Nat /\ INITIAL_PRICE = 312500000 * 3
    BY SMT DEF INITIAL_PRICE
  <2>2. INITIAL_PRICE * VirtualTokens = 312500000 * (3200000000 * Ether + 1)
    BY <2>1, Magnitudes, SMT
  <2>3. INITIAL_PRICE * VirtualTokens = Ether * Ether + 312500000
    BY <2>2, Magnitudes, SMT
  <2>4. (INITIAL_PRICE - 1) * VirtualTokens < Ether * Ether
    BY <2>1, <2>3, Magnitudes, SMT
  <2> QED BY <2>1, <2>3, <2>4, CeilOfProduct, Magnitudes, SMT
<1>2. Deployed!ceilDiv(Last * Ether, Rest) = TERMINAL_PRICE
  <2>1. TERMINAL_PRICE \in Nat /\ TERMINAL_PRICE = 5000000000 * 3
    BY SMT DEF TERMINAL_PRICE
  <2>2. TERMINAL_PRICE * Rest = 5000000000 * (800000000 * Ether + 1)
    BY <2>1, Magnitudes, SMT
  <2>3. TERMINAL_PRICE * Rest = Last * Ether + 5000000000
    BY <2>2, Magnitudes, SMT
  <2>4. (TERMINAL_PRICE - 1) * Rest < Last * Ether
    BY <2>1, <2>3, Magnitudes, SMT
  <2>5. Last \in Nat \ {0}
    BY Magnitudes, SMT
  <2> QED BY <2>1, <2>3, <2>4, <2>5, CeilOfProduct, Magnitudes, SMT
<1>3. Deployed!grossRequiredForNet(GraduationReserve) = EXACT_GRADUATION_GROSS
  <2>1. Deployed!grossRequiredForNet(GraduationReserve)
          = GraduationReserve + ((GraduationReserve - 1) \div 99)
    BY Magnitudes, DeployedFeeAssumptions, SMT DEF Deployed!grossRequiredForNet
  <2> QED BY <2>1, Magnitudes, SMT DEF EXACT_GRADUATION_GROSS
<1>4. ~Deployed!grossMismatch(GraduationReserve)
  <2> DEFINE g == EXACT_GRADUATION_GROSS
             fee == 30303030303030303
  <2>1. fee \in Nat /\ g = 100 * fee + 3 /\ g - fee = 3000000000000000000
    BY SMT DEF EXACT_GRADUATION_GROSS
  <2> HIDE DEF g, fee
  <2>2. (g * 100) \div 10000 = fee
    BY <2>1, SMT
  <2>3. Deployed!netOf(g) = GraduationReserve
    BY <2>1, <2>2, Magnitudes, SMT DEF Deployed!netOf, Deployed!totalFeeOf
  <2> QED BY <1>3, <2>3 DEF Deployed!grossMismatch, g
<1> QED BY <1>1, <1>2, <1>3, <1>4

-----------------------------------------------------------------------------
(* The curve. *)

IInv ==
  /\ TypeOK
  /\ PathIndependence
  /\ GraduationComplete
  /\ curveEth >= activeEthReserve

USE AllocationAssumption

\* The coordinates an open curve may be in.
OnCurve(sold, reserve) ==
  /\ sold \in 0..(CURVE_ALLOCATION - 1)
  /\ reserve \in 0..(GRADUATION_RESERVE - 1)
  /\ virtualEthAt(reserve) = ceilDiv(K, virtualTokensAt(sold))

LEMMA OpenIsOnCurve ==
  ASSUME TypeOK, PathIndependence, GraduationComplete, ~graduated
  PROVE  OnCurve(soldSupply, activeEthReserve)
  BY DEF TypeOK, PathIndependence, GraduationComplete, OnCurve

\* Below the graduation reserve the purchase quote lands back on the curve,
\* short of the allocation.
LEMMA TokensAfterOnCurve ==
  ASSUME NEW reserve \in 0..(GRADUATION_RESERVE - 1)
  PROVE  /\ tokensAfter(reserve) \in Nat \ {0}
         /\ tokensAfter(reserve) > VIRTUAL_TOKEN_RESERVE - CURVE_ALLOCATION
         /\ ceilDiv(K, tokensAfter(reserve)) = virtualEthAt(reserve)
<1> DEFINE e == virtualEthAt(reserve)
           x == tokensAfter(reserve)
           last == VIRTUAL_ETH_RESERVE + GRADUATION_RESERVE - 1
           rest == VIRTUAL_TOKEN_RESERVE - CURVE_ALLOCATION
<1>1. e \in Nat \ {0} /\ last \in Nat \ {0} /\ e <= last /\ rest \in Nat \ {0}
  BY DEF virtualEthAt
<1>2. last * (last - 1) < K /\ rest * last < K
  BY GranularityAssumption, EndpointAssumption
<1>3. K \in Nat \ {0}
  BY KPositive
<1>4. x = ceilDiv(K, e)
  BY DEF tokensAfter
<1>5. x \in Nat \ {0} /\ K <= x * e
  BY <1>1, <1>3, <1>4, CeilBounds
<1> HIDE DEF e, last, rest, x
<1>6. e * (e - 1) <= last * (last - 1)
  BY <1>1
<1>7. e * (e - 1) < K
  BY <1>1, <1>2, <1>3, <1>6
<1>8. ceilDiv(K, x) = e
  BY <1>1, <1>3, <1>4, <1>7, CeilInverse
<1>9. x > rest
  <2>1. rest * e <= rest * last
    BY <1>1
  <2>2. rest * e < x * e
    BY <2>1, <1>1, <1>2, <1>3, <1>5
  <2> QED BY <2>2, <1>1, <1>5
<1> QED BY <1>5, <1>8, <1>9 DEF e, x, rest

\* A curve that has sold nothing needs no reserve.
LEMMA EmptyCurve == ceilDiv(K, VIRTUAL_TOKEN_RESERVE) = VIRTUAL_ETH_RESERVE
<1>1. K <= VIRTUAL_ETH_RESERVE * VIRTUAL_TOKEN_RESERVE
  BY DEF K
<1>2. (VIRTUAL_ETH_RESERVE - 1) * VIRTUAL_TOKEN_RESERVE < K
  BY DEF K
<1> QED BY <1>1, <1>2, KPositive, CeilUnique

\* Fewer tokens sold never need more reserve.
LEMMA ReserveMonotone ==
  ASSUME NEW s \in 0..(CURVE_ALLOCATION - 1), NEW t \in 0..s
  PROVE  /\ ceilDiv(K, virtualTokensAt(t)) \in Nat
         /\ ceilDiv(K, virtualTokensAt(t)) <= ceilDiv(K, virtualTokensAt(s))
         /\ VIRTUAL_ETH_RESERVE <= ceilDiv(K, virtualTokensAt(t))
<1>1. /\ virtualTokensAt(s) \in Nat \ {0}
      /\ virtualTokensAt(t) \in Nat \ {0}
      /\ virtualTokensAt(s) <= virtualTokensAt(t)
      /\ virtualTokensAt(t) <= VIRTUAL_TOKEN_RESERVE
  BY DEF virtualTokensAt
<1>2. K \in Nat \ {0}
  BY KPositive
<1>3. ceilDiv(K, virtualTokensAt(t)) <= ceilDiv(K, virtualTokensAt(s))
  BY <1>1, <1>2, CeilAntitone
<1>4. ceilDiv(K, VIRTUAL_TOKEN_RESERVE) <= ceilDiv(K, virtualTokensAt(t))
  BY <1>1, <1>2, CeilAntitone
<1>5. ceilDiv(K, VIRTUAL_TOKEN_RESERVE) = VIRTUAL_ETH_RESERVE
  BY EmptyCurve
<1>6. ceilDiv(K, virtualTokensAt(t)) \in Nat
  BY <1>1, <1>2, CeilBounds
<1> QED BY <1>3, <1>4, <1>5, <1>6

\* Every positive input has a quote on an open curve, and it either fills the
\* reserve and sells the rest of the allocation or lands on the curve again.
LEMMA QuoteBuySound ==
  ASSUME NEW sold, NEW reserve, OnCurve(sold, reserve), NEW g \in Nat \ {0}
  PROVE  LET q == quoteBuyAt(sold, reserve, g)
         IN  /\ ~q.dust /\ ~q.broken
             /\ q.tokensOut \in Nat \ {0}
             /\ q.netCurveInput \in Nat \ {0}
             /\ q.refund \in Nat
             /\ q.acceptedGross \in Nat
             /\ q.reachesGraduation \in BOOLEAN
             /\ q.reachesGraduation => /\ sold + q.tokensOut = CURVE_ALLOCATION
                                       /\ reserve + q.netCurveInput = GRADUATION_RESERVE
             /\ ~q.reachesGraduation => OnCurve(sold + q.tokensOut, reserve + q.netCurveInput)
<1> DEFINE need == GRADUATION_RESERVE - reserve
           capped == netOf(g) >= need
           accepted == IF capped THEN grossRequiredForNet(need) ELSE g
           net == netOf(accepted)
           post == reserve + net
           remaining == CURVE_ALLOCATION - sold
           out == IF post = GRADUATION_RESERVE THEN remaining
                  ELSE virtualTokensAt(sold) - tokensAfter(post)
           q == quoteBuyAt(sold, reserve, g)
<1>a. /\ q.acceptedGross = accepted
      /\ q.netCurveInput = net
      /\ q.refund = g - accepted
      /\ q.tokensOut = out
  BY DEF quoteBuyAt
<1>b. q.reachesGraduation = (post = GRADUATION_RESERVE)
  BY Zenon DEF quoteBuyAt
<1>c. q.dust = (out = 0)
  BY Zenon DEF quoteBuyAt
<1>d. q.broken = (\/ capped /\ grossMismatch(need)
                  \/ accepted > g
                  \/ post > GRADUATION_RESERVE
                  \/ out < 0
                  \/ out > remaining)
  BY Zenon DEF quoteBuyAt
<1> HIDE DEF q
<1>1. /\ sold \in Nat /\ sold < CURVE_ALLOCATION
      /\ reserve \in Nat /\ reserve < GRADUATION_RESERVE
      /\ virtualEthAt(reserve) = ceilDiv(K, virtualTokensAt(sold))
  BY DEF OnCurve
<1>2. need \in Nat \ {0} /\ remaining \in Nat \ {0}
  BY <1>1
<1>3. netOf(g) \in Nat \ {0} /\ netOf(g) <= g
  BY NetPositive
<1>4. ~grossMismatch(need)
  BY <1>2, GrossIsExact
<1>5. CASE capped
  <2>1. accepted \in Nat /\ net = need
    BY <1>2, <1>5, GrossIsExact
  <2>2. accepted <= g
    BY <1>2, <1>5, GrossIsLeast
  <2>3. post = GRADUATION_RESERVE /\ out = remaining
    BY <1>1, <2>1
  <2>4. q.reachesGraduation
    BY <1>b, <2>3
  <2>5. ~q.dust
    BY <1>c, <1>2, <2>3
  <2>6. ~(accepted > g) /\ ~(post > GRADUATION_RESERVE) /\ ~(out < 0) /\ ~(out > remaining)
    BY <1>1, <1>2, <1>3, <2>1, <2>2, <2>3
  <2>7. ~q.broken
    BY <1>d, <1>4, <2>6, Zenon
  <2>8. sold + remaining = CURVE_ALLOCATION /\ reserve + need = GRADUATION_RESERVE
    BY <1>1
  <2>9. g - accepted \in Nat
    BY <2>1, <2>2
  <2> HIDE DEF remaining, need, out, post, net, accepted, capped
  <2> QED BY <1>a, <1>2, <2>1, <2>3, <2>4, <2>5, <2>7, <2>8, <2>9 DEF q
<1>6. CASE ~capped
  <2>1. accepted = g /\ net = netOf(g)
    BY <1>6
  <2>2. net < need
    BY <1>2, <1>3, <1>6, <2>1
  <2>3. post \in 0..(GRADUATION_RESERVE - 1) /\ post > reserve
    BY <1>1, <1>3, <2>1, <2>2
  <2> HIDE DEF post, net, accepted
  <2>4. /\ tokensAfter(post) \in Nat \ {0}
        /\ tokensAfter(post) > VIRTUAL_TOKEN_RESERVE - CURVE_ALLOCATION
        /\ ceilDiv(K, tokensAfter(post)) = virtualEthAt(post)
    BY <2>3, TokensAfterOnCurve
  <2>5. tokensAfter(post) < virtualTokensAt(sold)
    <3>1. virtualTokensAt(sold) \in Nat \ {0} /\ K \in Nat \ {0}
      BY <1>1, KPositive DEF virtualTokensAt
    <3>2. virtualTokensAt(sold) <= tokensAfter(post) =>
            ceilDiv(K, tokensAfter(post)) <= ceilDiv(K, virtualTokensAt(sold))
      BY <2>4, <3>1, CeilAntitone
    <3>3. virtualEthAt(post) > virtualEthAt(reserve)
      BY <2>3, <1>1 DEF virtualEthAt
    <3>4. virtualEthAt(post) \in Nat /\ virtualEthAt(reserve) \in Nat
      BY <2>3, <1>1 DEF virtualEthAt
    <3>5. virtualTokensAt(sold) \in Nat
      BY <3>1
    <3> QED BY <1>1, <2>4, <3>2, <3>3, <3>4, <3>5
  <2>6. out = virtualTokensAt(sold) - tokensAfter(post)
    BY <2>3
  <2>7. out \in Nat \ {0} /\ out < remaining
    BY <1>1, <2>4, <2>5, <2>6 DEF virtualTokensAt
  <2>8. virtualTokensAt(sold + out) = tokensAfter(post)
    BY <1>1, <2>4, <2>6, <2>7 DEF virtualTokensAt
  <2>9. OnCurve(sold + out, post)
    BY <1>1, <2>3, <2>4, <2>7, <2>8 DEF OnCurve
  <2>10. post # GRADUATION_RESERVE /\ post <= GRADUATION_RESERVE
    BY <2>3
  <2>11. ~q.reachesGraduation
    BY <1>b, <2>10
  <2>12. ~q.dust
    BY <1>c, <2>7
  <2>13. ~(accepted > g) /\ ~(post > GRADUATION_RESERVE) /\ ~(out < 0) /\ ~(out > remaining)
    BY <1>2, <1>3, <2>1, <2>7, <2>10, <2>3
  <2>14. ~q.broken
    BY <1>d, <1>6, <2>13, Zenon
  <2>15. reserve + net = post /\ g - accepted = 0
    BY <2>1 DEF post
  <2> HIDE DEF remaining, need, out, capped
  <2>16. OnCurve(sold + q.tokensOut, reserve + q.netCurveInput)
    BY <1>a, <2>9, <2>15
  <2>17. q.reachesGraduation \in BOOLEAN
    BY <1>b, Zenon
  <2>18. q.acceptedGross \in Nat /\ q.refund \in Nat /\ q.netCurveInput \in Nat \ {0}
           /\ q.tokensOut \in Nat \ {0}
    BY <1>a, <1>3, <2>1, <2>7, <2>15
  <2> QED BY <2>11, <2>12, <2>14, <2>16, <2>17, <2>18, Zenon DEF q
<1> QED BY <1>5, <1>6

\* A sale quotes the exact difference between two points of the curve.
LEMMA QuoteSellSound ==
  ASSUME NEW sold, NEW reserve, OnCurve(sold, reserve), NEW t \in 1..sold
  PROVE  LET q == quoteSellAt(sold, reserve, t)
         IN  /\ ~q.broken
             /\ q.grossCurveOutput \in 0..reserve
             /\ OnCurve(sold - t, reserve - q.grossCurveOutput)
             /\ q.dust <=> q.grossCurveOutput = 0
<1> DEFINE after == ceilDiv(K, virtualTokensAt(sold - t))
           out == virtualEthAt(reserve) - after
           q == quoteSellAt(sold, reserve, t)
<1>1. /\ sold \in 0..(CURVE_ALLOCATION - 1) /\ sold \in Nat
      /\ reserve \in Nat /\ reserve < GRADUATION_RESERVE
      /\ virtualEthAt(reserve) = ceilDiv(K, virtualTokensAt(sold))
  BY DEF OnCurve
<1>2. sold - t \in 0..sold /\ t # 0 /\ ~(t > sold) /\ t \in Nat
  BY <1>1
<1>3. /\ after \in Nat
      /\ after <= virtualEthAt(reserve)
      /\ VIRTUAL_ETH_RESERVE <= after
  BY <1>1, <1>2, ReserveMonotone
<1> HIDE DEF after
<1>4. out \in 0..reserve
  BY <1>1, <1>3 DEF virtualEthAt
<1>5. q.grossCurveOutput = out
  BY DEF quoteSellAt, sellQuote, after
<1>6. ~q.broken /\ (q.dust <=> out = 0)
  <2>1. q.broken = (out < 0 \/ out > reserve) /\ q.dust = (out = 0)
    BY Zenon DEF quoteSellAt, sellQuote, after
  <2>2. ~(out < 0) /\ ~(out > reserve)
    BY <1>1, <1>4
  <2> QED BY <2>1, <2>2, Zenon
<1>7. virtualEthAt(reserve - out) = after
  BY <1>1, <1>3 DEF virtualEthAt
<1>8. OnCurve(sold - t, reserve - out)
  BY <1>1, <1>2, <1>4, <1>7 DEF OnCurve, after
<1> QED BY <1>4, <1>5, <1>6, <1>8

-----------------------------------------------------------------------------
LEMMA InitInvariant == Init => IInv
<1> SUFFICES ASSUME Init PROVE IInv
  OBVIOUS
<1>1. virtualEthAt(0) = ceilDiv(K, virtualTokensAt(0))
  BY EmptyCurve DEF virtualEthAt, virtualTokensAt
<1>2. TOTAL_SUPPLY \in Nat
  BY DEF TOTAL_SUPPLY
<1>3. TypeOK
  <2>1. tokenOf \in [Holders -> Nat]
    BY <1>2 DEF Init
  <2>2. graduated \in BOOLEAN
    BY DEF Init
  <2>3. curveEth \in Nat /\ soldSupply \in 0..CURVE_ALLOCATION
          /\ activeEthReserve \in 0..(GRADUATION_RESERVE - 1)
    BY DEF Init
  <2> QED BY <2>1, <2>2, <2>3 DEF Init, TypeOK
<1>4. GraduationComplete
  BY <1>2, HoldersAssumption DEF Init, GraduationComplete, Holders
<1> QED BY <1>1, <1>3, <1>4 DEF Init, IInv, PathIndependence

\* Moving tokens that the sender holds keeps every balance a natural number.
LEMMA MoveType ==
  ASSUME TypeOK, NEW from \in Holders, NEW to \in Holders, from # to,
         NEW a \in Nat, tokenOf[from] >= a
  PROVE  /\ Move(tokenOf, from, to, a) \in [Holders -> Nat]
         /\ \A h \in Holders :
              Move(tokenOf, from, to, a)[h] = IF h = from THEN tokenOf[h] - a
                                              ELSE IF h = to THEN tokenOf[h] + a
                                              ELSE tokenOf[h]
  BY DEF TypeOK, Move

LEMMA BuyOnCurvePreserves ==
  ASSUME IInv, NEW u \in Traders, NEW g \in 1..MaxGross, NEW m \in SlippageBounds,
         buy(u, g, m),
         BuyOnCurve(u, quoteBuyAt(soldSupply, activeEthReserve, g))
  PROVE  IInv'
<1> DEFINE q == quoteBuyAt(soldSupply, activeEthReserve, g)
<1>1. ~graduated /\ TypeOK /\ GraduationComplete /\ curveEth >= activeEthReserve
  BY DEF IInv, buy
<1>2. OnCurve(soldSupply, activeEthReserve)
  BY <1>1, OpenIsOnCurve DEF IInv
<1>3. g \in Nat \ {0}
  BY HoldersAssumption
<1>4. /\ q.tokensOut \in Nat \ {0}
      /\ q.netCurveInput \in Nat \ {0}
      /\ ~q.reachesGraduation => OnCurve(soldSupply + q.tokensOut,
                                         activeEthReserve + q.netCurveInput)
  BY <1>2, <1>3, QuoteBuySound
<1>5. /\ ~q.reachesGraduation
      /\ soldSupply' = soldSupply + q.tokensOut
      /\ activeEthReserve' = activeEthReserve + q.netCurveInput
      /\ curveEth' = curveEth + q.netCurveInput
      /\ tokenOf[Curve] >= q.tokensOut
      /\ tokenOf' = Move(tokenOf, Curve, u, q.tokensOut)
      /\ UNCHANGED <<terminalGraduationReserve, graduationEthForwarded, graduated>>
  BY DEF BuyOnCurve
<1> HIDE DEF q
<1>6. OnCurve(soldSupply', activeEthReserve')
  BY <1>4, <1>5
<1>7. Curve \in Holders /\ u \in Holders /\ Manager \in Holders /\ Curve # u /\ Manager # u
        /\ Curve # Manager
  BY HoldersAssumption DEF Holders
<1>8. /\ tokenOf' \in [Holders -> Nat]
      /\ tokenOf'[Curve] = tokenOf[Curve] - q.tokensOut
      /\ tokenOf'[Manager] = tokenOf[Manager]
  BY <1>1, <1>4, <1>5, <1>7, MoveType
<1>9. TypeOK'
  BY <1>1, <1>4, <1>5, <1>6, <1>8 DEF TypeOK, OnCurve
<1>10. PathIndependence'
  BY <1>6 DEF PathIndependence, OnCurve, virtualEthAt, virtualTokensAt
<1>11. GraduationComplete'
  BY <1>1, <1>4, <1>5, <1>6, <1>7, <1>8 DEF GraduationComplete, OnCurve, TypeOK, TOTAL_SUPPLY
<1>12. (curveEth >= activeEthReserve)'
  BY <1>1, <1>4, <1>5 DEF TypeOK
<1> QED BY <1>9, <1>10, <1>11, <1>12 DEF IInv

LEMMA BuyAndGraduatePreserves ==
  ASSUME IInv, NEW u \in Traders, NEW g \in 1..MaxGross, NEW m \in SlippageBounds,
         buy(u, g, m),
         BuyAndGraduate(u, quoteBuyAt(soldSupply, activeEthReserve, g))
  PROVE  IInv'
<1> DEFINE q == quoteBuyAt(soldSupply, activeEthReserve, g)
           mid == Move(tokenOf, Curve, u, q.tokensOut)
<1>1. ~graduated /\ TypeOK /\ GraduationComplete /\ curveEth >= activeEthReserve
  BY DEF IInv, buy
<1>2. OnCurve(soldSupply, activeEthReserve)
  BY <1>1, OpenIsOnCurve DEF IInv
<1>3. g \in Nat \ {0}
  BY HoldersAssumption
<1>4. q.tokensOut \in Nat \ {0} /\ q.netCurveInput \in Nat \ {0}
  BY <1>2, <1>3, QuoteBuySound
<1>5. /\ soldSupply + q.tokensOut = CURVE_ALLOCATION
      /\ activeEthReserve + q.netCurveInput = GRADUATION_RESERVE
      /\ tokenOf[Curve] - q.tokensOut = LP_ALLOCATION
      /\ soldSupply' = soldSupply + q.tokensOut
      /\ graduated' = TRUE
      /\ terminalGraduationReserve' = activeEthReserve + q.netCurveInput
      /\ graduationEthForwarded' = activeEthReserve + q.netCurveInput
      /\ activeEthReserve' = 0
      /\ curveEth' = curveEth + q.netCurveInput - (activeEthReserve + q.netCurveInput)
      /\ tokenOf' = Move(mid, Curve, Manager, LP_ALLOCATION)
  BY DEF BuyAndGraduate
<1> HIDE DEF q
<1>6. Curve \in Holders /\ u \in Holders /\ Manager \in Holders /\ Curve # u /\ Manager # u
        /\ Curve # Manager
  BY HoldersAssumption DEF Holders
<1>7. tokenOf[Curve] \in Nat /\ tokenOf[Curve] >= q.tokensOut
  BY <1>1, <1>4, <1>5, <1>6 DEF TypeOK
<1>8. /\ mid \in [Holders -> Nat]
      /\ mid[Curve] = LP_ALLOCATION
      /\ mid[Manager] = 0
  BY <1>1, <1>4, <1>5, <1>6, <1>7, MoveType DEF GraduationComplete
<1> HIDE DEF mid
<1>9. /\ tokenOf' \in [Holders -> Nat]
      /\ tokenOf'[Curve] = 0
      /\ tokenOf'[Manager] = LP_ALLOCATION
  BY <1>5, <1>6, <1>8 DEF Move
<1>10. TypeOK'
  BY <1>1, <1>4, <1>5, <1>9 DEF TypeOK
<1>11. GraduationComplete'
  BY <1>4, <1>5, <1>9 DEF GraduationComplete
<1>12. (curveEth >= activeEthReserve)'
  BY <1>1, <1>4, <1>5 DEF TypeOK
<1> QED BY <1>5, <1>10, <1>11, <1>12 DEF IInv, PathIndependence

LEMMA SellPreserves ==
  ASSUME IInv, NEW u \in Traders, NEW t \in 1..CURVE_ALLOCATION, NEW m \in SlippageBounds,
         sell(u, t, m)
  PROVE  IInv'
<1> DEFINE q == quoteSellAt(soldSupply, activeEthReserve, t)
<1>1. ~graduated /\ TypeOK /\ GraduationComplete /\ curveEth >= activeEthReserve
  BY DEF IInv, sell
<1>2. OnCurve(soldSupply, activeEthReserve)
  BY <1>1, OpenIsOnCurve DEF IInv
<1>3. /\ t \in 1..soldSupply
      /\ tokenOf[u] >= t
      /\ curveEth >= q.grossCurveOutput
      /\ soldSupply' = soldSupply - t
      /\ activeEthReserve' = activeEthReserve - q.grossCurveOutput
      /\ curveEth' = curveEth - q.grossCurveOutput
      /\ tokenOf' = Move(tokenOf, u, Curve, t)
      /\ UNCHANGED <<terminalGraduationReserve, graduationEthForwarded, graduated>>
  BY DEF sell
<1>4. /\ q.grossCurveOutput \in 0..activeEthReserve
      /\ OnCurve(soldSupply - t, activeEthReserve - q.grossCurveOutput)
  BY <1>2, <1>3, QuoteSellSound
<1> HIDE DEF q
<1>5. OnCurve(soldSupply', activeEthReserve')
  BY <1>3, <1>4
<1>6. Curve \in Holders /\ u \in Holders /\ Manager \in Holders /\ Curve # u /\ Manager # u
        /\ Curve # Manager
  BY HoldersAssumption DEF Holders
<1>7. /\ tokenOf' \in [Holders -> Nat]
      /\ tokenOf'[Curve] = tokenOf[Curve] + t
      /\ tokenOf'[Manager] = tokenOf[Manager]
  BY <1>1, <1>3, <1>6, MoveType
<1>8. TypeOK'
  BY <1>1, <1>3, <1>4, <1>5, <1>7 DEF TypeOK, OnCurve
<1>9. PathIndependence'
  BY <1>5 DEF PathIndependence, OnCurve, virtualEthAt, virtualTokensAt
<1>10. GraduationComplete'
  BY <1>1, <1>3, <1>5, <1>6, <1>7 DEF GraduationComplete, OnCurve, TypeOK, TOTAL_SUPPLY
<1>11. (curveEth >= activeEthReserve)'
  BY <1>1, <1>3, <1>4 DEF TypeOK
<1> QED BY <1>8, <1>9, <1>10, <1>11 DEF IInv

LEMMA TransferPreserves ==
  ASSUME IInv, NEW u \in Traders, NEW v \in Traders \cup {Curve},
         NEW a \in 1..CURVE_ALLOCATION, Transfer(u, v, a)
  PROVE  IInv'
<1>1. TypeOK /\ GraduationComplete /\ PathIndependence /\ curveEth >= activeEthReserve
  BY DEF IInv
<1>2. UNCHANGED <<curveVars, curveEth>> /\ u # v /\ tokenOf[u] >= a
        /\ tokenOf' = Move(tokenOf, u, v, a)
  BY DEF Transfer
<1>3. /\ Curve \in Holders /\ u \in Holders /\ v \in Holders /\ Manager \in Holders
      /\ Manager # u /\ Manager # v /\ Curve # u
  BY HoldersAssumption DEF Holders
<1>4. /\ tokenOf' \in [Holders -> Nat]
      /\ tokenOf'[Manager] = tokenOf[Manager]
      /\ tokenOf'[Curve] = IF v = Curve THEN tokenOf[Curve] + a ELSE tokenOf[Curve]
  BY <1>1, <1>2, <1>3, MoveType
<1>5. TypeOK'
  BY <1>1, <1>2, <1>4 DEF TypeOK, curveVars
<1>6. PathIndependence'
  BY <1>1, <1>2 DEF PathIndependence, curveVars, virtualEthAt, virtualTokensAt
<1>7. GraduationComplete'
  BY <1>1, <1>2, <1>3, <1>4 DEF GraduationComplete, curveVars, TypeOK, TOTAL_SUPPLY
<1> QED BY <1>1, <1>2, <1>5, <1>6, <1>7 DEF IInv, curveVars

LEMMA NextInvariant == IInv /\ [Next]_vars => IInv'
<1> SUFFICES ASSUME IInv, [Next]_vars PROVE IInv'
  OBVIOUS
<1>1. ASSUME NEW u \in Traders, NEW g \in 1..MaxGross, NEW m \in SlippageBounds,
             buy(u, g, m)
      PROVE  IInv'
  <2>1. \/ BuyOnCurve(u, quoteBuyAt(soldSupply, activeEthReserve, g))
        \/ BuyAndGraduate(u, quoteBuyAt(soldSupply, activeEthReserve, g))
    BY <1>1 DEF buy
  <2> QED BY <1>1, <2>1, BuyOnCurvePreserves, BuyAndGraduatePreserves
<1>2. ASSUME NEW u \in Traders, NEW t \in 1..CURVE_ALLOCATION, NEW m \in SlippageBounds,
             sell(u, t, m)
      PROVE  IInv'
  BY <1>2, SellPreserves
<1>3. ASSUME NEW u \in Traders, NEW v \in Traders, NEW a \in 1..CURVE_ALLOCATION,
             Transfer(u, v, a)
      PROVE  IInv'
  BY <1>3, TransferPreserves, HoldersAssumption
<1>4. ASSUME NEW u \in Traders, NEW a \in 1..CURVE_ALLOCATION, TransferToCurve(u, a)
      PROVE  IInv'
  BY <1>4, TransferPreserves DEF TransferToCurve
<1>5. CASE ForceEth
  <2>1. TypeOK' /\ PathIndependence' /\ GraduationComplete'
    BY <1>5 DEF ForceEth, curveVars, IInv, TypeOK, PathIndependence, GraduationComplete,
                virtualEthAt, virtualTokensAt
  <2>2. (curveEth >= activeEthReserve)'
    BY <1>5 DEF ForceEth, curveVars, IInv, TypeOK
  <2> QED BY <2>1, <2>2 DEF IInv
<1>6. CASE UNCHANGED vars
  BY <1>6 DEF vars, curveVars, IInv, TypeOK, PathIndependence, GraduationComplete,
              virtualEthAt, virtualTokensAt
<1> QED BY <1>1, <1>2, <1>3, <1>4, <1>5, <1>6 DEF Next

\* The inductive invariant holds in every reachable state.
THEOREM Invariant == Spec => []IInv
<1>1. Init => IInv
  BY InitInvariant
<1>2. IInv /\ [Next]_vars => IInv'
  BY NextInvariant
<1> QED BY <1>1, <1>2, PTL DEF Spec

\* Types and bounds of the curve's storage: in particular the active reserve is
\* always below the graduation reserve, whose arrival empties it in one call.
THEOREM TypeCorrect == Spec => []TypeOK
<1>1. IInv => TypeOK
  BY DEF IInv
<1> QED BY <1>1, Invariant, PTL

\* The reserve of an open curve is the one the product curve asks for, to the
\* wei, after any sequence of buy and sell calls.
THEOREM PathIndependent == Spec => []PathIndependence
<1>1. IInv => PathIndependence
  BY DEF IInv
<1> QED BY <1>1, Invariant, PTL

\* The curve graduates exactly when it is sold out, and completely.
THEOREM GraduatesCompletely == Spec => []GraduationComplete
<1>1. IInv => GraduationComplete
  BY DEF IInv
<1> QED BY <1>1, Invariant, PTL

\* Every unit sold can be sold back out of the curve's own reserve.
THEOREM AllSalesCovered == Spec => []SalesCovered
<1>1. IInv => SalesCovered
  <2> SUFFICES ASSUME IInv, ~graduated, NEW t \in 1..soldSupply
               PROVE  /\ curveEth >= activeEthReserve
                      /\ ~quoteSellAt(soldSupply, activeEthReserve, t).broken
    BY DEF SalesCovered, IInv
  <2>1. OnCurve(soldSupply, activeEthReserve)
    BY OpenIsOnCurve DEF IInv
  <2> QED BY <2>1, QuoteSellSound DEF IInv
<1> QED BY <1>1, Invariant, PTL

\* An open curve quotes every positive amount.
THEOREM EveryBuyQuoted == Spec => []BuysAlwaysQuoted
<1>1. IInv => BuysAlwaysQuoted
  <2> SUFFICES ASSUME IInv, ~graduated, NEW g \in 1..MaxGross
               PROVE  /\ ~quoteBuyAt(soldSupply, activeEthReserve, g).dust
                      /\ ~quoteBuyAt(soldSupply, activeEthReserve, g).broken
    BY DEF BuysAlwaysQuoted
  <2>1. OnCurve(soldSupply, activeEthReserve)
    BY OpenIsOnCurve DEF IInv
  <2>2. g \in Nat \ {0}
    BY HoldersAssumption
  <2> QED BY <2>1, <2>2, QuoteBuySound
<1> QED BY <1>1, Invariant, PTL

\* A purchase and the sale of what it bought cancel exactly, fees aside.
THEOREM RoundTripsExact == Spec => []RoundTripExact
<1>1. IInv => RoundTripExact
  <2> SUFFICES ASSUME IInv, ~graduated, NEW g \in 1..MaxGross,
                      ~quoteBuyAt(soldSupply, activeEthReserve, g).reachesGraduation
               PROVE  LET b == quoteBuyAt(soldSupply, activeEthReserve, g)
                          s == quoteSellAt(soldSupply + b.tokensOut,
                                           activeEthReserve + b.netCurveInput, b.tokensOut)
                      IN  ~s.dust /\ ~s.broken /\ s.grossCurveOutput = b.netCurveInput
    BY DEF RoundTripExact
  <2> DEFINE b == quoteBuyAt(soldSupply, activeEthReserve, g)
             sold == soldSupply + b.tokensOut
             reserve == activeEthReserve + b.netCurveInput
             s == quoteSellAt(sold, reserve, b.tokensOut)
  <2>1. OnCurve(soldSupply, activeEthReserve)
    BY OpenIsOnCurve DEF IInv
  <2>2. g \in Nat \ {0}
    BY HoldersAssumption
  <2>3. b.tokensOut \in Nat \ {0} /\ b.netCurveInput \in Nat \ {0} /\ OnCurve(sold, reserve)
    BY <2>1, <2>2, QuoteBuySound
  <2>4. soldSupply \in Nat /\ activeEthReserve \in Nat
    BY DEF IInv, TypeOK
  <2> HIDE DEF b
  <2>5. b.tokensOut \in 1..sold /\ sold - b.tokensOut = soldSupply
    BY <2>3, <2>4
  <2>6. ~s.broken /\ (s.dust <=> s.grossCurveOutput = 0)
    BY <2>3, <2>5, QuoteSellSound
  <2>7. s.grossCurveOutput
          = virtualEthAt(reserve) - ceilDiv(K, virtualTokensAt(soldSupply))
    BY <2>5 DEF quoteSellAt, sellQuote
  <2>8. ceilDiv(K, virtualTokensAt(soldSupply)) = virtualEthAt(activeEthReserve)
    BY <2>1 DEF OnCurve
  <2>9. s.grossCurveOutput = b.netCurveInput
    BY <2>3, <2>4, <2>7, <2>8 DEF virtualEthAt
  <2> QED BY <2>3, <2>6, <2>9 DEF b
<1> QED BY <1>1, Invariant, PTL

\* From every open state one exact purchase graduates the curve.
THEOREM GraduationAlwaysOneBuyAway == Spec => []GraduationOneBuyAway
<1>1. IInv => GraduationOneBuyAway
  <2> SUFFICES ASSUME IInv, ~graduated PROVE GraduationOneBuyAway
    BY DEF GraduationOneBuyAway
  <2> DEFINE need == GRADUATION_RESERVE - activeEthReserve
             g == grossRequiredForNet(need)
             b == quoteBuyAt(soldSupply, activeEthReserve, g)
  <2>1. OnCurve(soldSupply, activeEthReserve)
    BY OpenIsOnCurve DEF IInv
  <2>2. need \in Nat \ {0} /\ soldSupply \in Nat /\ activeEthReserve \in Nat
    BY DEF IInv, TypeOK
  <2> HIDE DEF need
  <2>3. g \in Nat /\ netOf(g) = need
    BY <2>2, GrossIsExact
  <2>4. g # 0
    <3>1. 0 \in Nat /\ totalFeeOf(0) \in Nat
      BY FeeBounds
    <3>2. netOf(0) <= 0
      BY <3>1 DEF netOf
    <3> QED BY <2>2, <2>3, <3>2
  <2> HIDE DEF g
  <2>5. /\ ~b.dust /\ ~b.broken
        /\ b.tokensOut \in Nat
        /\ b.reachesGraduation => soldSupply + b.tokensOut = CURVE_ALLOCATION
    BY <2>1, <2>3, <2>4, QuoteBuySound
  <2>6. b.reachesGraduation = (activeEthReserve + netOf(g) = GRADUATION_RESERVE)
    <3>1. (IF netOf(g) >= GRADUATION_RESERVE - activeEthReserve
           THEN grossRequiredForNet(GRADUATION_RESERVE - activeEthReserve) ELSE g) = g
      BY DEF g, need
    <3> QED BY <3>1, Zenon DEF quoteBuyAt
  <2>7. activeEthReserve + netOf(g) = GRADUATION_RESERVE
    BY <2>2, <2>3 DEF need
  <2>8. b.reachesGraduation
    BY <2>6, <2>7
  <2>9. b.refund = 0
    <3>1. b.refund = g - (IF netOf(g) >= GRADUATION_RESERVE - activeEthReserve
           THEN grossRequiredForNet(GRADUATION_RESERVE - activeEthReserve) ELSE g)
      BY DEF quoteBuyAt
    <3>2. b.refund = g - g
      BY <3>1 DEF g, need
    <3> QED BY <3>2, <2>3
  <2>10. tokenOf[Curve] + soldSupply = TOTAL_SUPPLY => tokenOf[Curve] - b.tokensOut = LP_ALLOCATION
    <3>1. tokenOf[Curve] \in Nat
      BY DEF IInv, TypeOK, Holders
    <3> QED BY <2>2, <2>5, <2>8, <3>1 DEF TOTAL_SUPPLY
  <2> QED BY <2>5, <2>8, <2>9, <2>10 DEF GraduationOneBuyAway, g, need
<1> QED BY <1>1, Invariant, PTL

-----------------------------------------------------------------------------
\* A step of the curve is a trade or the graduation of the abstract curve, or
\* leaves its three variables alone.
LEMMA StepSimulation ==
  ASSUME IInv, IInv', [Next]_vars
  PROVE  [Abstract!ANext]_(Abstract!abstractVars)
<1>1. TypeOK /\ GraduationComplete /\ PathIndependence
        /\ TypeOK' /\ GraduationComplete' /\ PathIndependence'
  BY DEF IInv
<1>2. ASSUME NEW u \in Traders, NEW g \in 1..MaxGross, NEW m \in SlippageBounds,
             buy(u, g, m)
      PROVE  ~graduated /\ (UNCHANGED graduationEthForwarded \/ graduated')
  BY <1>2 DEF buy, BuyOnCurve, BuyAndGraduate
<1>3. ASSUME NEW u \in Traders, NEW t \in 1..CURVE_ALLOCATION, NEW m \in SlippageBounds,
             sell(u, t, m)
      PROVE  ~graduated /\ (UNCHANGED graduationEthForwarded \/ graduated')
  BY <1>3 DEF sell
<1>4. \/ ~graduated /\ (UNCHANGED graduationEthForwarded \/ graduated')
      \/ UNCHANGED curveVars
  BY <1>2, <1>3 DEF Next, TransferToCurve, Transfer, ForceEth, vars
<1>5. CASE UNCHANGED curveVars
  BY <1>5 DEF curveVars, Abstract!abstractVars
<1>6. CASE ~graduated /\ graduated'
  <2>1. graduationEthForwarded = 0
    BY <1>1, <1>6 DEF GraduationComplete
  <2>2. /\ soldSupply' = CURVE_ALLOCATION
        /\ activeEthReserve' = 0
        /\ graduationEthForwarded' = GRADUATION_RESERVE
    BY <1>1, <1>6 DEF GraduationComplete
  <2> QED BY <2>1, <2>2 DEF Abstract!ANext, Abstract!Graduate, Abstract!Open
<1>7. CASE ~graduated /\ ~graduated' /\ UNCHANGED graduationEthForwarded
  <2>1. graduationEthForwarded = 0
    BY <1>1, <1>7 DEF GraduationComplete
  <2>2. soldSupply' \in 0..(CURVE_ALLOCATION - 1)
    BY <1>1, <1>7 DEF GraduationComplete, TypeOK
  <2>3. activeEthReserve' \in Nat /\ activeEthReserve' < GRADUATION_RESERVE
    BY <1>1 DEF TypeOK
  <2>4. VIRTUAL_ETH_RESERVE + activeEthReserve'
          = ceilDiv(K, VIRTUAL_TOKEN_RESERVE - soldSupply')
    BY <1>1, <1>7 DEF PathIndependence, virtualEthAt, virtualTokensAt
  <2>5. activeEthReserve' = Abstract!ReserveFor(soldSupply')
    BY <2>3, <2>4 DEF Abstract!ReserveFor, Abstract!ceilDiv, ceilDiv, Abstract!K, K
  <2> QED BY <1>7, <2>1, <2>2, <2>3, <2>5
       DEF Abstract!ANext, Abstract!Trade, Abstract!Open
<1> QED BY <1>4, <1>5, <1>6, <1>7

\* ZonkCurveV3 implements the abstract bonding curve.
THEOREM Refinement == Spec => ImplementsBondingCurve
<1>1. Init => Abstract!AInit
  BY DEF Init, Abstract!AInit
<1>2. IInv /\ IInv' /\ [Next]_vars => [Abstract!ANext]_(Abstract!abstractVars)
  BY StepSimulation
<1> QED BY <1>1, <1>2, Invariant, PTL DEF Spec, Abstract!ASpec, ImplementsBondingCurve
-----------------------------------------------------------------------------
(* The price. *)

\* More ETH over fewer tokens is no lower a price, rounded up.
LEMMA PriceMonotone ==
  ASSUME NEW e \in Nat \ {0}, NEW f \in Nat \ {0}, e <= f,
         NEW x \in Nat \ {0}, NEW z \in Nat \ {0}, z <= x
  PROVE  ceilDiv(e * WAD, x) <= ceilDiv(f * WAD, z)
<1> DEFINE a == e * WAD
           b == f * WAD
           p == ceilDiv(a, x)
           q == ceilDiv(b, z)
<1>1. a \in Nat \ {0} /\ b \in Nat \ {0} /\ a <= b
  BY SMT
<1> HIDE DEF a, b
<1>2. p \in Nat \ {0} /\ (p - 1) * x < a
  BY <1>1, CeilBounds
<1>3. q \in Nat \ {0} /\ b <= q * z
  BY <1>1, CeilBounds
<1> HIDE DEF p, q
<1>4. q * z <= q * x
  BY <1>3
<1>5. (p - 1) * x < q * x
  BY <1>1, <1>2, <1>3, <1>4
<1>6. p - 1 < q
  BY <1>2, <1>3, <1>5
<1> QED BY <1>2, <1>3, <1>6 DEF a, b, p, q

\* The more is sold, the fewer virtual tokens are left.
LEMMA TokensLeft ==
  ASSUME NEW s \in 0..CURVE_ALLOCATION, NEW t \in 0..CURVE_ALLOCATION
  PROVE  /\ virtualTokensAt(s) \in Nat \ {0}
         /\ s < t => virtualTokensAt(t) <= virtualTokensAt(s)
BY DEF virtualTokensAt

\* The virtual reserves the spot price is taken from.
LEMMA PriceCoordinate ==
  ASSUME IInv
  PROVE  /\ virtualTokensAt(soldSupply) \in Nat \ {0}
         /\ virtualEthAt(reserveCoordinate) \in Nat \ {0}
         /\ virtualEthAt(reserveCoordinate) <= VIRTUAL_ETH_RESERVE + GRADUATION_RESERVE
         /\ ~graduated =>
              virtualEthAt(reserveCoordinate) = ceilDiv(K, virtualTokensAt(soldSupply))
         /\ graduated =>
              /\ soldSupply = CURVE_ALLOCATION
              /\ reserveCoordinate = GRADUATION_RESERVE
BY DEF IInv, TypeOK, PathIndependence, GraduationComplete, reserveCoordinate,
       virtualTokensAt, virtualEthAt

\* The statement PriceFollowsSupply makes of one step.
PriceFollows ==
  /\ soldSupply' > soldSupply => spotPrice' >= spotPrice
  /\ soldSupply' < soldSupply => spotPrice' <= spotPrice
  /\ graduated' /\ ~graduated =>
       spotPrice' = priceAt(CURVE_ALLOCATION, GRADUATION_RESERVE)

LEMMA PriceStep ==
  ASSUME IInv, IInv', [Next]_vars
  PROVE  PriceFollows
<1> DEFINE x == virtualTokensAt(soldSupply)
           z == virtualTokensAt(soldSupply')
           e == virtualEthAt(reserveCoordinate)
           f == virtualEthAt(reserveCoordinate')
<1>1. /\ x \in Nat \ {0} /\ e \in Nat \ {0}
      /\ e <= VIRTUAL_ETH_RESERVE + GRADUATION_RESERVE
      /\ ~graduated => e = ceilDiv(K, x)
  BY PriceCoordinate
<1>2. /\ z \in Nat \ {0} /\ f \in Nat \ {0}
      /\ ~graduated' => f = ceilDiv(K, z)
      /\ graduated' => /\ soldSupply' = CURVE_ALLOCATION
                       /\ reserveCoordinate' = GRADUATION_RESERVE
  <2>1. TypeOK' /\ PathIndependence' /\ GraduationComplete'
    BY DEF IInv
  <2>2. CASE graduated'
    BY <2>1, <2>2 DEF TypeOK, GraduationComplete, reserveCoordinate, virtualTokensAt,
                      virtualEthAt
  <2>3. CASE ~graduated'
    <3>1. reserveCoordinate' = activeEthReserve'
      BY <2>3 DEF reserveCoordinate
    <3>2. f = ceilDiv(K, z)
      BY <2>1, <2>3, <3>1 DEF PathIndependence
    <3>3. z \in Nat \ {0}
      BY <2>1, TokensLeft DEF TypeOK
    <3>4. f \in Nat \ {0}
      BY <3>2, <3>3, KPositive, CeilBounds
    <3> QED BY <2>3, <3>2, <3>3, <3>4
  <2> QED BY <2>2, <2>3
<1>3. spotPrice = ceilDiv(e * WAD, x) /\ spotPrice' = ceilDiv(f * WAD, z)
  BY DEF spotPrice, priceAt
<1>4. ~graduated \/ UNCHANGED curveVars
  BY DEF Next, buy, sell, TransferToCurve, Transfer, ForceEth, vars
<1>5. soldSupply \in 0..CURVE_ALLOCATION /\ soldSupply' \in 0..CURVE_ALLOCATION
  BY DEF IInv, TypeOK
<1>6. /\ soldSupply' > soldSupply => z <= x
      /\ soldSupply' < soldSupply => x <= z
  <2>1. \A s, t \in 0..CURVE_ALLOCATION :
          s < t => virtualTokensAt(t) <= virtualTokensAt(s)
    BY TokensLeft
  <2> QED BY <1>5, <2>1, Zenon
<1>7. graduated' => f = VIRTUAL_ETH_RESERVE + GRADUATION_RESERVE
  BY <1>2 DEF virtualEthAt
<1>8. graduated' => spotPrice' = priceAt(CURVE_ALLOCATION, GRADUATION_RESERVE)
  BY <1>2 DEF spotPrice, priceAt
<1> HIDE DEF x, z, e, f
<1>9. CASE UNCHANGED curveVars
  BY <1>5, <1>9 DEF curveVars, PriceFollows
<1>10. CASE ~graduated /\ graduated'
  <2>1. e <= f /\ ~(soldSupply' < soldSupply)
    BY <1>1, <1>2, <1>5, <1>7, <1>10
  <2>2. soldSupply' > soldSupply => ceilDiv(e * WAD, x) <= ceilDiv(f * WAD, z)
    BY <1>1, <1>2, <1>6, <2>1, PriceMonotone
  <2>3. spotPrice \in Int /\ spotPrice' \in Int
    <3>1. e * WAD \in Nat \ {0} /\ f * WAD \in Nat \ {0}
      BY <1>1, <1>2, SMT
    <3> QED BY <1>1, <1>2, <1>3, <3>1, CeilBounds
  <2> QED BY <1>3, <1>8, <2>1, <2>2, <2>3 DEF PriceFollows
<1>11. CASE ~graduated /\ ~graduated'
  <2>1. e = ceilDiv(K, x) /\ f = ceilDiv(K, z) /\ K \in Nat \ {0}
    BY <1>1, <1>2, <1>11, KPositive
  <2>2. /\ soldSupply' > soldSupply => e <= f
        /\ soldSupply' < soldSupply => f <= e
    BY <1>1, <1>2, <1>6, <2>1, CeilAntitone
  <2>3. /\ soldSupply' > soldSupply => ceilDiv(e * WAD, x) <= ceilDiv(f * WAD, z)
        /\ soldSupply' < soldSupply => ceilDiv(f * WAD, z) <= ceilDiv(e * WAD, x)
    BY <1>1, <1>2, <1>6, <2>2, PriceMonotone
  <2>4. spotPrice \in Int /\ spotPrice' \in Int
    <3>1. e * WAD \in Nat \ {0} /\ f * WAD \in Nat \ {0}
      BY <1>1, <1>2, SMT
    <3> QED BY <1>1, <1>2, <1>3, <3>1, CeilBounds
  <2> QED BY <1>3, <1>11, <2>3, <2>4 DEF PriceFollows
<1> QED BY <1>4, <1>9, <1>10, <1>11

\* PriceFollowsSupply for every curve: no rounding of a trade or of the price
\* moves the spot price against the supply, and graduation ends at the terminal
\* price.
THEOREM PriceAlwaysFollows == Spec => PriceFollowsSupply
<1>1. IInv /\ IInv' /\ [Next]_vars => [PriceFollows]_vars
  BY PriceStep
<1>2. [][PriceFollows]_vars <=> PriceFollowsSupply
  BY DEF PriceFollows, PriceFollowsSupply
<1> QED BY <1>1, <1>2, Invariant, PTL DEF Spec
=============================================================================
