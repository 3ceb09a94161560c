------------------------------ MODULE ZonkCurve ------------------------------
(***************************************************************************)
(* contracts/src/v3/ZonkCurveV3.sol: the bonding curve of one launch, with *)
(* the ERC-20 holdings it moves.  An external call is one atomic           *)
(* step; a call that reverts leaves no trace, so it is no step.  Deadlines *)
(* can only make a call revert and are left out; the slippage bound is an  *)
(* argument.  Fees leave for FeeManagerV3 (FeeManager.tla), the graduation *)
(* reserve and the pool tokens for GraduationManagerV3.                    *)
(***************************************************************************)
EXTENDS EndpointMath

CONSTANTS
  Traders,
  Curve,          (* the curve's own address            *)
  Manager,        (* the graduation manager's address   *)
  MaxGross,       (* bound: largest ETH sent with a buy *)
  MaxForced,      (* bound: ETH forced into the curve   *)
  MaxUnsolicited, (* bound: tokens sent to the curve outside a sell *)
  SlippageBounds  (* minTokensOut and minEthOut values a caller may ask for *)

ASSUME HoldersAssumption ==
  /\ Curve # Manager
  /\ Curve \notin Traders
  /\ Manager \notin Traders
  /\ MaxGross \in Nat
  /\ MaxForced \in Nat
  /\ MaxUnsolicited \in Nat
  /\ SlippageBounds \subseteq Nat

VARIABLES
  soldSupply,
  activeEthReserve,
  terminalGraduationReserve,
  graduationEthForwarded,
  graduated,
  curveEth,     (* address(curve).balance             *)
  tokenOf       (* ERC-20 balances of the launch token; the manager's is what
                   the curve has sent it *)

curveVars == <<soldSupply, activeEthReserve, terminalGraduationReserve,
               graduationEthForwarded, graduated>>
vars == <<curveVars, curveEth, tokenOf>>

Holders == Traders \cup {Curve, Manager}

-----------------------------------------------------------------------------
virtualTokensAt(sold) == VIRTUAL_TOKEN_RESERVE - sold
virtualEthAt(reserve) == VIRTUAL_ETH_RESERVE + reserve

\* A coordinate that does not switch to the terminal reserve.
CoordinateActiveOnly == activeEthReserve

reserveCoordinate ==
  IF graduated THEN terminalGraduationReserve ELSE activeEthReserve

priceAt(sold, reserve) == ceilDiv(virtualEthAt(reserve) * WAD, virtualTokensAt(sold))

spotPrice == priceAt(soldSupply, reserveCoordinate)

unaccountedEth == IF curveEth > activeEthReserve THEN curveEth - activeEthReserve ELSE 0

\* Rounding the post-trade reserve down instead of up.
TokensAfterFloor(postReserve) == K \div virtualEthAt(postReserve)

\* The tokens a non-terminal purchase leaves in the virtual reserve.
tokensAfter(postReserve) == ceilDiv(K, virtualEthAt(postReserve))

\* quoteBuy of a positive amount on a curve that has not graduated.  dust is
\* the DustTrade revert; broken stands for the reverts that would mean the
\* curve's accounting is wrong: GraduationAccountingMismatch,
\* InsufficientCurveInventory and an unsigned subtraction below zero.
quoteBuyAt(sold, reserve, grossInput) ==
  LET netNeeded     == GRADUATION_RESERVE - reserve
      capped        == netOf(grossInput) >= netNeeded
      acceptedGross == IF capped THEN grossRequiredForNet(netNeeded) ELSE grossInput
      postReserve   == reserve + netOf(acceptedGross)
      reaches       == postReserve = GRADUATION_RESERVE
      remaining     == CURVE_ALLOCATION - sold
      tokensOut     == IF reaches THEN remaining
                       ELSE virtualTokensAt(sold) - tokensAfter(postReserve)
  IN  [acceptedGross |-> acceptedGross,
       netCurveInput |-> netOf(acceptedGross),
       refund |-> grossInput - acceptedGross,
       reachesGraduation |-> reaches,
       tokensOut |-> tokensOut,
       dust |-> tokensOut = 0,
       broken |-> \/ capped /\ grossMismatch(netNeeded)
                  \/ acceptedGross > grossInput
                  \/ postReserve > GRADUATION_RESERVE
                  \/ tokensOut < 0
                  \/ tokensOut > remaining]

sellQuote(out, reserve) ==
  [grossCurveOutput |-> out,
   netSellerOutput |-> netOf(out),
   dust |-> out = 0,
   broken |-> out < 0 \/ out > reserve]

\* A sale that pays one wei less than the curve owes.
QuoteSellOneWeiShort(sold, reserve, tokensIn) ==
  sellQuote(virtualEthAt(reserve) - ceilDiv(K, virtualTokensAt(sold - tokensIn)) - 1,
            reserve)

\* quoteSell of an amount in 1..sold on a curve that has not graduated; broken
\* is a subtraction below zero or InsufficientReserve.
quoteSellAt(sold, reserve, tokensIn) ==
  sellQuote(virtualEthAt(reserve) - ceilDiv(K, virtualTokensAt(sold - tokensIn)),
            reserve)

-----------------------------------------------------------------------------
Init ==
  /\ soldSupply = 0
  /\ activeEthReserve = 0
  /\ terminalGraduationReserve = 0
  /\ graduationEthForwarded = 0
  /\ graduated = FALSE
  /\ curveEth = 0
  /\ tokenOf = [h \in Holders |-> IF h = Curve THEN TOTAL_SUPPLY ELSE 0]

\* ERC-20 transfer: reverts when the sender holds too little.
Move(balances, from, to, amount) ==
  [balances EXCEPT ![from] = @ - amount, ![to] = @ + amount]

\* A purchase below the graduation reserve.
BuyOnCurve(buyer, q) ==
  /\ ~q.reachesGraduation
  /\ soldSupply' = soldSupply + q.tokensOut
  /\ activeEthReserve' = activeEthReserve + q.netCurveInput
  /\ curveEth' = curveEth + q.netCurveInput
  /\ tokenOf[Curve] >= q.tokensOut
  /\ tokenOf' = Move(tokenOf, Curve, buyer, q.tokensOut)
  /\ UNCHANGED <<terminalGraduationReserve, graduationEthForwarded, graduated>>

\* _graduate without clearing the reserve it forwards.
GraduateKeepingReserve(buyer, q) ==
  /\ q.reachesGraduation
  /\ soldSupply' = soldSupply + q.tokensOut
  /\ graduated' = TRUE
  /\ terminalGraduationReserve' = activeEthReserve + q.netCurveInput
  /\ graduationEthForwarded' = activeEthReserve + q.netCurveInput
  /\ activeEthReserve' = activeEthReserve + q.netCurveInput
  /\ curveEth' = curveEth - activeEthReserve
  /\ tokenOf[Curve] - q.tokensOut = LP_ALLOCATION
  /\ tokenOf' = Move(Move(tokenOf, Curve, buyer, q.tokensOut),
                     Curve, Manager, LP_ALLOCATION)

\* The purchase that fills the reserve, with _graduate: it stands only when
\* everything is sold and the curve is left with exactly the pool tokens.
\* The graduation manager may also refuse the call; the purchase is then undone
\* with it and is no step.
BuyAndGraduate(buyer, q) ==
  LET reserve == activeEthReserve + q.netCurveInput
  IN  /\ q.reachesGraduation
      /\ soldSupply + q.tokensOut = CURVE_ALLOCATION
      /\ reserve = GRADUATION_RESERVE
      /\ tokenOf[Curve] - q.tokensOut = LP_ALLOCATION
      /\ soldSupply' = soldSupply + q.tokensOut
      /\ graduated' = TRUE
      /\ terminalGraduationReserve' = reserve
      /\ graduationEthForwarded' = reserve
      /\ activeEthReserve' = 0
      /\ curveEth' = curveEth + q.netCurveInput - reserve
      /\ tokenOf' = Move(Move(tokenOf, Curve, buyer, q.tokensOut),
                         Curve, Manager, LP_ALLOCATION)

buy(buyer, grossInput, minTokensOut) ==
  LET q == quoteBuyAt(soldSupply, activeEthReserve, grossInput)
  IN  /\ ~graduated
      /\ grossInput # 0
      /\ ~q.dust /\ ~q.broken
      /\ q.tokensOut >= minTokensOut
      /\ \/ BuyOnCurve(buyer, q)
         \/ BuyAndGraduate(buyer, q)

\* A sale that forgets to return the tokens to the unsold inventory.
SellKeepingSold(seller, tokensIn, minEthOut) ==
  LET q == quoteSellAt(soldSupply, activeEthReserve, tokensIn)
  IN  /\ ~graduated
      /\ tokensIn \in 1..soldSupply
      /\ ~q.dust /\ ~q.broken
      /\ tokenOf[seller] >= tokensIn
      /\ activeEthReserve' = activeEthReserve - q.grossCurveOutput
      /\ curveEth' = curveEth - q.grossCurveOutput
      /\ tokenOf' = Move(tokenOf, seller, Curve, tokensIn)
      /\ UNCHANGED <<soldSupply, terminalGraduationReserve, graduationEthForwarded, graduated>>

\* A sale that lowers the accounted reserve by the seller's net, not the gross.
SellNetFromReserve(seller, tokensIn, minEthOut) ==
  LET q == quoteSellAt(soldSupply, activeEthReserve, tokensIn)
  IN  /\ ~graduated
      /\ tokensIn \in 1..soldSupply
      /\ ~q.dust /\ ~q.broken
      /\ tokenOf[seller] >= tokensIn
      /\ soldSupply' = soldSupply - tokensIn
      /\ activeEthReserve' = activeEthReserve - q.netSellerOutput
      /\ curveEth' = curveEth - q.grossCurveOutput
      /\ tokenOf' = Move(tokenOf, seller, Curve, tokensIn)
      /\ UNCHANGED <<terminalGraduationReserve, graduationEthForwarded, graduated>>

sell(seller, tokensIn, minEthOut) ==
  LET q == quoteSellAt(soldSupply, activeEthReserve, tokensIn)
  IN  /\ ~graduated
      /\ tokensIn \in 1..soldSupply
      /\ ~q.dust /\ ~q.broken
      /\ q.netSellerOutput >= minEthOut
      /\ tokenOf[seller] >= tokensIn
      /\ curveEth >= q.grossCurveOutput
      /\ soldSupply' = soldSupply - tokensIn
      /\ activeEthReserve' = activeEthReserve - q.grossCurveOutput
      /\ curveEth' = curveEth - q.grossCurveOutput
      /\ tokenOf' = Move(tokenOf, seller, Curve, tokensIn)
      /\ UNCHANGED <<terminalGraduationReserve, graduationEthForwarded, graduated>>

\* ERC-20 transfers between holders.
Transfer(from, to, amount) ==
  /\ from # to
  /\ tokenOf[from] >= amount
  /\ tokenOf' = Move(tokenOf, from, to, amount)
  /\ UNCHANGED <<curveVars, curveEth>>

\* The tokens the curve holds beyond those it has still to sell or to forward.
unsolicited ==
  IF graduated THEN tokenOf[Curve] ELSE tokenOf[Curve] + soldSupply - TOTAL_SUPPLY

\* A holder sends tokens to the curve's address without selling them.
TransferToCurve(from, amount) ==
  /\ unsolicited + amount <= MaxUnsolicited
  /\ Transfer(from, Curve, amount)

\* receive() reverts, so ETH reaches the curve outside buy only by being
\* forced (a block reward, a selfdestruct).
ForceEth ==
  /\ unaccountedEth < MaxForced
  /\ curveEth' = curveEth + 1
  /\ UNCHANGED <<curveVars, tokenOf>>

Next ==
  \/ \E u \in Traders, g \in 1..MaxGross, m \in SlippageBounds : buy(u, g, m)
  \/ \E u \in Traders, t \in 1..CURVE_ALLOCATION, m \in SlippageBounds : sell(u, t, m)
  \/ \E u, v \in Traders, a \in 1..CURVE_ALLOCATION : Transfer(u, v, a)
  \/ \E u \in Traders, a \in 1..CURVE_ALLOCATION : TransferToCurve(u, a)
  \/ ForceEth

Spec == Init /\ [][Next]_vars

-----------------------------------------------------------------------------
TypeOK ==
  /\ soldSupply \in 0..CURVE_ALLOCATION
  /\ activeEthReserve \in 0..(GRADUATION_RESERVE - 1)
  /\ terminalGraduationReserve \in {0, GRADUATION_RESERVE}
  /\ graduationEthForwarded \in {0, GRADUATION_RESERVE}
  /\ graduated \in BOOLEAN
  /\ curveEth \in Nat
  /\ tokenOf \in [Holders -> Nat]

\* No sequence of purchases and sales leaves rounding dust in the reserve or
\* takes any out of it: until graduation the reserve is the one the product
\* curve asks for at the present supply, to the wei, whatever order and sizes
\* of trades quoteBuy and quoteSell rounded on the way.
PathIndependence ==
  ~graduated =>
    virtualEthAt(activeEthReserve) = ceilDiv(K, virtualTokensAt(soldSupply))

\* Every unit sold can be sold back: whatever part of the sold supply a holder
\* offers, quoteSell neither underflows nor finds the reserve short, and the
\* contract holds the ETH, forced ETH never being needed.
SalesCovered ==
  ~graduated =>
    /\ curveEth >= activeEthReserve
    /\ \A t \in 1..soldSupply :
         ~quoteSellAt(soldSupply, activeEthReserve, t).broken

\* Any positive amount buys something: an open curve's quoteBuy reverts for no
\* input but zero, and its accounting checks and subtractions never fire.
BuysAlwaysQuoted ==
  ~graduated =>
    \A g \in 1..MaxGross :
      LET b == quoteBuyAt(soldSupply, activeEthReserve, g)
      IN  ~b.dust /\ ~b.broken

\* Selling back at once exactly what a purchase returned gives back exactly
\* the purchase's net input: a round trip costs its fees, never less and never
\* more, from every reachable state of the curve.
RoundTripExact ==
  ~graduated =>
    \A g \in 1..MaxGross :
      LET b == quoteBuyAt(soldSupply, activeEthReserve, g)
          s == quoteSellAt(soldSupply + b.tokensOut,
                           activeEthReserve + b.netCurveInput, b.tokensOut)
      IN  ~b.reachesGraduation =>
            ~s.dust /\ ~s.broken /\ s.grossCurveOutput = b.netCurveInput

\* From every open state one purchase of the exact gross amount graduates the
\* curve with no refund and sells the rest of the allocation; _graduate's exact
\* balance check then passes unless tokens were sent to the curve outside a
\* sale.
GraduationOneBuyAway ==
  ~graduated =>
    LET gross == grossRequiredForNet(GRADUATION_RESERVE - activeEthReserve)
        b == quoteBuyAt(soldSupply, activeEthReserve, gross)
    IN  /\ ~b.dust /\ ~b.broken /\ b.reachesGraduation /\ b.refund = 0
        /\ tokenOf[Curve] + soldSupply = TOTAL_SUPPLY
             => tokenOf[Curve] - b.tokensOut = LP_ALLOCATION

\* The curve has graduated exactly when its allocation is sold out, and then
\* the whole reserve and the pool tokens have left it; before that nothing has.
GraduationComplete ==
  /\ graduated <=> soldSupply = CURVE_ALLOCATION
  /\ IF graduated
     THEN /\ activeEthReserve = 0
          /\ terminalGraduationReserve = GRADUATION_RESERVE
          /\ graduationEthForwarded = GRADUATION_RESERVE
          /\ tokenOf[Manager] = LP_ALLOCATION
     ELSE /\ terminalGraduationReserve = 0
          /\ graduationEthForwarded = 0
          /\ tokenOf[Manager] = 0
          /\ tokenOf[Curve] >= TOTAL_SUPPLY - soldSupply

\* The spot price moves with supply in every step: a step that sells tokens
\* never lowers it, a step that takes tokens back never raises it, and the
\* graduating step ends at the terminal price, above every earlier one.
PriceFollowsSupply ==
  [][/\ soldSupply' > soldSupply => spotPrice' >= spotPrice
     /\ soldSupply' < soldSupply => spotPrice' <= spotPrice
     /\ graduated' /\ ~graduated =>
          spotPrice' = priceAt(CURVE_ALLOCATION, GRADUATION_RESERVE)]_vars

\* The curve is a bonding curve: its detailed quotes, fees and balances
\* implement the abstract one.
Abstract == INSTANCE BondingCurve WITH
  sold <- soldSupply, reserve <- activeEthReserve, forwarded <- graduationEthForwarded

ImplementsBondingCurve == Abstract!ASpec
=============================================================================
