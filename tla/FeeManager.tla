----------------------------- MODULE FeeManager -----------------------------
(***************************************************************************)
(* contracts/src/v3/FeeManagerV3.sol: the custody of the fees every curve  *)
(* deposits, and their pull-based payment.  A claim sends ETH to an        *)
(* account that may run code, and that code may call the manager again:    *)
(* a claim is two steps, with a window in between where every function     *)
(* that is not nonReentrant can run.  A call that reverts is no step.      *)
(* The contract's treasury and ownership are in TreasuryRotation.tla: the  *)
(* ledger only reads the treasury, as the recipient of a protocol claim.   *)
(*                                                                         *)
(* earned and paid are history: the fees deposited for a token's share,    *)
(* and those that have left the manager; protocolEarned and protocolPaid   *)
(* are the same for the protocol's; offered is the payout address each     *)
(* creator has on offer.                                                   *)
(***************************************************************************)
EXTENDS EndpointMath, FiniteSets

CONSTANTS
  Tokens,
  Addresses,    (* accounts that create tokens and receive creator fees *)
  NoOne,        (* address(0)                                           *)
  Grosses,      (* gross trade amounts a curve takes fees from          *)
  MaxDeposits,  (* bound: deposits                                      *)
  MaxForced     (* bound: ETH forced into the manager                   *)

ASSUME LedgerAssumption ==
  /\ IsFiniteSet(Tokens)
  /\ NoOne \notin Addresses
  /\ Grosses \subseteq Nat
  /\ MaxDeposits \in Nat
  /\ MaxForced \in Nat

VARIABLES
  factorySet,                     (* setFactoryOnce has run           *)
  vaultsBound,                    (* bindEcosystemVaultsOnce has run  *)
  creatorOf,                      (* NoOne until the token is registered *)
  creatorPayoutOf,
  pendingCreatorPayoutOf,
  creatorFeesAccrued,
  communityFeesAccruedByToken,
  traderRewardsFeesAccruedByToken,
  protocolFeesAccrued,
  totalCreatorFeesAccrued,
  communityFeesAccrued,
  traderRewardsFeesAccrued,
  balance,                        (* address(this).balance            *)
  entered,                        (* ReentrancyGuard: a claim is sending *)
  forced,                         (* ETH that arrived without a deposit  *)
  deposits,
  earned,
  paid,
  protocolEarned,
  protocolPaid,
  offered

bootstrap == <<factorySet, vaultsBound>>
payouts == <<creatorOf, creatorPayoutOf, pendingCreatorPayoutOf, offered>>
byToken == <<creatorFeesAccrued, communityFeesAccruedByToken, traderRewardsFeesAccruedByToken>>
totals == <<protocolFeesAccrued, totalCreatorFeesAccrued, communityFeesAccrued,
            traderRewardsFeesAccrued>>
history == <<deposits, earned, paid, protocolEarned, protocolPaid>>
money == <<byToken, totals, balance, forced, history>>
vars == <<bootstrap, payouts, money, entered>>

totalLiabilities ==
  protocolFeesAccrued + totalCreatorFeesAccrued + communityFeesAccrued
    + traderRewardsFeesAccrued

NothingByToken == [t \in Tokens |-> 0]
NobodyByToken == [t \in Tokens |-> NoOne]
NoShares == [t \in Tokens |-> [creator |-> 0, community |-> 0, rewards |-> 0]]

Init ==
  /\ factorySet = FALSE /\ vaultsBound = FALSE
  /\ creatorOf = NobodyByToken
  /\ creatorPayoutOf = NobodyByToken
  /\ pendingCreatorPayoutOf = NobodyByToken
  /\ offered = NobodyByToken
  /\ creatorFeesAccrued = NothingByToken
  /\ communityFeesAccruedByToken = NothingByToken
  /\ traderRewardsFeesAccruedByToken = NothingByToken
  /\ protocolFeesAccrued = 0 /\ totalCreatorFeesAccrued = 0
  /\ communityFeesAccrued = 0 /\ traderRewardsFeesAccrued = 0
  /\ balance = 0 /\ forced = 0 /\ deposits = 0
  /\ entered = FALSE
  /\ earned = NoShares /\ paid = NoShares
  /\ protocolEarned = 0 /\ protocolPaid = 0

-----------------------------------------------------------------------------
setFactoryOnce ==
  /\ ~factorySet
  /\ factorySet' = TRUE
  /\ UNCHANGED <<vaultsBound, payouts, money, entered>>

bindEcosystemVaultsOnce ==
  /\ ~vaultsBound
  /\ vaultsBound' = TRUE
  /\ UNCHANGED <<factorySet, payouts, money, entered>>

\* Called by the factory for a token and a curve it has just deployed.
registerToken(t, creator) ==
  /\ factorySet
  /\ creatorOf[t] = NoOne
  /\ creatorOf' = [creatorOf EXCEPT ![t] = creator]
  /\ creatorPayoutOf' = [creatorPayoutOf EXCEPT ![t] = creator]
  /\ UNCHANGED <<pendingCreatorPayoutOf, offered, bootstrap, money, entered>>

\* The parts use up the total, none of them exceeding what the earlier leave.
validSplit(s) ==
  /\ s.creatorFee <= s.totalFee
  /\ s.protocolFee <= s.totalFee - s.creatorFee
  /\ s.communityFee <= s.totalFee - s.creatorFee - s.protocolFee
  /\ s.traderRewardsFee = s.totalFee - s.creatorFee - s.protocolFee - s.communityFee

\* A credit that one token's community share overwrites instead of adding to.
CommunityOverwritten(t, s) ==
  [communityFeesAccruedByToken EXCEPT ![t] = s.communityFee]

CommunityCredited(t, s) ==
  [communityFeesAccruedByToken EXCEPT ![t] = @ + s.communityFee]

\* Called by the token's curve, which sends totalFee with the call.
depositFees(t, s) ==
  /\ creatorOf[t] # NoOne
  /\ validSplit(s)
  /\ deposits < MaxDeposits
  /\ deposits' = deposits + 1
  /\ balance' = balance + s.totalFee
  /\ protocolFeesAccrued' = protocolFeesAccrued + s.protocolFee
  /\ creatorFeesAccrued' = [creatorFeesAccrued EXCEPT ![t] = @ + s.creatorFee]
  /\ totalCreatorFeesAccrued' = totalCreatorFeesAccrued + s.creatorFee
  /\ communityFeesAccrued' = communityFeesAccrued + s.communityFee
  /\ traderRewardsFeesAccrued' = traderRewardsFeesAccrued + s.traderRewardsFee
  /\ communityFeesAccruedByToken' = CommunityCredited(t, s)
  /\ traderRewardsFeesAccruedByToken' =
       [traderRewardsFeesAccruedByToken EXCEPT ![t] = @ + s.traderRewardsFee]
  /\ protocolEarned' = protocolEarned + s.protocolFee
  /\ earned' = [earned EXCEPT ![t] = [creator |-> @.creator + s.creatorFee,
                                      community |-> @.community + s.communityFee,
                                      rewards |-> @.rewards + s.traderRewardsFee]]
  /\ UNCHANGED <<forced, paid, protocolPaid, bootstrap, payouts, entered>>

-----------------------------------------------------------------------------
\* Called by the creator.
proposeCreatorPayout(t, proposed) ==
  /\ creatorOf[t] # NoOne
  /\ proposed # creatorPayoutOf[t]
  /\ pendingCreatorPayoutOf' = [pendingCreatorPayoutOf EXCEPT ![t] = proposed]
  /\ offered' = [offered EXCEPT ![t] = proposed]
  /\ UNCHANGED <<creatorOf, creatorPayoutOf, bootstrap, money, entered>>

\* Called by the pending payout itself.
acceptCreatorPayout(t) ==
  /\ pendingCreatorPayoutOf[t] # NoOne
  /\ creatorPayoutOf' = [creatorPayoutOf EXCEPT ![t] = pendingCreatorPayoutOf[t]]
  /\ pendingCreatorPayoutOf' = [pendingCreatorPayoutOf EXCEPT ![t] = NoOne]
  /\ offered' = [offered EXCEPT ![t] = NoOne]
  /\ UNCHANGED <<creatorOf, bootstrap, money, entered>>

\* A cancellation that forgets to delete the proposal.
CancelKeepingPending(t) ==
  /\ pendingCreatorPayoutOf[t] # NoOne
  /\ offered' = [offered EXCEPT ![t] = NoOne]
  /\ UNCHANGED <<creatorOf, creatorPayoutOf, pendingCreatorPayoutOf, bootstrap, money, entered>>

\* Called by the creator.
cancelCreatorPayout(t) ==
  /\ pendingCreatorPayoutOf[t] # NoOne
  /\ pendingCreatorPayoutOf' = [pendingCreatorPayoutOf EXCEPT ![t] = NoOne]
  /\ offered' = [offered EXCEPT ![t] = NoOne]
  /\ UNCHANGED <<creatorOf, creatorPayoutOf, bootstrap, money, entered>>

-----------------------------------------------------------------------------
\* A claim that sends before it clears what is owed.
ClaimBeforeClearing ==
  /\ ~entered
  /\ protocolFeesAccrued > 0
  /\ entered' = TRUE
  /\ balance' = balance - protocolFeesAccrued
  /\ protocolPaid' = protocolPaid + protocolFeesAccrued
  /\ UNCHANGED <<byToken, totals, forced, deposits, earned, paid, protocolEarned,
                 bootstrap, payouts>>

\* The accrued amount is cleared, then sent to the treasury: the window opens.
claimProtocolFees ==
  /\ ~entered
  /\ protocolFeesAccrued > 0
  /\ balance >= protocolFeesAccrued
  /\ entered' = TRUE
  /\ protocolFeesAccrued' = 0
  /\ balance' = balance - protocolFeesAccrued
  /\ protocolPaid' = protocolPaid + protocolFeesAccrued
  /\ UNCHANGED <<byToken, totalCreatorFeesAccrued, communityFeesAccrued,
                 traderRewardsFeesAccrued, forced, deposits, earned, paid, protocolEarned,
                 bootstrap, payouts>>

\* The same for a token's creator fees, sent to the creator's payout.
claimCreatorFees(t) ==
  /\ ~entered
  /\ creatorFeesAccrued[t] > 0
  /\ balance >= creatorFeesAccrued[t]
  /\ entered' = TRUE
  /\ creatorFeesAccrued' = [creatorFeesAccrued EXCEPT ![t] = 0]
  /\ totalCreatorFeesAccrued' = totalCreatorFeesAccrued - creatorFeesAccrued[t]
  /\ balance' = balance - creatorFeesAccrued[t]
  /\ paid' = [paid EXCEPT ![t].creator = @ + creatorFeesAccrued[t]]
  /\ UNCHANGED <<communityFeesAccruedByToken, traderRewardsFeesAccruedByToken,
                 protocolFeesAccrued, communityFeesAccrued, traderRewardsFeesAccrued,
                 forced, deposits, earned, protocolEarned, protocolPaid, bootstrap, payouts>>

\* The recipient's code returns and the guard is released.
claimReturns ==
  /\ entered
  /\ entered' = FALSE
  /\ UNCHANGED <<bootstrap, payouts, money>>

\* Funding that clears the token's share but not the total it is part of.
FundKeepingTotal(t) ==
  /\ ~entered /\ vaultsBound
  /\ communityFeesAccruedByToken[t] > 0
  /\ communityFeesAccruedByToken' = [communityFeesAccruedByToken EXCEPT ![t] = 0]
  /\ balance' = balance - communityFeesAccruedByToken[t]
  /\ paid' = [paid EXCEPT ![t].community = @ + communityFeesAccruedByToken[t]]
  /\ UNCHANGED <<creatorFeesAccrued, traderRewardsFeesAccruedByToken, totals, forced,
                 deposits, earned, protocolEarned, protocolPaid, bootstrap, payouts, entered>>

\* The vaults' depositNative records the amount and calls nothing: one step.
fundCommunityVault(t) ==
  /\ ~entered /\ vaultsBound
  /\ communityFeesAccruedByToken[t] > 0
  /\ balance >= communityFeesAccruedByToken[t]
  /\ communityFeesAccruedByToken' = [communityFeesAccruedByToken EXCEPT ![t] = 0]
  /\ communityFeesAccrued' = communityFeesAccrued - communityFeesAccruedByToken[t]
  /\ balance' = balance - communityFeesAccruedByToken[t]
  /\ paid' = [paid EXCEPT ![t].community = @ + communityFeesAccruedByToken[t]]
  /\ UNCHANGED <<creatorFeesAccrued, traderRewardsFeesAccruedByToken, protocolFeesAccrued,
                 totalCreatorFeesAccrued, traderRewardsFeesAccrued, forced, deposits,
                 earned, protocolEarned, protocolPaid, bootstrap, payouts, entered>>

fundTraderRewardsVault(t) ==
  /\ ~entered /\ vaultsBound
  /\ traderRewardsFeesAccruedByToken[t] > 0
  /\ balance >= traderRewardsFeesAccruedByToken[t]
  /\ traderRewardsFeesAccruedByToken' = [traderRewardsFeesAccruedByToken EXCEPT ![t] = 0]
  /\ traderRewardsFeesAccrued' = traderRewardsFeesAccrued - traderRewardsFeesAccruedByToken[t]
  /\ balance' = balance - traderRewardsFeesAccruedByToken[t]
  /\ paid' = [paid EXCEPT ![t].rewards = @ + traderRewardsFeesAccruedByToken[t]]
  /\ UNCHANGED <<creatorFeesAccrued, communityFeesAccruedByToken, protocolFeesAccrued,
                 totalCreatorFeesAccrued, communityFeesAccrued, forced, deposits,
                 earned, protocolEarned, protocolPaid, bootstrap, payouts, entered>>

\* receive() reverts: only forced ETH arrives without a deposit.
ForceEth ==
  /\ forced < MaxForced
  /\ forced' = forced + 1
  /\ balance' = balance + 1
  /\ UNCHANGED <<byToken, totals, history, bootstrap, payouts, entered>>

Next ==
  \/ setFactoryOnce
  \/ bindEcosystemVaultsOnce
  \/ \E t \in Tokens, a \in Addresses : registerToken(t, a)
  \/ \E t \in Tokens, g \in Grosses : depositFees(t, splitFee(g))
  \/ \E t \in Tokens, a \in Addresses : proposeCreatorPayout(t, a)
  \/ \E t \in Tokens : acceptCreatorPayout(t) \/ cancelCreatorPayout(t)
  \/ claimProtocolFees
  \/ \E t \in Tokens : claimCreatorFees(t)
  \/ claimReturns
  \/ \E t \in Tokens : fundCommunityVault(t) \/ fundTraderRewardsVault(t)
  \/ ForceEth

Spec == Init /\ [][Next]_vars

-----------------------------------------------------------------------------
TypeOK ==
  /\ factorySet \in BOOLEAN /\ vaultsBound \in BOOLEAN /\ entered \in BOOLEAN
  /\ {creatorOf, creatorPayoutOf, pendingCreatorPayoutOf, offered}
       \subseteq [Tokens -> Addresses \cup {NoOne}]
  /\ {creatorFeesAccrued, communityFeesAccruedByToken, traderRewardsFeesAccruedByToken}
       \subseteq [Tokens -> Nat]
  /\ {protocolFeesAccrued, totalCreatorFeesAccrued, communityFeesAccrued,
      traderRewardsFeesAccrued, balance, forced, deposits, protocolEarned, protocolPaid}
       \subseteq Nat
  /\ {earned, paid} \subseteq [Tokens -> [creator : Nat, community : Nat, rewards : Nat]]

\* Whatever is owed is there: at every point, also while a claim's recipient
\* runs, the manager's ETH is its liabilities and what was forced into it.
\* No claim or funding can then fail for want of ETH.
Solvent == balance = totalLiabilities + forced

\* The sum of a ledger over the tokens, counted wei by wei: a token that is
\* owed n has the units <<t, 1>> to <<t, n>>.
UnitsOf(f) == UNION {{t} \X (1..f[t]) : t \in Tokens}
SumOf(f) == Cardinality(UnitsOf(f))

\* The totals that totalLiabilities adds up are the sums of the ledgers the
\* claims and fundings of single tokens draw on.
BooksAgree ==
  /\ totalCreatorFeesAccrued = SumOf(creatorFeesAccrued)
  /\ communityFeesAccrued = SumOf(communityFeesAccruedByToken)
  /\ traderRewardsFeesAccrued = SumOf(traderRewardsFeesAccruedByToken)

\* No fee is lost, paid twice or paid from another token's or class's share:
\* what each share earned is what is still owed to it and what it was paid,
\* with deposits landing in the middle of claims.
FeesConserved ==
  /\ protocolEarned = protocolFeesAccrued + protocolPaid
  /\ \A t \in Tokens :
       /\ earned[t].creator = creatorFeesAccrued[t] + paid[t].creator
       /\ earned[t].community = communityFeesAccruedByToken[t] + paid[t].community
       /\ earned[t].rewards = traderRewardsFeesAccruedByToken[t] + paid[t].rewards

\* A registered token's payout moves only to the address its creator has on
\* offer at that moment, not one offered earlier and since withdrawn or
\* replaced: the fees that have already accrued move with it.
PayoutAsOffered ==
  [][\A t \in Tokens :
       creatorPayoutOf[t] # NoOne /\ creatorPayoutOf'[t] # creatorPayoutOf[t] =>
         creatorPayoutOf'[t] = offered[t]]_vars
=============================================================================
