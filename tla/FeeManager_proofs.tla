-------------------------- MODULE FeeManager_proofs --------------------------
(***************************************************************************)
(* Proofs about FeeManager, for any finite set of tokens, any accounts,    *)
(* split and trades.  MoneyInv is inductive: the amounts are natural       *)
(* numbers, Solvent, BooksAgree and FeesConserved.  They need each other:  *)
(* a claim subtracts a token's ledger from the total it is part of, which  *)
(* stays a natural number because the total is a sum that includes it      *)
(* (SumCleared), and the ETH sent is there because the total is among the  *)
(* liabilities.  A sum counts units, so that what one credit or one claim  *)
(* does to it follows from facts on cardinalities instead of an induction  *)
(* over the tokens.                                                        *)
(***************************************************************************)
EXTENDS FeeManager, FiniteSetTheorems, TLAPS

Ledger == [Tokens -> Nat]
Shares == [creator : Nat, community : Nat, rewards : Nat]
Somebody == Addresses \cup {NoOne}

-----------------------------------------------------------------------------
(* The sum of a ledger. *)

LEMMA UnitsFinite ==
  ASSUME NEW f \in Ledger
  PROVE  IsFiniteSet(UnitsOf(f))
<1> DEFINE rows == {{t} \X (1..f[t]) : t \in Tokens}
           row == [t \in Tokens |-> {t} \X (1..f[t])]
<1>1. row \in Surjection(Tokens, rows)
  <2>1. row \in [Tokens -> rows] /\ \A r \in rows : \E t \in Tokens : row[t] = r
    OBVIOUS
  <2> HIDE DEF row, rows
  <2> QED BY <2>1 DEF Surjection
<1>2. IsFiniteSet(rows)
  BY <1>1, FS_Surjection, LedgerAssumption, Zenon
<1>3. ASSUME NEW t \in Tokens PROVE IsFiniteSet({t} \X (1..f[t]))
  <2>1. f[t] \in Int
    BY DEF Ledger
  <2>2. IsFiniteSet({t})
    BY FS_Singleton
  <2>3. IsFiniteSet(1..f[t])
    BY <2>1, FS_Interval
  <2> QED BY <2>2, <2>3, FS_Product
<1>4. \A r \in rows : IsFiniteSet(r)
  BY <1>3
<1> HIDE DEF rows
<1>5. IsFiniteSet(UNION rows)
  BY <1>2, <1>4, FS_UNION
<1> QED BY <1>5 DEF rows, UnitsOf

LEMMA SumIsNat ==
  ASSUME NEW f \in Ledger
  PROVE  SumOf(f) \in Nat
BY UnitsFinite, FS_CardinalityType DEF SumOf

\* Crediting d to one token adds d to the sum.
LEMMA SumCredited ==
  ASSUME NEW f \in Ledger, NEW t \in Tokens, NEW d \in Nat
  PROVE  SumOf([f EXCEPT ![t] = @ + d]) = SumOf(f) + d
<1> DEFINE g == [f EXCEPT ![t] = @ + d]
           added == {t} \X ((f[t] + 1)..(f[t] + d))
<1>1. f[t] \in Nat /\ \A u \in Tokens : f[u] \in Nat
  BY DEF Ledger
<1>2. g \in Ledger /\ g[t] = f[t] + d /\ \A u \in Tokens \ {t} : g[u] = f[u]
  BY <1>1 DEF Ledger
<1> HIDE DEF g
<1>3. UnitsOf(g) = UnitsOf(f) \cup added
  <2>1. ASSUME NEW x PROVE x \in UnitsOf(g) <=> x \in UnitsOf(f) \cup added
    <3>1. x \in UnitsOf(g) <=> \E u \in Tokens : \E i \in 1..g[u] : x = <<u, i>>
      BY DEF UnitsOf
    <3>2. x \in UnitsOf(f) <=> \E u \in Tokens : \E i \in 1..f[u] : x = <<u, i>>
      BY DEF UnitsOf
    <3>3. x \in added <=> \E i \in (f[t] + 1)..(f[t] + d) : x = <<t, i>>
      OBVIOUS
    <3>4. 1..g[t] = (1..f[t]) \cup ((f[t] + 1)..(f[t] + d))
      BY <1>1, <1>2
    <3> HIDE DEF added
    <3> QED BY <1>2, <3>1, <3>2, <3>3, <3>4
  <2> QED BY <2>1
<1>4. UnitsOf(f) \cap added = {}
  <2>1. ASSUME NEW i \in (f[t] + 1)..(f[t] + d) PROVE <<t, i>> \notin UnitsOf(f)
    BY <1>1 DEF UnitsOf
  <2> QED BY <2>1
<1>5. IsFiniteSet(added) /\ Cardinality(added) = d
  <2>1. IsFiniteSet((f[t] + 1)..(f[t] + d)) /\ Cardinality((f[t] + 1)..(f[t] + d)) = d
    <3> DEFINE lo == f[t] + 1
               hi == f[t] + d
    <3>1. lo \in Int /\ hi \in Int /\ (IF lo > hi THEN 0 ELSE hi - lo + 1) = d
      BY <1>1
    <3> HIDE DEF lo, hi
    <3>2. IsFiniteSet(lo..hi) /\ Cardinality(lo..hi) = d
      BY <3>1, FS_Interval
    <3> QED BY <3>2 DEF lo, hi
  <2>2. IsFiniteSet({t}) /\ Cardinality({t}) = 1
    BY FS_Singleton
  <2> DEFINE one == {t}
             range == (f[t] + 1)..(f[t] + d)
  <2>3. /\ IsFiniteSet(one) /\ Cardinality(one) = 1
        /\ IsFiniteSet(range) /\ Cardinality(range) = d
    BY <2>1, <2>2
  <2> HIDE DEF one, range
  <2>4. IsFiniteSet(one \X range) /\ Cardinality(one \X range) = Cardinality(one) * Cardinality(range)
    BY <2>3, FS_Product
  <2>5. Cardinality(one) * Cardinality(range) = d
    BY <2>3
  <2> QED BY <2>4, <2>5 DEF one, range
<1>6. IsFiniteSet(UnitsOf(f)) /\ Cardinality(UnitsOf(f)) \in Nat
  BY UnitsFinite, FS_CardinalityType
<1> HIDE DEF added
<1>7. Cardinality(UnitsOf(f) \cup added) = Cardinality(UnitsOf(f)) + d - Cardinality({})
  BY <1>4, <1>5, <1>6, FS_Union
<1>8. Cardinality(UnitsOf(g)) = Cardinality(UnitsOf(f)) + d
  BY <1>3, <1>6, <1>7, FS_EmptySet
<1> QED BY <1>8 DEF SumOf, g

\* Clearing one token takes what it was owed from the sum, which is no less.
LEMMA SumCleared ==
  ASSUME NEW f \in Ledger, NEW t \in Tokens
  PROVE  /\ SumOf([f EXCEPT ![t] = 0]) = SumOf(f) - f[t]
         /\ f[t] <= SumOf(f)
<1> DEFINE g == [f EXCEPT ![t] = 0]
<1>1. f[t] \in Nat
  BY DEF Ledger
<1>2. g \in Ledger
  BY DEF Ledger
<1>3. f = [g EXCEPT ![t] = @ + f[t]]
  <2>1. g[t] + f[t] = f[t]
    BY <1>1 DEF Ledger
  <2>2. f = [g EXCEPT ![t] = f[t]]
    BY DEF Ledger
  <2> QED BY <2>1, <2>2
<1> HIDE DEF g
<1>4. SumOf([g EXCEPT ![t] = @ + f[t]]) = SumOf(g) + f[t]
  BY <1>1, <1>2, SumCredited
<1>5. SumOf(f) = SumOf(g) + f[t] /\ SumOf(g) \in Nat
  BY <1>2, <1>3, <1>4, SumIsNat
<1>6. SumOf(g) = SumOf(f) - f[t] /\ f[t] <= SumOf(f)
  <2> DEFINE sf == SumOf(f)
             sg == SumOf(g)
  <2>1. sf = sg + f[t] /\ sg \in Nat
    BY <1>5
  <2> HIDE DEF sf, sg
  <2>2. sg = sf - f[t] /\ f[t] <= sf
    BY <1>1, <2>1
  <2> QED BY <2>2 DEF sf, sg
<1> QED BY <1>6 DEF g

LEMMA SumOfNothing == SumOf(NothingByToken) = 0
<1>1. UnitsOf(NothingByToken) = {}
  BY SMT DEF UnitsOf, NothingByToken
<1> QED BY <1>1, FS_EmptySet DEF SumOf

-----------------------------------------------------------------------------
(* The inductive invariants. *)

LedgerInv ==
  /\ creatorFeesAccrued \in Ledger
  /\ communityFeesAccruedByToken \in Ledger
  /\ traderRewardsFeesAccruedByToken \in Ledger
  /\ protocolFeesAccrued \in Nat
  /\ totalCreatorFeesAccrued \in Nat
  /\ communityFeesAccrued \in Nat
  /\ traderRewardsFeesAccrued \in Nat
  /\ balance \in Nat
  /\ forced \in Nat
  /\ deposits \in Nat
  /\ earned \in [Tokens -> Shares]
  /\ paid \in [Tokens -> Shares]
  /\ protocolEarned \in Nat
  /\ protocolPaid \in Nat

\* Whoever is pending is who is on offer.
PayoutInv ==
  /\ creatorOf \in [Tokens -> Somebody]
  /\ creatorPayoutOf \in [Tokens -> Somebody]
  /\ pendingCreatorPayoutOf \in [Tokens -> Somebody]
  /\ offered = pendingCreatorPayoutOf
  /\ \A t \in Tokens : creatorOf[t] = NoOne =>
       creatorPayoutOf[t] = NoOne /\ pendingCreatorPayoutOf[t] = NoOne

MoneyInv == LedgerInv /\ Solvent /\ BooksAgree /\ FeesConserved

LEMMA MoneyInit == Init => MoneyInv
<1> SUFFICES ASSUME Init PROVE MoneyInv
  OBVIOUS
<1>1. LedgerInv
  BY SMT DEF Init, LedgerInv, Ledger, NothingByToken, NoShares, Shares
<1>2. Solvent
  BY SMT DEF Init, Solvent, totalLiabilities
<1>3. BooksAgree
  BY SumOfNothing DEF Init, BooksAgree
<1>4. FeesConserved
  BY SMT DEF Init, FeesConserved, NothingByToken, NoShares
<1> QED BY <1>1, <1>2, <1>3, <1>4 DEF MoneyInv

LEMMA PayoutInit == Init => PayoutInv
BY SMT DEF Init, PayoutInv, NobodyByToken, Somebody

-----------------------------------------------------------------------------
\* splitFee's parts are natural numbers, whatever the amount.
LEMMA SplitNats ==
  ASSUME NEW g \in Grosses
  PROVE  /\ splitFee(g).totalFee \in Nat
         /\ splitFee(g).creatorFee \in Nat
         /\ splitFee(g).communityFee \in Nat
         /\ splitFee(g).traderRewardsFee \in Nat
         /\ splitFee(g).protocolFee \in Nat
<1> DEFINE t == totalFeeOf(g)
           D == FEE_SPLIT_DENOMINATOR
           a == shareOf(t, CREATOR_FEE_PERCENT)
           b == shareOf(t, COMMUNITY_FEE_PERCENT)
           c == shareOf(t, TRADER_REWARDS_FEE_PERCENT)
<1>1. t \in Nat
  <2>1. g * TOTAL_FEE_BPS \in Nat /\ FEE_DENOMINATOR \in Nat \ {0}
    BY LedgerAssumption, FeeAssumption
  <2> QED BY <2>1, SMT DEF totalFeeOf
<1>2. \A p \in Nat : shareOf(t, p) \in Nat /\ shareOf(t, p) * D <= t * p
  <2> SUFFICES ASSUME NEW p \in Nat
               PROVE  shareOf(t, p) \in Nat /\ shareOf(t, p) * D <= t * p
    OBVIOUS
  <2> HIDE DEF t
  <2>1. t * p \in Nat /\ D \in Nat \ {0}
    BY <1>1, SplitAssumption
  <2> QED BY <2>1, SMT DEF shareOf
<1>3. a \in Nat /\ b \in Nat /\ c \in Nat
  BY <1>2, SplitAssumption
<1>4. /\ a * D <= t * CREATOR_FEE_PERCENT
      /\ b * D <= t * COMMUNITY_FEE_PERCENT
      /\ c * D <= t * TRADER_REWARDS_FEE_PERCENT
  BY <1>2, SplitAssumption
<1> HIDE DEF t, a, b, c
<1>5. t * (CREATOR_FEE_PERCENT + COMMUNITY_FEE_PERCENT + TRADER_REWARDS_FEE_PERCENT)
        <= t * D
  BY <1>1, SplitAssumption
<1>6. (a + b + c) * D <= t * D
  BY <1>1, <1>3, <1>4, <1>5, SplitAssumption
<1>7. a + b + c <= t
  BY <1>1, <1>3, <1>6, SplitAssumption
<1>8. splitFee(g) = [totalFee |-> t, creatorFee |-> a, communityFee |-> b,
                     traderRewardsFee |-> c, protocolFee |-> t - a - b - c]
  BY DEF splitFee, t, a, b, c
<1> QED BY <1>1, <1>3, <1>7, <1>8

\* A deposit adds the parts of its fee to the ledgers, and as much to the totals.
LEMMA DepositKeepsMoney ==
  ASSUME MoneyInv, NEW t \in Tokens, NEW s,
         s.totalFee \in Nat, s.creatorFee \in Nat, s.communityFee \in Nat,
         s.traderRewardsFee \in Nat, s.protocolFee \in Nat,
         depositFees(t, s)
  PROVE  MoneyInv'
<1>1. LedgerInv'
  BY SMT DEF MoneyInv, LedgerInv, Ledger, Shares, depositFees, CommunityCredited
<1>2. Solvent'
  <2>1. s.totalFee = s.creatorFee + s.protocolFee + s.communityFee + s.traderRewardsFee
    BY SMT DEF depositFees, validSplit
  <2>2. /\ balance' = balance + s.totalFee
        /\ protocolFeesAccrued' = protocolFeesAccrued + s.protocolFee
        /\ totalCreatorFeesAccrued' = totalCreatorFeesAccrued + s.creatorFee
        /\ communityFeesAccrued' = communityFeesAccrued + s.communityFee
        /\ traderRewardsFeesAccrued' = traderRewardsFeesAccrued + s.traderRewardsFee
        /\ forced' = forced
    BY DEF depositFees
  <2>3. /\ {balance, protocolFeesAccrued, totalCreatorFeesAccrued, communityFeesAccrued,
            traderRewardsFeesAccrued, forced} \subseteq Nat
        /\ Solvent
    BY DEF MoneyInv, LedgerInv
  <2> QED BY <2>1, <2>2, <2>3, SMT DEF Solvent, totalLiabilities
<1>3. BooksAgree'
  <2>1. /\ SumOf(creatorFeesAccrued') = SumOf(creatorFeesAccrued) + s.creatorFee
        /\ SumOf(communityFeesAccruedByToken')
             = SumOf(communityFeesAccruedByToken) + s.communityFee
        /\ SumOf(traderRewardsFeesAccruedByToken')
             = SumOf(traderRewardsFeesAccruedByToken) + s.traderRewardsFee
    BY SumCredited, Zenon DEF MoneyInv, LedgerInv, depositFees, CommunityCredited
  <2>2. /\ totalCreatorFeesAccrued' = totalCreatorFeesAccrued + s.creatorFee
        /\ communityFeesAccrued' = communityFeesAccrued + s.communityFee
        /\ traderRewardsFeesAccrued' = traderRewardsFeesAccrued + s.traderRewardsFee
    BY DEF depositFees
  <2>3. BooksAgree
    BY DEF MoneyInv
  <2> QED BY <2>1, <2>2, <2>3, Zenon DEF BooksAgree
<1>4. FeesConserved'
  <2>1. protocolEarned' = protocolFeesAccrued' + protocolPaid'
    BY SMT DEF MoneyInv, LedgerInv, FeesConserved, depositFees
  <2>2. ASSUME NEW u \in Tokens, u # t
        PROVE  /\ earned'[u] = earned[u] /\ paid'[u] = paid[u]
               /\ creatorFeesAccrued'[u] = creatorFeesAccrued[u]
               /\ communityFeesAccruedByToken'[u] = communityFeesAccruedByToken[u]
               /\ traderRewardsFeesAccruedByToken'[u] = traderRewardsFeesAccruedByToken[u]
    BY <2>2 DEF MoneyInv, LedgerInv, Ledger, depositFees, CommunityCredited
  <2>3. /\ earned'[t].creator = earned[t].creator + s.creatorFee
        /\ earned'[t].community = earned[t].community + s.communityFee
        /\ earned'[t].rewards = earned[t].rewards + s.traderRewardsFee
        /\ paid'[t] = paid[t]
        /\ creatorFeesAccrued'[t] = creatorFeesAccrued[t] + s.creatorFee
        /\ communityFeesAccruedByToken'[t] = communityFeesAccruedByToken[t] + s.communityFee
        /\ traderRewardsFeesAccruedByToken'[t]
             = traderRewardsFeesAccruedByToken[t] + s.traderRewardsFee
    BY DEF MoneyInv, LedgerInv, Ledger, depositFees, CommunityCredited
  <2>4. /\ earned[t] \in Shares /\ paid[t] \in Shares
        /\ creatorFeesAccrued[t] \in Nat
        /\ communityFeesAccruedByToken[t] \in Nat
        /\ traderRewardsFeesAccruedByToken[t] \in Nat
    BY DEF MoneyInv, LedgerInv, Ledger
  <2>5. FeesConserved
    BY DEF MoneyInv
  <2>6. /\ earned'[t].creator = creatorFeesAccrued'[t] + paid'[t].creator
        /\ earned'[t].community = communityFeesAccruedByToken'[t] + paid'[t].community
        /\ earned'[t].rewards = traderRewardsFeesAccruedByToken'[t] + paid'[t].rewards
    BY <2>3, <2>4, <2>5, SMT DEF FeesConserved, Shares
  <2> QED BY <2>1, <2>2, <2>5, <2>6, Zenon DEF FeesConserved
<1> QED BY <1>1, <1>2, <1>3, <1>4 DEF MoneyInv

\* What a claim or a funding takes is no more than the total it is part of.
LEMMA TotalsCover ==
  ASSUME LedgerInv, BooksAgree, NEW t \in Tokens
  PROVE  /\ creatorFeesAccrued[t] <= totalCreatorFeesAccrued
         /\ communityFeesAccruedByToken[t] <= communityFeesAccrued
         /\ traderRewardsFeesAccruedByToken[t] <= traderRewardsFeesAccrued
<1>1. /\ creatorFeesAccrued[t] <= SumOf(creatorFeesAccrued)
      /\ communityFeesAccruedByToken[t] <= SumOf(communityFeesAccruedByToken)
      /\ traderRewardsFeesAccruedByToken[t] <= SumOf(traderRewardsFeesAccruedByToken)
  BY SumCleared, Zenon DEF LedgerInv
<1> QED BY <1>1, Zenon DEF BooksAgree

LEMMA CreatorClaimKeepsMoney ==
  ASSUME MoneyInv, NEW t \in Tokens, claimCreatorFees(t)
  PROVE  MoneyInv'
<1>1. creatorFeesAccrued[t] <= totalCreatorFeesAccrued
  BY TotalsCover DEF MoneyInv
<1>2. LedgerInv'
  BY <1>1, SMT DEF MoneyInv, LedgerInv, Ledger, Shares, claimCreatorFees
<1>3. Solvent'
  BY SMT DEF MoneyInv, LedgerInv, Ledger, Solvent, totalLiabilities, claimCreatorFees
<1>4. BooksAgree'
  <2>1. SumOf(creatorFeesAccrued') = SumOf(creatorFeesAccrued) - creatorFeesAccrued[t]
    BY SumCleared, Zenon DEF MoneyInv, LedgerInv, claimCreatorFees
  <2> QED BY <2>1, Zenon DEF MoneyInv, BooksAgree, claimCreatorFees
<1>5. FeesConserved'
  BY SMT DEF MoneyInv, LedgerInv, Ledger, Shares, FeesConserved, claimCreatorFees
<1> QED BY <1>2, <1>3, <1>4, <1>5 DEF MoneyInv

LEMMA CommunityFundingKeepsMoney ==
  ASSUME MoneyInv, NEW t \in Tokens, fundCommunityVault(t)
  PROVE  MoneyInv'
<1>1. communityFeesAccruedByToken[t] <= communityFeesAccrued
  BY TotalsCover DEF MoneyInv
<1>2. LedgerInv'
  BY <1>1, SMT DEF MoneyInv, LedgerInv, Ledger, Shares, fundCommunityVault
<1>3. Solvent'
  BY SMT DEF MoneyInv, LedgerInv, Ledger, Solvent, totalLiabilities, fundCommunityVault
<1>4. BooksAgree'
  <2>1. SumOf(communityFeesAccruedByToken')
          = SumOf(communityFeesAccruedByToken) - communityFeesAccruedByToken[t]
    BY SumCleared, Zenon DEF MoneyInv, LedgerInv, fundCommunityVault
  <2> QED BY <2>1, Zenon DEF MoneyInv, BooksAgree, fundCommunityVault
<1>5. FeesConserved'
  BY SMT DEF MoneyInv, LedgerInv, Ledger, Shares, FeesConserved, fundCommunityVault
<1> QED BY <1>2, <1>3, <1>4, <1>5 DEF MoneyInv

LEMMA RewardsFundingKeepsMoney ==
  ASSUME MoneyInv, NEW t \in Tokens, fundTraderRewardsVault(t)
  PROVE  MoneyInv'
<1>1. traderRewardsFeesAccruedByToken[t] <= traderRewardsFeesAccrued
  BY TotalsCover DEF MoneyInv
<1>2. LedgerInv'
  BY <1>1, SMT DEF MoneyInv, LedgerInv, Ledger, Shares, fundTraderRewardsVault
<1>3. Solvent'
  BY SMT DEF MoneyInv, LedgerInv, Ledger, Solvent, totalLiabilities, fundTraderRewardsVault
<1>4. BooksAgree'
  <2>1. SumOf(traderRewardsFeesAccruedByToken')
          = SumOf(traderRewardsFeesAccruedByToken) - traderRewardsFeesAccruedByToken[t]
    BY SumCleared, Zenon DEF MoneyInv, LedgerInv, fundTraderRewardsVault
  <2> QED BY <2>1, Zenon DEF MoneyInv, BooksAgree, fundTraderRewardsVault
<1>5. FeesConserved'
  BY SMT DEF MoneyInv, LedgerInv, Ledger, Shares, FeesConserved, fundTraderRewardsVault
<1> QED BY <1>2, <1>3, <1>4, <1>5 DEF MoneyInv

\* A protocol claim and forced ETH leave the ledgers of the tokens alone.
LEMMA OtherMoneyKept ==
  ASSUME MoneyInv, claimProtocolFees \/ ForceEth \/ UNCHANGED <<money>>
  PROVE  MoneyInv'
<1>1. UNCHANGED <<byToken, totalCreatorFeesAccrued, communityFeesAccrued,
                  traderRewardsFeesAccrued>>
  BY DEF claimProtocolFees, ForceEth, money, totals
<1>2. BooksAgree'
  BY <1>1, Zenon DEF MoneyInv, BooksAgree, byToken
<1>3. LedgerInv' /\ Solvent' /\ FeesConserved'
  <2> USE DEF MoneyInv, LedgerInv, Ledger, Shares, Solvent, totalLiabilities,
              FeesConserved, byToken, totals, history
  <2>1. CASE claimProtocolFees
    BY <2>1, SMT DEF claimProtocolFees
  <2>2. CASE ForceEth
    BY <2>2, SMT DEF ForceEth
  <2>3. CASE UNCHANGED <<money>>
    BY <2>3, SMT DEF money
  <2> QED BY <2>1, <2>2, <2>3
<1> QED BY <1>2, <1>3 DEF MoneyInv

LEMMA MoneyStep == MoneyInv /\ [Next]_vars => MoneyInv'
<1> SUFFICES ASSUME MoneyInv, [Next]_vars PROVE MoneyInv'
  OBVIOUS
<1>1. CASE UNCHANGED <<money>>
  BY <1>1, OtherMoneyKept
<1>2. ASSUME NEW t \in Tokens, NEW g \in Grosses, depositFees(t, splitFee(g))
      PROVE  MoneyInv'
  BY <1>2, SplitNats, DepositKeepsMoney
<1>3. CASE claimProtocolFees \/ ForceEth
  BY <1>3, OtherMoneyKept
<1>4. ASSUME NEW t \in Tokens, claimCreatorFees(t) PROVE MoneyInv'
  BY <1>4, CreatorClaimKeepsMoney
<1>5. ASSUME NEW t \in Tokens, fundCommunityVault(t) PROVE MoneyInv'
  BY <1>5, CommunityFundingKeepsMoney
<1>6. ASSUME NEW t \in Tokens, fundTraderRewardsVault(t) PROVE MoneyInv'
  BY <1>6, RewardsFundingKeepsMoney
<1>7. CASE setFactoryOnce \/ bindEcosystemVaultsOnce \/ claimReturns
  BY <1>1, <1>7 DEF setFactoryOnce, bindEcosystemVaultsOnce, claimReturns
<1>8. ASSUME NEW t \in Tokens, NEW a \in Addresses,
             registerToken(t, a) \/ proposeCreatorPayout(t, a)
      PROVE  MoneyInv'
  BY <1>1, <1>8 DEF registerToken, proposeCreatorPayout
<1>9. ASSUME NEW t \in Tokens, acceptCreatorPayout(t) \/ cancelCreatorPayout(t)
      PROVE  MoneyInv'
  BY <1>1, <1>9 DEF acceptCreatorPayout, cancelCreatorPayout
<1>10. CASE UNCHANGED vars
  BY <1>1, <1>10 DEF vars
<1> QED
  BY <1>2, <1>3, <1>4, <1>5, <1>6, <1>7, <1>8, <1>9, <1>10 DEF Next

\* Solvent for any tokens and split, with deposits in the middle of claims.
THEOREM AlwaysSolvent == Spec => []Solvent
<1>1. MoneyInv => Solvent
  BY DEF MoneyInv
<1> QED BY <1>1, MoneyInit, MoneyStep, PTL DEF Spec

\* FeesConserved for any tokens and split.
THEOREM FeesAlwaysConserved == Spec => []FeesConserved
<1>1. MoneyInv => FeesConserved
  BY DEF MoneyInv
<1> QED BY <1>1, MoneyInit, MoneyStep, PTL DEF Spec

\* BooksAgree for any tokens and split: no claim, funding or deposit in the
\* middle of another claim leaves a total that is not the sum of its ledger.
THEOREM BooksAlwaysAgree == Spec => []BooksAgree
<1>1. MoneyInv => BooksAgree
  BY DEF MoneyInv
<1> QED BY <1>1, MoneyInit, MoneyStep, PTL DEF Spec

-----------------------------------------------------------------------------
\* The statement PayoutAsOffered makes of one step.
MovesAsOffered ==
  \A t \in Tokens :
    creatorPayoutOf[t] # NoOne /\ creatorPayoutOf'[t] # creatorPayoutOf[t] =>
      creatorPayoutOf'[t] = offered[t]

LEMMA PayoutStep == PayoutInv /\ [Next]_vars => PayoutInv' /\ MovesAsOffered
<1> SUFFICES ASSUME PayoutInv, [Next]_vars PROVE PayoutInv' /\ MovesAsOffered
  OBVIOUS
<1> USE LedgerAssumption DEF PayoutInv, Somebody, MovesAsOffered
<1>1. CASE UNCHANGED payouts
  BY <1>1, SMT DEF payouts
<1>2. ASSUME NEW t \in Tokens, NEW a \in Addresses, registerToken(t, a)
      PROVE  PayoutInv' /\ MovesAsOffered
  BY <1>2, SMT DEF registerToken
<1>3. ASSUME NEW t \in Tokens, NEW a \in Addresses, proposeCreatorPayout(t, a)
      PROVE  PayoutInv' /\ MovesAsOffered
  BY <1>3, SMT DEF proposeCreatorPayout
<1>4. ASSUME NEW t \in Tokens, acceptCreatorPayout(t)
      PROVE  PayoutInv' /\ MovesAsOffered
  BY <1>4, SMT DEF acceptCreatorPayout
<1>5. ASSUME NEW t \in Tokens, cancelCreatorPayout(t)
      PROVE  PayoutInv' /\ MovesAsOffered
  BY <1>5, SMT DEF cancelCreatorPayout
<1>6. CASE setFactoryOnce \/ bindEcosystemVaultsOnce \/ claimReturns \/ ForceEth
           \/ claimProtocolFees
  BY <1>1, <1>6 DEF setFactoryOnce, bindEcosystemVaultsOnce, claimReturns, ForceEth,
                    claimProtocolFees
<1>7. ASSUME NEW t \in Tokens,
             \/ claimCreatorFees(t)
             \/ fundCommunityVault(t)
             \/ fundTraderRewardsVault(t)
             \/ \E g \in Grosses : depositFees(t, splitFee(g))
      PROVE  PayoutInv' /\ MovesAsOffered
  BY <1>1, <1>7 DEF claimCreatorFees, fundCommunityVault, fundTraderRewardsVault, depositFees
<1>8. CASE UNCHANGED vars
  BY <1>1, <1>8 DEF vars
<1> QED
  BY <1>2, <1>3, <1>4, <1>5, <1>6, <1>7, <1>8 DEF Next

\* PayoutAsOffered for any tokens and accounts.
THEOREM PayoutAlwaysAsOffered == Spec => PayoutAsOffered
<1>1. PayoutInv /\ [Next]_vars =>
        [\A t \in Tokens :
           creatorPayoutOf[t] # NoOne /\ creatorPayoutOf'[t] # creatorPayoutOf[t] =>
             creatorPayoutOf'[t] = offered[t]]_vars
  BY PayoutStep DEF MovesAsOffered
<1> QED
  BY <1>1, PayoutInit, PayoutStep, PTL DEF Spec, PayoutAsOffered

-----------------------------------------------------------------------------
FlagsOK == factorySet \in BOOLEAN /\ vaultsBound \in BOOLEAN /\ entered \in BOOLEAN

LEMMA FlagsStep == FlagsOK /\ [Next]_vars => FlagsOK'
<1> SUFFICES ASSUME FlagsOK, [Next]_vars PROVE FlagsOK'
  OBVIOUS
<1> USE DEF FlagsOK
<1>1. CASE UNCHANGED <<bootstrap, entered>>
  BY <1>1 DEF bootstrap
<1>2. CASE setFactoryOnce \/ bindEcosystemVaultsOnce \/ claimReturns \/ claimProtocolFees
  BY <1>2 DEF setFactoryOnce, bindEcosystemVaultsOnce, claimReturns, claimProtocolFees,
              bootstrap
<1>3. ASSUME NEW t \in Tokens, claimCreatorFees(t) PROVE FlagsOK'
  BY <1>3 DEF claimCreatorFees, bootstrap
<1>4. ASSUME NEW t \in Tokens, NEW a \in Addresses,
             registerToken(t, a) \/ proposeCreatorPayout(t, a)
      PROVE  FlagsOK'
  BY <1>1, <1>4 DEF registerToken, proposeCreatorPayout
<1>5. ASSUME NEW t \in Tokens,
             \/ acceptCreatorPayout(t)
             \/ cancelCreatorPayout(t)
             \/ fundCommunityVault(t)
             \/ fundTraderRewardsVault(t)
             \/ \E g \in Grosses : depositFees(t, splitFee(g))
      PROVE  FlagsOK'
  BY <1>1, <1>5 DEF acceptCreatorPayout, cancelCreatorPayout, fundCommunityVault,
                    fundTraderRewardsVault, depositFees
<1>6. CASE ForceEth
  BY <1>1, <1>6 DEF ForceEth
<1>7. CASE UNCHANGED vars
  BY <1>1, <1>7 DEF vars
<1> QED
  BY <1>2, <1>3, <1>4, <1>5, <1>6, <1>7 DEF Next

\* TypeOK for any tokens, accounts and split: every amount is a natural number,
\* so no subtraction of a claim or a funding wraps or reverts.
THEOREM LedgerTypeOK == Spec => []TypeOK
<1>1. Init => FlagsOK
  BY DEF Init, FlagsOK
<1>2. MoneyInv /\ PayoutInv /\ FlagsOK => TypeOK
  BY Zenon DEF MoneyInv, LedgerInv, PayoutInv, FlagsOK, TypeOK, Ledger, Shares, Somebody
<1>3. PayoutInv /\ [Next]_vars => PayoutInv'
  BY PayoutStep
<1> QED
  BY <1>1, <1>2, <1>3, MoneyInit, MoneyStep, PayoutInit, FlagsStep, PTL DEF Spec
=============================================================================
