---------------------- MODULE TreasuryRotation_proofs ----------------------
(***************************************************************************)
(* Proofs about TreasuryRotation, for every delay and any set of accounts. *)
(* RTypeOK and PendingIsStanding are inductive together; both action       *)
(* properties follow, because an acceptance uses the pending proposal,     *)
(* which the invariant ties to the standing one and to its owner's time.   *)
(***************************************************************************)
EXTENDS TreasuryRotation, TLAPS

RInv == RTypeOK /\ PendingIsStanding

LEMMA RotationInit == RInit => RInv
BY RotationAssumption, SMT
   DEF RInit, RInv, RTypeOK, PendingIsStanding, NoProposal, Proposal

\* Withdrawing a proposal leaves neither side with one.
LEMMA ClearedMatches ==
  ClearPending =>
    /\ pendingTreasury' = NoOne
    /\ pendingTreasuryAcceptAfter' = 0
    /\ standing' = NoProposal
BY DEF ClearPending

\* A proposal is never NoProposal, as it names an account.
LEMMA ProposalIsOne ==
  ASSUME NEW a \in Addresses, NEW n \in Nat
  PROVE  [to |-> a, at |-> n] # NoProposal /\ [to |-> a, at |-> n] \in Proposal
BY RotationAssumption, SMT DEF NoProposal, Proposal

LEMMA RotationStep == RInv /\ [RNext]_rotationVars => RInv'
<1> SUFFICES ASSUME RInv, [RNext]_rotationVars PROVE RInv'
  OBVIOUS
<1> USE RotationAssumption
<1>1. ASSUME NEW a \in Addresses, proposeTreasury(a) PROVE RInv'
  <2>1. standing' # NoProposal /\ standing' \in Proposal
    BY <1>1, ProposalIsOne DEF proposeTreasury, RInv, RTypeOK
  <2>2. standing'.to = a /\ standing'.at = now
    BY <1>1 DEF proposeTreasury
  <2> QED
    BY <1>1, <2>1, <2>2, SMT
       DEF proposeTreasury, RInv, RTypeOK, PendingIsStanding, ownership
<1>2. CASE acceptTreasury
  BY <1>2, ClearedMatches, SMT
     DEF acceptTreasury, RInv, RTypeOK, PendingIsStanding, ownership
<1>3. CASE cancelTreasuryProposal
  BY <1>3, ClearedMatches, SMT
     DEF cancelTreasuryProposal, RInv, RTypeOK, PendingIsStanding, ownership
<1>4. ASSUME NEW a \in Addresses \cup {NoOne}, transferOwnership(a) PROVE RInv'
  BY <1>4, SMT
     DEF transferOwnership, RInv, RTypeOK, PendingIsStanding, rotation
<1>5. ASSUME NEW a \in Addresses \cup {NoOne}, ownerBecomes(a) PROVE RInv'
  BY <1>5, ClearedMatches, SMT
     DEF ownerBecomes, RInv, RTypeOK, PendingIsStanding
<1>6. CASE acceptOwnership
  BY <1>5, <1>6, SMT DEF acceptOwnership, RInv, RTypeOK
<1>7. CASE renounceOwnership
  BY <1>5, <1>7 DEF renounceOwnership
<1>8. CASE Tick
  BY <1>8, SMT DEF Tick, RInv, RTypeOK, PendingIsStanding, ownership, rotation
<1>9. CASE UNCHANGED rotationVars
  BY <1>9, SMT
     DEF rotationVars, ownership, rotation, RInv, RTypeOK, PendingIsStanding
<1> QED
  BY <1>1, <1>2, <1>3, <1>4, <1>6, <1>7, <1>8, <1>9 DEF RNext

\* Every variable keeps its shape; in particular the treasury is never the zero
\* address, through acceptances, withdrawals and changes of owner.
THEOREM RotationTypeOK == RSpec => []RTypeOK
<1>1. RInv => RTypeOK
  BY DEF RInv
<1> QED
  BY <1>1, RotationInit, RotationStep, PTL DEF RSpec

\* PendingIsStanding holds in every behaviour of the rotation.
THEOREM ProposalsStand == RSpec => []PendingIsStanding
<1>1. RInv => PendingIsStanding
  BY DEF RInv
<1> QED
  BY <1>1, RotationInit, RotationStep, PTL DEF RSpec

\* The one step that changes the treasury accepts the pending proposal.
LEMMA OnlyAcceptanceRotates ==
  RInv /\ [RNext]_rotationVars /\ treasury' # treasury => acceptTreasury
BY SMT
   DEF RNext, proposeTreasury, cancelTreasuryProposal, transferOwnership, acceptOwnership,
       renounceOwnership, ownerBecomes, Tick, rotationVars, ownership, rotation

LEMMA RotationStepWaits ==
  RInv /\ [RNext]_rotationVars /\ treasury' # treasury =>
    /\ standing # NoProposal
    /\ treasury' = standing.to
    /\ now >= standing.at + TREASURY_ROTATION_DELAY
    /\ now >= ownerSince + TREASURY_ROTATION_DELAY
<1> SUFFICES ASSUME RInv, acceptTreasury
             PROVE  /\ standing # NoProposal
                    /\ treasury' = standing.to
                    /\ now >= standing.at + TREASURY_ROTATION_DELAY
                    /\ now >= ownerSince + TREASURY_ROTATION_DELAY
  BY OnlyAcceptanceRotates
<1>1. standing # NoProposal
  BY DEF acceptTreasury, RInv, PendingIsStanding
<1>2. standing.at \in Nat
  BY <1>1 DEF RInv, RTypeOK, Proposal
<1> QED
  BY <1>1, <1>2, RotationAssumption, SMT
     DEF acceptTreasury, RInv, RTypeOK, PendingIsStanding

\* RotationWaits for every delay and any number of accounts.
THEOREM RotationAlwaysWaits == RSpec => RotationWaits
<1>1. RInv /\ [RNext]_rotationVars =>
        [treasury' # treasury =>
           /\ standing # NoProposal
           /\ treasury' = standing.to
           /\ now >= standing.at + TREASURY_ROTATION_DELAY]_rotationVars
  BY RotationStepWaits
<1> QED
  BY <1>1, RotationInit, RotationStep, PTL DEF RSpec, RotationWaits

\* TreasuryOutlastsTransfer for every delay and any number of accounts.
THEOREM TreasuryAlwaysOutlastsTransfer == RSpec => TreasuryOutlastsTransfer
<1>1. RInv /\ [RNext]_rotationVars =>
        [treasury' # treasury =>
           now >= ownerSince + TREASURY_ROTATION_DELAY]_rotationVars
  BY RotationStepWaits
<1> QED
  BY <1>1, RotationInit, RotationStep, PTL DEF RSpec, TreasuryOutlastsTransfer
=============================================================================
