-------------------------- MODULE TreasuryRotation --------------------------
(***************************************************************************)
(* The rotation of the treasury address under a two-step owner, as         *)
(* FeeManagerV3 keeps it (TokenCommunityVaultV3 has the same functions     *)
(* line for line): the owner proposes, the proposed address accepts after  *)
(* TREASURY_ROTATION_DELAY, and _transferOwnership invalidates a proposal  *)
(* that has not been accepted.  Ownership itself is OpenZeppelin's         *)
(* Ownable2Step, modelled from how the contract uses it.                   *)
(*                                                                         *)
(* Two history variables say what a user may rely on: standing is the      *)
(* proposal that neither the owner nor a change of owner has withdrawn,    *)
(* ownerSince the time of the last change of owner.                        *)
(***************************************************************************)
EXTENDS Integers

CONSTANTS
  Addresses,               (* accounts that own, propose and accept *)
  NoOne,                   (* address(0)                            *)
  TREASURY_ROTATION_DELAY,
  MaxTime                  (* bound on block.timestamp              *)

ASSUME RotationAssumption ==
  /\ NoOne \notin Addresses
  /\ TREASURY_ROTATION_DELAY \in Nat
  /\ MaxTime \in Nat

VARIABLES
  now,                     (* block.timestamp, from deployment *)
  owner,
  pendingOwner,
  treasury,
  pendingTreasury,
  pendingTreasuryAcceptAfter,
  standing,
  ownerSince

ownership == <<owner, pendingOwner, ownerSince>>
rotation == <<treasury, pendingTreasury, pendingTreasuryAcceptAfter, standing>>
rotationVars == <<now, ownership, rotation>>

Proposal == [to : Addresses, at : Nat]
NoProposal == [to |-> NoOne, at |-> 0]

-----------------------------------------------------------------------------
RInit ==
  /\ now = 0
  /\ owner \in Addresses
  /\ pendingOwner = NoOne
  /\ treasury \in Addresses
  /\ pendingTreasury = NoOne
  /\ pendingTreasuryAcceptAfter = 0
  /\ standing = NoProposal
  /\ ownerSince = 0

\* delete pendingTreasury; delete pendingTreasuryAcceptAfter.
ClearPending ==
  /\ pendingTreasury' = NoOne
  /\ pendingTreasuryAcceptAfter' = 0
  /\ standing' = NoProposal

proposeTreasury(proposed) ==
  /\ owner # NoOne
  /\ proposed # treasury
  /\ pendingTreasury' = proposed
  /\ pendingTreasuryAcceptAfter' = now + TREASURY_ROTATION_DELAY
  /\ standing' = [to |-> proposed, at |-> now]
  /\ UNCHANGED <<now, ownership, treasury>>

\* An acceptance that does not wait for the delay.
AcceptWithoutDelay ==
  /\ pendingTreasury # NoOne
  /\ treasury' = pendingTreasury
  /\ ClearPending
  /\ UNCHANGED <<now, ownership>>

\* An acceptance that does not ask whether anything is pending.
AcceptAnyPending ==
  /\ now >= pendingTreasuryAcceptAfter
  /\ treasury' = pendingTreasury
  /\ ClearPending
  /\ UNCHANGED <<now, ownership>>

\* Called by the pending treasury itself.
acceptTreasury ==
  /\ pendingTreasury # NoOne
  /\ now >= pendingTreasuryAcceptAfter
  /\ treasury' = pendingTreasury
  /\ ClearPending
  /\ UNCHANGED <<now, ownership>>

cancelTreasuryProposal ==
  /\ owner # NoOne
  /\ pendingTreasury # NoOne
  /\ ClearPending
  /\ UNCHANGED <<now, ownership, treasury>>

\* A change of owner that leaves a pending rotation in place.
TransferKeepingProposal(newOwner) ==
  /\ owner' = newOwner
  /\ pendingOwner' = NoOne
  /\ ownerSince' = now
  /\ standing' = NoProposal
  /\ UNCHANGED <<now, treasury, pendingTreasury, pendingTreasuryAcceptAfter>>

\* _transferOwnership: the pending rotation is invalidated before Ownable2Step
\* clears the pending owner and installs the new one.
ownerBecomes(newOwner) ==
  /\ owner' = newOwner
  /\ pendingOwner' = NoOne
  /\ ownerSince' = now
  /\ ClearPending
  /\ UNCHANGED <<now, treasury>>

\* Ownable2Step: transferOwnership may be repeated and, with address(0),
\* withdrawn.
transferOwnership(newOwner) ==
  /\ owner # NoOne
  /\ pendingOwner' = newOwner
  /\ UNCHANGED <<now, owner, ownerSince, rotation>>

acceptOwnership ==
  /\ pendingOwner # NoOne
  /\ ownerBecomes(pendingOwner)

renounceOwnership ==
  /\ owner # NoOne
  /\ ownerBecomes(NoOne)

Tick ==
  /\ now < MaxTime
  /\ now' = now + 1
  /\ UNCHANGED <<ownership, rotation>>

RNext ==
  \/ \E a \in Addresses : proposeTreasury(a)
  \/ acceptTreasury
  \/ cancelTreasuryProposal
  \/ \E a \in Addresses \cup {NoOne} : transferOwnership(a)
  \/ acceptOwnership
  \/ renounceOwnership
  \/ Tick

RSpec == RInit /\ [][RNext]_rotationVars

-----------------------------------------------------------------------------
RTypeOK ==
  /\ now \in Nat
  /\ owner \in Addresses \cup {NoOne}
  /\ pendingOwner \in Addresses \cup {NoOne}
  /\ treasury \in Addresses
  /\ pendingTreasury \in Addresses \cup {NoOne}
  /\ pendingTreasuryAcceptAfter \in Nat
  /\ standing \in Proposal \cup {NoProposal}
  /\ ownerSince \in 0..now

\* The contract will accept a rotation exactly when a proposal stands, and
\* then it holds that proposal and the end of its own 48 hours: proposing
\* again restarts the delay, cancelling or changing owner ends it.
PendingIsStanding ==
  IF standing = NoProposal
  THEN pendingTreasury = NoOne
  ELSE /\ pendingTreasury = standing.to
       /\ pendingTreasuryAcceptAfter = standing.at + TREASURY_ROTATION_DELAY
       /\ standing.at >= ownerSince

\* The treasury changes only to the address of the proposal that stands, and
\* not before that proposal has been public for the whole delay, however
\* proposals, cancellations and transfers of ownership were interleaved.
RotationWaits ==
  [][treasury' # treasury =>
       /\ standing # NoProposal
       /\ treasury' = standing.to
       /\ now >= standing.at + TREASURY_ROTATION_DELAY]_rotationVars

\* After a change of owner the treasury holds for at least the delay: what an
\* earlier owner proposed dies with the transfer, and what the new owner
\* proposes cannot take effect sooner.
TreasuryOutlastsTransfer ==
  [][treasury' # treasury => now >= ownerSince + TREASURY_ROTATION_DELAY]_rotationVars
=============================================================================
