------------------------ MODULE TransactionRecovery ------------------------
(***************************************************************************)
(* Finding out what became of a transaction that was sent with some nonce: *)
(* captureTradeRecovery, confirmTrade, checkTrade and                      *)
(* recoverTransactionReceipt of lib/contracts.ts.                          *)
(*                                                                         *)
(* The sender's nonce is consumed once, by the original transaction or by  *)
(* another of the same sender.  An unknown transaction is looked for by    *)
(* scanning blocks for that sender and nonce, from the block noted when    *)
(* its provenance was read, a batch of blocks at each check.  Every await  *)
(* is a step of its own; the chain grows in between.  The panel stores the *)
(* provenance with which a check answers "pending"; that of a check which  *)
(* throws is lost with its locals.                                         *)
(***************************************************************************)
EXTENDS Integers

CONSTANTS
  REPLACEMENT_SCAN_BATCH,
  None,
  MaxHeight,      (* bound: chain height                                    *)
  MaxFaults       (* bound: failed calls and receipts a node does not have  *)

ASSUME RecoveryAssumption ==
  /\ REPLACEMENT_SCAN_BATCH \in Nat \ {0}
  /\ None \notin Nat
  /\ MaxHeight \in Nat \ {0} /\ MaxFaults \in Nat

\* What a transaction does, as far as replacementReason looks at it.
Transactions == [to : {"curve", "sender"}, value : {0, 1}, input : {"trade", "empty"}]
Original == [to |-> "curve", value |-> 1, input |-> "trade"]

VARIABLES
  height,
  consumed,    (* the block whose transaction has the nonce, or 0           *)
  by,          (* what that transaction does                                *)
  same,        (* whether it is the original one                            *)
  reverted,
  pc,
  seen,        (* the original as getTransaction has returned it: its block,
                  0 while pending, or -1: not read                          *)
  head,        (* the block number read with it, or -1                      *)
  next,        (* nextScanBlock of the stored provenance, or None           *)
  recovery,    (* nextScanBlock of the provenance a check works with: the
                  stored one or the one it has read; None outside a check   *)
  latest, at,  (* locals of recoverTransactionReceipt                       *)
  answer,      (* the definite answer of confirmTrade or checkTrade         *)
  unavailable, (* history: "replacement provenance was unavailable"         *)
  blind,       (* history: provenance was noted past the nonce's block      *)
  faults

chain == <<height, consumed, by, same, reverted>>
reads == <<seen, head, latest, at>>
locals == <<reads, recovery>>
history == <<unavailable, blind>>
vars == <<chain, pc, locals, next, answer, history, faults>>

Answers == {"confirmed", "reverted", "cancelled", "repriced", "replaced"}

Init ==
  /\ height = 1 /\ consumed = 0 /\ by = Original /\ same = FALSE /\ reverted = FALSE
  /\ pc = "capture"
  /\ seen = -1 /\ head = -1 /\ latest = 0 /\ at = 0
  /\ next = None /\ recovery = None /\ answer = None
  /\ unavailable = FALSE /\ blind = FALSE /\ faults = 0

-----------------------------------------------------------------------------
(* The chain. *)

\* A block is added; it may hold the transaction with the nonce.
Grow ==
  /\ height < MaxHeight
  /\ height' = height + 1
  /\ \/ UNCHANGED <<consumed, by, same, reverted>>
     \/ /\ consumed = 0 /\ consumed' = height + 1
        /\ reverted' \in BOOLEAN
        /\ \/ same' = TRUE /\ by' = Original
           \/ same' = FALSE /\ by' \in Transactions
  /\ UNCHANGED <<pc, locals, next, answer, history, faults>>

-----------------------------------------------------------------------------
(* Provenance. *)

\* The two reads of Promise.all, answered in either order.  The original may be
\* gone from the node once another transaction has its nonce.
ReadTransaction ==
  /\ pc \in {"capture", "read"} /\ seen = -1
  /\ seen' = IF same THEN consumed ELSE 0
  /\ UNCHANGED <<chain, pc, head, latest, at, next, recovery, answer, history, faults>>

ReadHead ==
  /\ pc \in {"capture", "read"} /\ head = -1
  /\ head' = height
  /\ UNCHANGED <<chain, pc, seen, latest, at, next, recovery, answer, history, faults>>

Noted(block) ==
  /\ blind' = (blind \/ (consumed # 0 /\ block > consumed))
  /\ seen' = -1 /\ head' = -1

\* captureTradeRecovery has both: a mined transaction notes its own block.
Capture ==
  /\ pc = "capture" /\ seen # -1 /\ head # -1
  /\ next' = IF seen > 0 THEN seen ELSE head
  /\ Noted(next')
  /\ pc' = "wait"
  /\ UNCHANGED <<chain, latest, at, recovery, answer, unavailable, faults>>

\* Or one of them failed: there is no provenance.
CaptureFails ==
  /\ pc = "capture"
  /\ \/ faults < MaxFaults /\ faults' = faults + 1
     \/ consumed # 0 /\ ~same /\ seen = -1 /\ UNCHANGED faults
  /\ seen' = -1 /\ head' = -1
  /\ pc' = "wait"
  /\ UNCHANGED <<chain, latest, at, next, recovery, answer, history>>

-----------------------------------------------------------------------------
(* Answers. *)

replacementReason ==
  IF by.to = "sender" /\ by.value = 0 THEN "cancelled"
  ELSE IF by = Original THEN "repriced"
  ELSE "replaced"

\* resolveTradeReceipt of the original's own receipt.
ReceiptAnswer == IF reverted THEN "reverted" ELSE "confirmed"

\* The answer for a transaction found in a block, without comparing its hash
\* with the original's, and with.
AnyReplacement == replacementReason

FoundAnswer == IF same THEN ReceiptAnswer ELSE replacementReason

\* The check is over, with a definite answer, with a pending one whose provenance
\* the panel stores, or with an error, after which the panel stores what it had.
Finish(a) ==
  /\ answer' = a
  /\ pc' = "idle" /\ recovery' = None
  /\ UNCHANGED <<chain, reads, next, history, faults>>

Pending(provenance) ==
  pc' = "idle" /\ recovery' = None /\ next' = provenance

Throws == pc' = "idle" /\ recovery' = None /\ UNCHANGED next

\* confirmTrade: the library waits for the receipt, or for that of a
\* replacement it has noticed; a timeout leads to a check.
Confirmed ==
  /\ pc = "wait" /\ consumed # 0
  /\ Finish(FoundAnswer)

Timeout ==
  /\ pc = "wait"
  /\ pc' = "receipt"
  /\ UNCHANGED <<chain, locals, next, answer, history, faults>>

\* The user asks again, in this session or a later one.
Check ==
  /\ pc = "idle" /\ answer = None
  /\ pc' \in {"receipt", "wait"}
  /\ UNCHANGED <<chain, locals, next, answer, history, faults>>

-----------------------------------------------------------------------------
(* recoverTransactionReceipt. *)

ReceiptFound == pc = "receipt" /\ same /\ Finish(ReceiptAnswer)

\* There is none, or the node that answers does not have it yet.
ReceiptMissing ==
  /\ pc = "receipt"
  /\ IF same THEN faults < MaxFaults /\ faults' = faults + 1 ELSE UNCHANGED faults
  /\ recovery' = next
  /\ pc' = IF next = None THEN "read" ELSE "count"
  /\ UNCHANGED <<chain, reads, next, answer, history>>

\* Without stored provenance it is read now, for this check.
ReadProvenance ==
  /\ pc = "read" /\ seen # -1 /\ head # -1
  /\ recovery' = head
  /\ Noted(head)
  /\ pc' = "count"
  /\ UNCHANGED <<chain, latest, at, next, answer, unavailable, faults>>

\* Or it cannot be read, as of a transaction the node does not know: pending,
\* without provenance.
ReadFails ==
  /\ pc = "read"
  /\ \/ faults < MaxFaults /\ faults' = faults + 1
     \/ consumed # 0 /\ ~same /\ seen = -1 /\ UNCHANGED faults
  /\ seen' = -1 /\ head' = -1
  /\ Pending(None)
  /\ UNCHANGED <<chain, latest, at, answer, history>>

\* A comparison that takes the next nonce for a consumed one.
NextNonce == TRUE

\* The count of the sender's transactions is above the nonce.
NonceConsumed == consumed # 0

CountRead ==
  /\ pc = "count"
  /\ IF NonceConsumed THEN pc' = "head" /\ UNCHANGED <<next, recovery>>
                      ELSE Pending(recovery)
  /\ UNCHANGED <<chain, reads, answer, history, faults>>

LatestRead ==
  /\ pc = "head"
  /\ latest' = height /\ at' = recovery
  /\ pc' = "scan"
  /\ UNCHANGED <<chain, seen, head, next, recovery, answer, history, faults>>

\* A whole batch, whether or not the chain has it.
WholeBatch == recovery + REPLACEMENT_SCAN_BATCH - 1

lastBlock == IF recovery + REPLACEMENT_SCAN_BATCH - 1 < latest
               THEN recovery + REPLACEMENT_SCAN_BATCH - 1 ELSE latest

\* A block is fetched.  The transaction's receipt is, too.
ScanBlock ==
  /\ pc = "scan" /\ at <= lastBlock
  /\ IF at = consumed
       THEN Finish(FoundAnswer)
       ELSE /\ at' = at + 1
            /\ UNCHANGED <<chain, pc, seen, head, latest, next, recovery, answer, history,
                           faults>>

\* A next batch that begins where this one did.
SameBatch == recovery

NextBatch == lastBlock + 1

\* The batch has been in vain: pending, to go on after it, or the error that
\* provenance is unavailable.
ScanEnds ==
  /\ pc = "scan" /\ at > lastBlock
  /\ IF lastBlock < latest
       THEN Pending(NextBatch) /\ UNCHANGED unavailable
       ELSE Throws /\ unavailable' = TRUE
  /\ UNCHANGED <<chain, reads, answer, blind, faults>>

\* Any other call may fail, which ends the check: provenance that it has read
\* itself is gone, and so is the batch it was scanning.
CheckFails ==
  /\ pc \in {"wait", "receipt", "count", "head", "scan"}
  /\ faults < MaxFaults /\ faults' = faults + 1
  /\ Throws
  /\ UNCHANGED <<chain, reads, answer, history>>

Client ==
  \/ ReadTransaction \/ ReadHead \/ Capture \/ CaptureFails
  \/ Confirmed \/ Timeout \/ Check \/ ReceiptFound \/ ReceiptMissing
  \/ ReadProvenance \/ ReadFails \/ CountRead \/ LatestRead \/ ScanBlock \/ ScanEnds

Done == pc = "idle" /\ answer # None /\ UNCHANGED vars

Next == Grow \/ Client \/ CheckFails \/ Done

Spec == Init /\ [][Next]_vars

\* Calls are answered, and the user keeps asking while there is no answer.
FairSpec == Spec /\ WF_vars(Client)

-----------------------------------------------------------------------------
(* Properties. *)

Heights == 0..MaxHeight

\* Every variable keeps its range; the block to scan from is never beyond the
\* chain, so that each scan reads at least one block.
TypeOK ==
  /\ height \in 1..MaxHeight /\ consumed \in 0..height
  /\ by \in Transactions /\ same \in BOOLEAN /\ reverted \in BOOLEAN
  /\ pc \in {"capture", "wait", "idle", "receipt", "read", "count", "head", "scan"}
  /\ seen \in -1..height /\ head \in -1..height
  /\ next \in (1..height) \cup {None} /\ recovery \in (1..height) \cup {None}
  /\ latest \in 0..height /\ at \in 0..(height + 1)
  /\ answer \in Answers \cup {None}
  /\ unavailable \in BOOLEAN /\ blind \in BOOLEAN /\ faults \in 0..MaxFaults

\* However often a check is cut off and repeated while the chain grows, the scan
\* never passes the block of the transaction it looks for, unless its first
\* block was noted after that block.
Passed(block) == block # None /\ consumed # 0 /\ block > consumed

ScanBeforeNonce == Passed(next) \/ Passed(recovery) => blind

\* "Replacement provenance was unavailable" (contracts.ts:396) is said only when
\* the scan had been begun too late, never of a batch that ends at the head or
\* of a nonce that is not consumed.
UnavailableOnlyIfBlind == unavailable => blind

\* A definite answer is that of the transaction which has the nonce: confirmed
\* and reverted are said of the original alone, repriced of a transaction that
\* makes the same trade, cancelled of one that moves nothing.
AnswerIsTrue ==
  answer # None =>
    /\ consumed # 0
    /\ answer \in {"confirmed", "reverted"} <=> same
    /\ answer = "reverted" => reverted
    /\ answer = "repriced" => by = Original
    /\ answer = "cancelled" => by.to = "sender" /\ by.value = 0

\* Once provenance is stored that does not begin past the nonce's block, repeated
\* checks find the transaction: no batch is scanned for ever, no growth of the
\* chain outruns the scan, and a check that fails loses nothing of what is stored.
\* Nothing is said of provenance that no check has lived to store.
FoundAtLast == consumed # 0 /\ next # None /\ next <= consumed ~> answer # None

\* The inductive invariant.  A check that looks at the nonce has provenance, and
\* scans only once the nonce is consumed, up to a head at or above its block.
CheckState ==
  /\ consumed = 0 => ~same
  /\ head = -1 \/ head >= 1
  /\ pc \in {"count", "head", "scan"} => recovery # None
  /\ pc \in {"head", "scan"} => consumed # 0
  /\ pc = "scan" => /\ consumed <= latest /\ recovery <= latest
                    /\ recovery <= at /\ at <= lastBlock + 1

\* The blocks a scan has fetched are not the nonce's.
ScannedInVain == pc = "scan" => blind \/ at <= consumed

IInv ==
  /\ TypeOK
  /\ CheckState
  /\ ScannedInVain
  /\ ScanBeforeNonce
  /\ UnavailableOnlyIfBlind
  /\ AnswerIsTrue
=============================================================================
