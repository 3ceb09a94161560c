--------------------- MODULE TransactionRecovery_proofs ---------------------
(***************************************************************************)
(* The safety properties of TransactionRecovery, for every batch size and  *)
(* every height of the chain.                                              *)
(***************************************************************************)
EXTENDS TransactionRecovery, TLAPS

\* The batch ends at the head or within it, and begins before its end.
LEMMA LastBlockBounds ==
  ASSUME TypeOK, recovery # None, recovery <= latest
  PROVE  /\ lastBlock \in Int /\ recovery <= lastBlock /\ lastBlock <= latest
         /\ lastBlock <= recovery + REPLACEMENT_SCAN_BATCH - 1
BY RecoveryAssumption DEF TypeOK, lastBlock

LEMMA OriginalIsTransaction == Original \in Transactions
BY DEF Original, Transactions

LEMMA InitIInv == Init => IInv
<1> SUFFICES ASSUME Init PROVE IInv
  OBVIOUS
<1> USE DEF Init
<1>1. TypeOK
  <2>1. /\ height \in 1..MaxHeight /\ consumed \in 0..height
        /\ seen \in -1..height /\ head \in -1..height
        /\ latest \in 0..height /\ at \in 0..(height + 1) /\ faults \in 0..MaxFaults
    BY RecoveryAssumption, SMT
  <2>2. by \in Transactions
    BY OriginalIsTransaction
  <2> QED BY <2>1, <2>2 DEF TypeOK
<1>2. CheckState /\ ScannedInVain
  BY DEF CheckState, ScannedInVain
<1>3. ScanBeforeNonce /\ UnavailableOnlyIfBlind /\ AnswerIsTrue
  BY DEF ScanBeforeNonce, Passed, UnavailableOnlyIfBlind, AnswerIsTrue
<1> QED BY <1>1, <1>2, <1>3 DEF IInv

\* A definite answer for the transaction that has the nonce is true of it.
LEMMA FoundIsTrue ==
  ASSUME TypeOK, CheckState, consumed # 0,
         answer' = FoundAnswer \/ (same /\ answer' = ReceiptAnswer),
         UNCHANGED chain
  PROVE  answer' \in Answers /\ AnswerIsTrue'
BY DEF TypeOK, CheckState, FoundAnswer, ReceiptAnswer, replacementReason, Answers,
       AnswerIsTrue, chain

\* What a step that finds nothing has to show: where the stored and the running
\* scan begin has not changed, is nowhere, or is where one of them began.
LEMMA Kept ==
  ASSUME IInv, TypeOK', CheckState', ScannedInVain',
         UNCHANGED <<chain, unavailable, blind, answer>>,
         next' \in {next, recovery, None}, recovery' \in {next, recovery, None}
  PROVE  IInv'
<1>1. ScanBeforeNonce'
  BY DEF IInv, ScanBeforeNonce, Passed, chain
<1>2. UnavailableOnlyIfBlind' /\ AnswerIsTrue'
  BY DEF IInv, UnavailableOnlyIfBlind, AnswerIsTrue, chain
<1> QED BY <1>1, <1>2 DEF IInv

\* A step that ends with a definite answer.
LEMMA FinishKeeps ==
  ASSUME IInv, NEW a, Finish(a), consumed # 0, a = FoundAnswer \/ (same /\ a = ReceiptAnswer)
  PROVE  IInv'
<1>1. answer' \in Answers /\ AnswerIsTrue'
  BY FoundIsTrue DEF IInv, Finish
<1>2. TypeOK'
  BY <1>1 DEF IInv, TypeOK, Finish, chain, reads, history
<1>3. CheckState' /\ ScannedInVain'
  BY DEF IInv, CheckState, ScannedInVain, Finish, chain, reads, history
<1>4. ScanBeforeNonce' /\ UnavailableOnlyIfBlind'
  BY DEF IInv, ScanBeforeNonce, Passed, UnavailableOnlyIfBlind, Finish, chain, history
<1> QED BY <1>1, <1>2, <1>3, <1>4 DEF IInv

\* A step that notes provenance, to store it or for the running check, and goes
\* on to another await.
LEMMA NotedKeeps ==
  ASSUME IInv, NEW block, block \in 1..height, Noted(block),
         \/ pc' = "wait" /\ next' = block /\ recovery' = recovery
         \/ pc' = "count" /\ recovery' = block /\ next' = next,
         UNCHANGED <<chain, latest, at, answer, unavailable, faults>>
  PROVE  IInv'
<1>1. TypeOK'
  BY RecoveryAssumption DEF IInv, TypeOK, Noted, chain
<1>2. CheckState' /\ ScannedInVain'
  BY RecoveryAssumption DEF IInv, TypeOK, CheckState, ScannedInVain, Noted, chain
<1>3. ScanBeforeNonce'
  BY DEF IInv, ScanBeforeNonce, Passed, Noted, chain
<1>4. UnavailableOnlyIfBlind' /\ AnswerIsTrue'
  BY DEF IInv, UnavailableOnlyIfBlind, AnswerIsTrue, Noted, chain
<1> QED BY <1>1, <1>2, <1>3, <1>4 DEF IInv

LEMMA GrowKeeps == ASSUME IInv, Grow PROVE IInv'
<1> USE DEF IInv, Grow, locals, reads, history
<1>0. /\ height \in Nat /\ height' = height + 1 /\ MaxHeight \in Nat
      /\ (consumed' = consumed \/ (consumed = 0 /\ consumed' = height + 1))
  BY RecoveryAssumption DEF TypeOK
<1>1. TypeOK'
  <2>1. by' \in Transactions /\ same' \in BOOLEAN /\ reverted' \in BOOLEAN
    BY OriginalIsTransaction DEF TypeOK
  <2>2. /\ height' \in 1..MaxHeight /\ consumed' \in 0..height'
        /\ seen' \in -1..height' /\ head' \in -1..height'
        /\ latest' \in 0..height' /\ at' \in 0..(height' + 1) /\ faults' \in 0..MaxFaults
    BY RecoveryAssumption DEF TypeOK
  <2>3. next' \in (1..height') \cup {None} /\ recovery' \in (1..height') \cup {None}
    BY <1>0 DEF TypeOK
  <2> QED BY <2>1, <2>2, <2>3 DEF TypeOK
<1>2. CheckState' /\ ScannedInVain'
  BY DEF TypeOK, CheckState, ScannedInVain, lastBlock
<1>3. ScanBeforeNonce'
  BY <1>0 DEF TypeOK, ScanBeforeNonce, Passed
<1>4. UnavailableOnlyIfBlind' /\ AnswerIsTrue'
  BY <1>0 DEF TypeOK, UnavailableOnlyIfBlind, AnswerIsTrue
<1> QED BY <1>1, <1>2, <1>3, <1>4

\* Each step of the checks but those of the three lemmas above.
LEMMA ReadKeeps == ASSUME IInv, ReadTransaction \/ ReadHead \/ CaptureFails \/ ReadFails PROVE IInv'
<1>1. /\ seen' \in -1..height /\ head' \in -1..height /\ (head' = -1 \/ head' >= 1)
      /\ pc' \in {"capture", "wait", "idle", "read"} /\ faults' \in 0..MaxFaults
  BY RecoveryAssumption
     DEF IInv, TypeOK, CheckState, ReadTransaction, ReadHead, CaptureFails, ReadFails, Pending
<1>2. /\ UNCHANGED <<chain, latest, at, answer, unavailable, blind>>
      /\ next' \in {next, None} /\ recovery' \in {recovery, None}
  BY DEF ReadTransaction, ReadHead, CaptureFails, ReadFails, Pending, history
<1>3. TypeOK'
  <2>1. pc' \in {"capture", "wait", "idle", "receipt", "read", "count", "head", "scan"}
    BY <1>1
  <2> QED BY <1>1, <1>2, <2>1 DEF IInv, TypeOK, chain
<1>4. CheckState' /\ ScannedInVain'
  BY <1>1, <1>2 DEF IInv, CheckState, ScannedInVain, chain
<1> QED BY <1>2, <1>3, <1>4, Kept

LEMMA WaitKeeps ==
  ASSUME IInv, Timeout \/ Check \/ ReceiptMissing \/ CountRead \/ CheckFails PROVE IInv'
<1>1. /\ pc' \in {"wait", "idle", "receipt", "read", "count", "head"} /\ faults' \in 0..MaxFaults
      /\ pc' = "count" => recovery' # None
      /\ pc' = "head" => consumed # 0 /\ recovery' # None
  BY RecoveryAssumption
     DEF IInv, TypeOK, CheckState, NonceConsumed, Timeout, Check, ReceiptMissing, CountRead,
         CheckFails, Pending, Throws, locals
<1>2. /\ UNCHANGED <<chain, seen, head, latest, at, answer, unavailable, blind>>
      /\ next' \in {next, recovery} /\ recovery' \in {next, recovery, None}
  BY DEF Timeout, Check, ReceiptMissing, CountRead, CheckFails, Pending, Throws, locals, reads,
         history
<1>3. TypeOK'
  <2>1. pc' \in {"capture", "wait", "idle", "receipt", "read", "count", "head", "scan"}
    BY <1>1
  <2> QED BY <1>1, <1>2, <2>1 DEF IInv, TypeOK, chain
<1>4. CheckState' /\ ScannedInVain'
  BY <1>1, <1>2 DEF IInv, CheckState, ScannedInVain, chain
<1> QED BY <1>2, <1>3, <1>4, Kept

\* A scan begins at its first block, with a head that has the nonce's.
LEMMA LatestReadKeeps == ASSUME IInv, LatestRead PROVE IInv'
<1> USE DEF IInv, LatestRead, history
<1>1. TypeOK'
  BY DEF TypeOK, CheckState, chain
<1>2. /\ consumed' # 0 /\ recovery' # None /\ consumed' <= latest' /\ recovery' <= latest'
      /\ at' = recovery' /\ pc' = "scan" /\ recovery' \in Int
  BY DEF TypeOK, CheckState, chain
<1>3. recovery' <= lastBlock'
  BY <1>1, <1>2, RecoveryAssumption DEF lastBlock, TypeOK
<1>4. CheckState'
  BY <1>1, <1>2, <1>3, RecoveryAssumption DEF CheckState, TypeOK, lastBlock, chain
<1>5. ScannedInVain'
  BY <1>2 DEF ScannedInVain, ScanBeforeNonce, Passed, TypeOK, CheckState, chain
<1> QED BY <1>1, <1>4, <1>5, Kept

\* A block is not the nonce's, or the transaction is found in it.
LEMMA ScanBlockKeeps == ASSUME IInv, ScanBlock PROVE IInv'
<1>1. CASE at = consumed
  BY <1>1, FinishKeeps DEF IInv, CheckState, ScanBlock
<1>2. CASE at # consumed
  <2> USE <1>2 DEF IInv, ScanBlock, history
  <2>1. lastBlock \in Int /\ lastBlock <= latest /\ lastBlock' = lastBlock
    BY LastBlockBounds DEF CheckState, lastBlock
  <2>2. TypeOK'
    BY <2>1 DEF TypeOK, chain
  <2>3. CheckState' /\ ScannedInVain'
    BY <2>1 DEF TypeOK, CheckState, ScannedInVain, chain
  <2> QED BY <2>2, <2>3, Kept
<1> QED BY <1>1, <1>2

\* The batch is done: the next begins after it, or the head was reached with the
\* nonce's block behind the first one.
LEMMA ScanEndsKeeps == ASSUME IInv, ScanEnds PROVE IInv'
<1> USE DEF IInv, ScanEnds
<1>1. /\ lastBlock \in Int /\ recovery <= lastBlock /\ lastBlock <= latest /\ at = lastBlock + 1
      /\ consumed <= latest /\ (blind \/ at <= consumed)
      /\ recovery \in 1..height /\ latest \in 0..height /\ height \in Nat /\ consumed \in 0..height
  BY LastBlockBounds DEF CheckState, ScannedInVain, TypeOK
<1>2. /\ pc' = "idle" /\ recovery' = None
      /\ UNCHANGED <<chain, reads, answer, blind, faults>>
      /\ \/ /\ lastBlock < latest /\ next' = lastBlock + 1 /\ unavailable' = unavailable
         \/ /\ lastBlock >= latest /\ next' = next /\ unavailable' = TRUE
  BY <1>1 DEF Pending, Throws, NextBatch
<1>3. TypeOK'
  <2>1. next' \in (1..height') \cup {None} /\ unavailable' \in BOOLEAN
    <3>1. CASE lastBlock < latest
      <4>1. next' = lastBlock + 1 /\ unavailable' = unavailable /\ height' = height
        BY <1>1, <1>2, <3>1 DEF chain
      <4>2. next' \in 1..height'
        BY <1>1, <3>1, <4>1
      <4> QED BY <4>1, <4>2 DEF TypeOK
    <3>2. CASE ~(lastBlock < latest)
      BY <1>2, <3>2 DEF TypeOK, chain
    <3> QED BY <3>1, <3>2
  <2> QED BY <1>2, <2>1 DEF TypeOK, chain, reads
<1>4. CheckState' /\ ScannedInVain'
  BY <1>2 DEF CheckState, ScannedInVain, chain, reads
<1>5. ScanBeforeNonce' /\ UnavailableOnlyIfBlind'
  BY <1>1, <1>2 DEF ScanBeforeNonce, Passed, UnavailableOnlyIfBlind, TypeOK, chain
<1>6. AnswerIsTrue'
  BY <1>2 DEF AnswerIsTrue, chain
<1> QED BY <1>3, <1>4, <1>5, <1>6

LEMMA StepIInv == IInv /\ [Next]_vars => IInv'
<1> SUFFICES ASSUME IInv, [Next]_vars PROVE IInv'
  OBVIOUS
<1>1. CASE Grow
  BY <1>1, GrowKeeps
<1>2. CASE ReadTransaction \/ ReadHead \/ CaptureFails \/ ReadFails
  BY <1>2, ReadKeeps
<1>3. CASE Capture
  <2> DEFINE block == IF seen > 0 THEN seen ELSE head
  <2>1. block \in 1..height
    BY <1>3 DEF IInv, TypeOK, CheckState, Capture
  <2> HIDE DEF block
  <2>2. Noted(block)
    BY <1>3 DEF Capture, block
  <2>3. next' = block
    BY <1>3 DEF Capture, block
  <2> QED BY <1>3, <2>1, <2>2, <2>3, NotedKeeps DEF Capture
<1>4. CASE ReadProvenance
  <2>1. head \in 1..height
    BY <1>4 DEF IInv, TypeOK, CheckState, ReadProvenance
  <2> QED BY <1>4, <2>1, NotedKeeps DEF ReadProvenance
<1>5. CASE Confirmed
  BY <1>5, FinishKeeps DEF Confirmed
<1>6. CASE ReceiptFound
  BY <1>6, FinishKeeps DEF ReceiptFound, IInv, CheckState
<1>7. CASE Timeout \/ Check \/ ReceiptMissing \/ CountRead \/ CheckFails
  BY <1>7, WaitKeeps
<1>8. CASE LatestRead
  BY <1>8, LatestReadKeeps
<1>9. CASE ScanBlock
  BY <1>9, ScanBlockKeeps
<1>10. CASE ScanEnds
  BY <1>10, ScanEndsKeeps
<1>11. CASE UNCHANGED vars
  <2>1. TypeOK' /\ CheckState' /\ ScannedInVain'
    BY <1>11 DEF IInv, TypeOK, CheckState, ScannedInVain, lastBlock, vars, chain, locals, reads,
           history
  <2> QED BY <1>11, <2>1, Kept DEF vars, locals, history
<1> QED
  BY <1>1, <1>2, <1>3, <1>4, <1>5, <1>6, <1>7, <1>8, <1>9, <1>10, <1>11 DEF Next, Client, Done

\* Through every call of a check and every growth of the chain IInv holds.
THEOREM IInvHolds == Spec => []IInv
BY InitIInv, StepIInv, PTL DEF Spec

\* The variables keep their ranges; the block to scan from is within the chain.
THEOREM TypeOKHolds == Spec => []TypeOK
<1>1. IInv => TypeOK
  BY DEF IInv
<1> QED BY <1>1, IInvHolds, PTL

\* The scan of recoverTransactionReceipt never passes the block it looks for,
\* whatever the batch size, unless it was begun past it.
THEOREM ScanBeforeNonceHolds == Spec => []ScanBeforeNonce
<1>1. IInv => ScanBeforeNonce
  BY DEF IInv
<1> QED BY <1>1, IInvHolds, PTL

\* "Replacement provenance was unavailable" is said only then.
THEOREM UnavailableOnlyIfBlindHolds == Spec => []UnavailableOnlyIfBlind
<1>1. IInv => UnavailableOnlyIfBlind
  BY DEF IInv
<1> QED BY <1>1, IInvHolds, PTL

\* A definite answer is that of the transaction which has the nonce.
THEOREM AnswerIsTrueHolds == Spec => []AnswerIsTrue
<1>1. IInv => AnswerIsTrue
  BY DEF IInv
<1> QED BY <1>1, IInvHolds, PTL
=============================================================================
