------------------------ MODULE TokenCreation_proofs ------------------------
(***************************************************************************)
(* Proofs about TokenCreation: its type invariant and its three safety     *)
(* properties, for any number of launches, purchases, attempts and pages.  *)
(*                                                                         *)
(* None of the properties is inductive.  IInv adds what a launch's stage   *)
(* says of its chain record (LaunchOK) and of its purchases (BuysOK), and  *)
(* that what a page shows belongs to a launch of its own (PageOK): a       *)
(* launch's flow then cannot touch what another one shows, and a retry can *)
(* only start from purchases that are Settled.  The steps fall into six    *)
(* kinds, each with one lemma: a flow moves (Moves), ends with its launch  *)
(* shown (Finishes), buys (Asks), is started again or begun, the chain     *)
(* moves (ChainMoves), and the form or the page changes.                   *)
(***************************************************************************)
EXTENDS TokenCreation, FiniteSetTheorems, TLAPS

Creating == {"upload", "simulate", "wallet", "confirm", "finalize"}
Buying == {"buy_read", "buy_wallet", "buy_confirm"}

\* A launch that is on the chain, indexed and described.
Real(l) == l.fate = "mined" /\ l.indexed /\ l.draft = "final"

\* What a launch's stage says of it.
LaunchOK(l) ==
  /\ l.page <= page
  /\ l.at = "upload" => l.draft = "none"
  /\ l.at \in {"upload", "simulate"} => l.fate = "none"
  /\ l.at \in Creating => ~l.retry
  /\ l.at \in Buying => Real(l)

\* Every purchase of a launch with a known hash has reverted, but for those asked for
\* by a retry.
Settled(n) ==
  \A b \in BuysOf(n) : buys[b].known /\ ~buys[b].retry => buys[b].fate = "reverted"

\* What a launch's stage says of its purchases.
BuysOK(n) ==
  LET l == launches[n] IN
  /\ ~l.retry => \A b, c \in BuysOf(n) : b = c
  /\ ~l.retry /\ l.at \in Creating \cup {"buy_read"} => BuysOf(n) = {}
  /\ l.at \in {"buy_wallet", "buy_confirm"} =>
       /\ LastBuy(n) \in BuysOf(n) /\ \A b \in BuysOf(n) : b <= LastBuy(n)
       /\ buys[LastBuy(n)].retry = l.retry
       /\ l.at = "buy_wallet" => ~buys[LastBuy(n)].known
  /\ l.retry => Settled(n)

\* What the page shows is of its own launch, whose purchase may be retried only
\* when settled; and one flow runs on a page.
PageOK ==
  /\ page <= turns
  /\ result # None =>
       /\ launches[result].page = page /\ Real(launches[result])
       /\ launches[result].at = "ended" \/ launches[result].retry
  /\ failure # None =>
       /\ result = failure.launch
       /\ failure.retryable => Settled(failure.launch)
  /\ \A m, n \in Running : m = n

FlowsOK == \A n \in DOMAIN launches : LaunchOK(launches[n]) /\ BuysOK(n)

IInv ==
  TypeOK /\ FlowsOK /\ PageOK /\ SuccessIsReal /\ RetryWaitsForReceipt /\ DisabledWhileRunning

-----------------------------------------------------------------------------
(* What a change of one launch leaves alone. *)

LEMMA LaunchesTyped ==
  ASSUME TypeOK
  PROVE  /\ DOMAIN launches = 1..Len(launches) /\ Len(launches) \in Nat
         /\ DOMAIN launches \subseteq Nat
         /\ \A n \in DOMAIN launches : launches[n] \in LaunchRecord
         /\ DOMAIN buys = 1..Len(buys) /\ Len(buys) \in Nat
         /\ \A b \in DOMAIN buys : buys[b] \in BuyRecord
<1>1. launches \in Seq(LaunchRecord) /\ buys \in Seq(BuyRecord)
  BY DEF TypeOK
<1>2. QED
  BY <1>1

LEMMA OneLaunch ==
  ASSUME TypeOK, NEW n \in DOMAIN launches, NEW r \in LaunchRecord,
         launches' = [launches EXCEPT ![n] = r]
  PROVE  /\ launches' \in Seq(LaunchRecord) /\ Len(launches') = Len(launches)
         /\ DOMAIN launches' = DOMAIN launches /\ launches'[n] = r
         /\ \A m \in DOMAIN launches : m # n => launches'[m] = launches[m]
<1>1. launches \in Seq(LaunchRecord)
  BY DEF TypeOK
<1>2. QED
  BY <1>1

LEMMA SameBuys ==
  ASSUME buys' = buys
  PROVE  \A n : /\ BuysOf(n)' = BuysOf(n) /\ LastBuy(n)' = LastBuy(n)
                /\ Settled(n)' <=> Settled(n)
BY DEF BuysOf, LastBuy, Settled

\* The flows of the page once launch n's flow has moved.
LEMMA RunningMoved ==
  ASSUME TypeOK, PageOK, NEW n \in DOMAIN launches, NEW r \in LaunchRecord,
         launches' = [launches EXCEPT ![n] = r], page' = page,
         launches[n].at # "ended", r.page = launches[n].page
  PROVE  /\ r.at # "ended" \/ r.page # page => Running' = Running
         /\ r.at = "ended" /\ r.page = page => Running' = {}
         /\ r.page = page => n \in Running
<1>1. /\ DOMAIN launches' = DOMAIN launches /\ launches'[n] = r
      /\ \A m \in DOMAIN launches : m # n => launches'[m] = launches[m]
  BY OneLaunch
<1>2. r.page = page => n \in Running
  BY DEF Running
<1>3. \A m, k \in Running : m = k
  BY DEF PageOK
<1>4. r.at # "ended" \/ r.page # page => Running' = Running
  BY <1>1 DEF Running
<1>5. r.at = "ended" /\ r.page = page => Running' = {}
  BY <1>1, <1>2, <1>3 DEF Running
<1>6. QED
  BY <1>2, <1>4, <1>5

\* Every other launch stays as it should be.
LEMMA OtherFlows ==
  ASSUME TypeOK, FlowsOK, NEW n \in DOMAIN launches, NEW r \in LaunchRecord,
         launches' = [launches EXCEPT ![n] = r], page' = page, buys' = buys,
         LaunchOK(r), BuysOK(n)'
  PROVE  FlowsOK'
<1>1. /\ DOMAIN launches' = DOMAIN launches /\ launches'[n] = r
      /\ \A m \in DOMAIN launches : m # n => launches'[m] = launches[m]
  BY OneLaunch
<1>2. ASSUME NEW m \in DOMAIN launches, m # n
      PROVE  LaunchOK(launches[m])' /\ BuysOK(m)'
  <2>1. LaunchOK(launches[m]) /\ BuysOK(m)
    BY DEF FlowsOK
  <2>2. launches'[m] = launches[m]
    BY <1>1, <1>2
  <2>3. LaunchOK(launches[m])'
    BY <2>1, <2>2 DEF LaunchOK, Real
  <2>4. BuysOK(m)'
    BY <2>1, <2>2, SameBuys DEF BuysOK
  <2>5. QED
    BY <2>3, <2>4
<1>3. LaunchOK(launches[n])'
  BY <1>1 DEF LaunchOK, Real
<1>4. QED
  BY <1>1, <1>2, <1>3 DEF FlowsOK

LEMMA ShowsTyped ==
  ASSUME TypeOK, NEW s \in Statuses, Shows(s)
  PROVE  status' = s /\ status' \in Statuses /\ modal' \in {"closed", "review", "busy", "other"}
BY DEF TypeOK, Shows, Phase

LEMMA ReportTyped ==
  ASSUME TypeOK, NEW s \in Statuses, NEW n, Report(n, s)
  PROVE  status' \in Statuses /\ modal' \in {"closed", "review", "busy", "other"}
BY ShowsTyped DEF Report, TypeOK

\* The modal shows a busy status as busy.
LEMMA BusyModal ==
  ASSUME DisabledWhileRunning, NEW s \in BusyStatus, Shows(s)
  PROVE  pending' /\ modal' = "busy"
BY DEF DisabledWhileRunning, Shows, Phase, pending, BusyStatus

-----------------------------------------------------------------------------
(* A flow moves on, or fails, with no launch to show. *)

Moves(n, r, s) ==
  /\ n \in DOMAIN launches /\ r \in LaunchRecord /\ s \in Statuses
  /\ launches[n].at # "ended" /\ launches' = [launches EXCEPT ![n] = r]
  /\ r.page = launches[n].page /\ r.buys = launches[n].buys /\ r.retry = launches[n].retry
  /\ LaunchOK(r) /\ (Real(launches[n]) => Real(r))
  /\ r.at = "ended" \/ (launches[n].at \in Creating /\ r.at \in Creating \cup {"buy_read"})
  /\ \/ UNCHANGED <<status, modal>> /\ r.at # "ended"
     \/ /\ Report(n, s) /\ s \notin {"confirmed", "dev_buy_confirmed", "idle"}
        /\ r.at # "ended" <=> s \in BusyStatus
  /\ UNCHANGED <<result, failure, buys>> /\ Rest

LEMMA MovesKeeps ==
  ASSUME IInv, NEW n, NEW r, NEW s, Moves(n, r, s)
  PROVE  IInv'
<1>1. /\ TypeOK /\ FlowsOK /\ PageOK /\ SuccessIsReal /\ RetryWaitsForReceipt
      /\ DisabledWhileRunning
  BY DEF IInv
<1>2. /\ n \in DOMAIN launches /\ r \in LaunchRecord /\ s \in Statuses
      /\ launches[n].at # "ended" /\ launches' = [launches EXCEPT ![n] = r]
      /\ r.page = launches[n].page /\ r.buys = launches[n].buys /\ r.retry = launches[n].retry
      /\ LaunchOK(r) /\ (Real(launches[n]) => Real(r))
      /\ r.at = "ended" \/ (launches[n].at \in Creating /\ r.at \in Creating \cup {"buy_read"})
      /\ UNCHANGED <<ready, page, input, review, turns, result, failure, buys>>
  BY DEF Moves, Rest
<1>3. /\ launches' \in Seq(LaunchRecord) /\ Len(launches') = Len(launches)
      /\ DOMAIN launches' = DOMAIN launches /\ launches'[n] = r
      /\ \A m \in DOMAIN launches : m # n => launches'[m] = launches[m]
  BY <1>1, <1>2, OneLaunch
<1>4. TypeOK'
  <2>1. status' \in Statuses /\ modal' \in {"closed", "review", "busy", "other"}
    BY <1>1, <1>2, ReportTyped DEF Moves, TypeOK
  <2>2. BuyRecord' = BuyRecord
    BY <1>3 DEF BuyRecord
  <2>3. QED
    BY <1>1, <1>2, <1>3, <2>1, <2>2 DEF TypeOK
<1>5. FlowsOK'
  <2>1. BuysOK(n)
    BY <1>1, <1>2 DEF FlowsOK
  <2>2. launches[n].at \in Creating => ~launches[n].retry
    BY <1>1, <1>2 DEF FlowsOK, LaunchOK
  <2>3. BuysOK(n)'
    BY <1>2, <1>3, <2>1, <2>2, SameBuys DEF BuysOK, Creating
  <2>4. QED
    BY <1>1, <1>2, <2>3, OtherFlows
<1>6. /\ r.at # "ended" \/ r.page # page => Running' = Running
      /\ r.at = "ended" /\ r.page = page => Running' = {}
      /\ r.page = page => n \in Running
  BY <1>1, <1>2, RunningMoved
<1>7. PageOK'
  <2>1. \A m, k \in Running' : m = k
    BY <1>1, <1>6 DEF PageOK
  <2>2. result' # None =>
          /\ launches'[result'].page = page' /\ Real(launches'[result'])
          /\ launches'[result'].at = "ended" \/ launches'[result'].retry
    BY <1>1, <1>2, <1>3 DEF PageOK, TypeOK
  <2>3. failure' # None =>
          result' = failure'.launch /\ (failure'.retryable => Settled(failure.launch)')
    BY <1>1, <1>2, SameBuys DEF PageOK, Settled, BuysOf
  <2>4. page' <= turns'
    BY <1>1, <1>2 DEF PageOK
  <2>5. QED
    BY <1>2, <2>1, <2>2, <2>3, <2>4 DEF PageOK
<1>8. SuccessIsReal'
  <2>1. status' \in {"confirmed", "dev_buy_confirmed"} => status' = status
    BY DEF Moves, Report, Shows
  <2>2. result' # None => /\ launches'[result'].fate = "mined" /\ launches'[result'].indexed
                          /\ launches'[result'].draft = "final"
                          /\ launches'[result'].buys = launches[result].buys
    BY <1>1, <1>2, <1>3 DEF SuccessIsReal, TypeOK, Real
  <2>3. BuysOf(result)' = BuysOf(result)
    BY <1>2 DEF BuysOf
  <2>4. QED
    BY <1>1, <1>2, <2>1, <2>2, <2>3 DEF SuccessIsReal
<1>9. RetryWaitsForReceipt'
  BY <1>1, <1>2 DEF RetryWaitsForReceipt, BuysOf
<1>10. DisabledWhileRunning'
  <2>1. CASE launches[n].page # page \/ (UNCHANGED <<status, modal>> /\ r.at # "ended")
    <3>1. UNCHANGED <<status, modal>>
      BY <2>1 DEF Moves, Report
    <3>2. Running' = Running
      BY <1>2, <1>6, <2>1
    <3>3. QED
      BY <1>1, <1>2, <3>1, <3>2 DEF DisabledWhileRunning, pending, Locked
  <2>2. CASE /\ launches[n].page = page /\ Shows(s)
             /\ s \notin {"confirmed", "dev_buy_confirmed", "idle"}
             /\ r.at # "ended" <=> s \in BusyStatus
    <3>1. CASE r.at # "ended"
      <4>1. pending' /\ modal' = "busy"
        BY <1>1, <2>2, <3>1, BusyModal
      <4>2. Locked'
        BY <1>2, <1>6, <2>2, <3>1 DEF Locked
      <4>3. QED
        BY <4>1, <4>2 DEF DisabledWhileRunning
    <3>2. CASE r.at = "ended"
      <4>1. ~pending' /\ status' # "dev_buy_confirming"
        BY <2>2, <3>2 DEF pending, Shows, BusyStatus
      <4>2. ~Locked'
        BY <1>2, <1>6, <2>2, <3>2 DEF Locked
      <4>3. QED
        BY <4>1, <4>2 DEF DisabledWhileRunning
    <3>3. QED
      BY <3>1, <3>2
  <2>3. QED
    BY <2>1, <2>2 DEF Moves, Report
<1>11. QED
  BY <1>4, <1>5, <1>7, <1>8, <1>9, <1>10 DEF IInv

\* The steps of a flow up to its metadata, and a retry that fails.
LEMMA FlowMoves ==
  ASSUME IInv, NEW n \in DOMAIN launches,
         \/ uploadMetadata(n) \/ submitCreateToken(n) \/ Submitted(n)
         \/ confirmCreatedToken(n) \/ Fails(n)
         \/ BuyFails(n) /\ launches[n].retry
  PROVE  IInv'
<1>1. launches[n] \in LaunchRecord /\ LaunchOK(launches[n])
  BY LaunchesTyped DEF IInv, FlowsOK
<1>2. CASE uploadMetadata(n)
  <2> DEFINE r == [launches[n] EXCEPT !.at = "simulate", !.draft = "stored"]
  <2>1. Moves(n, r, "awaiting_wallet")
    BY <1>1, <1>2 DEF uploadMetadata, Moves, Quiet, LaunchRecord, LaunchOK, Real, Stages,
                      Statuses, BusyStatus, Creating, Buying, Fates
  <2>2. QED
    BY <2>1, MovesKeeps
<1>3. CASE submitCreateToken(n)
  <2> DEFINE r == [launches[n] EXCEPT !.at = "wallet", !.fate = "open"]
  <2>1. Moves(n, r, "failed")
    BY <1>1, <1>3 DEF submitCreateToken, Moves, Quiet, LaunchRecord, LaunchOK, Real, Stages,
                      Statuses, BusyStatus, Creating, Buying, Fates
  <2>2. QED
    BY <2>1, MovesKeeps
<1>4. CASE Submitted(n)
  <2> DEFINE r == [launches[n] EXCEPT !.at = "confirm"]
  <2>1. Moves(n, r, "confirming")
    BY <1>1, <1>4 DEF Submitted, Goto, Moves, Quiet, LaunchRecord, LaunchOK, Real, Stages,
                      Statuses, BusyStatus, Creating, Buying, Fates
  <2>2. QED
    BY <2>1, MovesKeeps
<1>5. CASE confirmCreatedToken(n)
  <2> DEFINE r == [launches[n] EXCEPT !.at = "finalize"]
  <2>1. Moves(n, r, "confirming")
    BY <1>1, <1>5 DEF confirmCreatedToken, Goto, Moves, Quiet, LaunchRecord, LaunchOK, Real,
                      Stages, Statuses, BusyStatus, Creating, Buying, Fates
  <2>2. QED
    BY <2>1, MovesKeeps
<1>6. CASE Fails(n)
  <2> DEFINE r == [launches[n] EXCEPT !.at = "ended"]
  <2>1. Moves(n, r, "failed")
    BY <1>1, <1>6 DEF Fails, Rejects, Goto, Moves, Quiet, LaunchRecord, LaunchOK, Real,
                      Stages, Statuses, BusyStatus, Creating, Buying, Fates
  <2>2. QED
    BY <2>1, MovesKeeps
<1>7. CASE BuyFails(n) /\ launches[n].retry
  <2> DEFINE r == [launches[n] EXCEPT !.at = "ended"]
  <2>1. Moves(n, r, "dev_buy_failed")
    BY <1>1, <1>7 DEF BuyFails, Moves, Quiet, LaunchRecord, LaunchOK, Real,
                      Stages, Statuses, BusyStatus, Creating, Buying, Fates
  <2>2. QED
    BY <2>1, MovesKeeps
<1>8. QED
  BY <1>2, <1>3, <1>4, <1>5, <1>6, <1>7

-----------------------------------------------------------------------------
(* A flow ends with its launch shown. *)

Finishes(n, r, left, s) ==
  /\ n \in DOMAIN launches /\ r \in LaunchRecord /\ s \in Statuses \ {"idle"}
  /\ launches[n].at # "ended" /\ launches' = [launches EXCEPT ![n] = r]
  /\ r.page = launches[n].page /\ r.buys = launches[n].buys /\ r.retry = launches[n].retry
  /\ r.at = "ended" /\ LaunchOK(r) /\ Real(r)
  /\ Created(n, left, s)
  /\ left = None \/ \E q \in BOOLEAN : left = DevBuyFailure(n, q) /\ (q => Settled(n))
  /\ s \in {"confirmed", "dev_buy_confirmed"} =>
       left = None /\ (r.buys => \E b \in BuysOf(n) : buys[b].fate = "mined")
  /\ s \in BusyStatus <=> s = "dev_buy_confirming" /\ left # None /\ ~left.retryable
  /\ UNCHANGED buys /\ Rest

LEMMA FinishesKeeps ==
  ASSUME IInv, NEW n, NEW r, NEW left, NEW s, Finishes(n, r, left, s)
  PROVE  IInv'
<1>1. /\ TypeOK /\ FlowsOK /\ PageOK /\ SuccessIsReal /\ RetryWaitsForReceipt
      /\ DisabledWhileRunning
  BY DEF IInv
<1>2. /\ n \in DOMAIN launches /\ r \in LaunchRecord /\ s \in Statuses /\ s # "idle"
      /\ launches[n].at # "ended" /\ launches' = [launches EXCEPT ![n] = r]
      /\ r.page = launches[n].page /\ r.buys = launches[n].buys /\ r.retry = launches[n].retry
      /\ r.at = "ended" /\ LaunchOK(r) /\ Real(r)
      /\ UNCHANGED <<ready, page, input, review, turns, buys>>
  BY DEF Finishes, Rest
<1>3. /\ launches' \in Seq(LaunchRecord) /\ Len(launches') = Len(launches)
      /\ DOMAIN launches' = DOMAIN launches /\ launches'[n] = r
      /\ \A m \in DOMAIN launches : m # n => launches'[m] = launches[m]
  BY <1>1, <1>2, OneLaunch
<1>4. left = None \/ \E q \in BOOLEAN : left = DevBuyFailure(n, q) /\ (q => Settled(n))
  BY DEF Finishes
<1>5. None \notin Nat /\ None \notin [launch : Nat, retryable : BOOLEAN]
  BY CreationAssumption
<1>6. /\ r.page # page => Running' = Running
      /\ r.page = page => Running' = {} /\ n \in Running
  BY <1>1, <1>2, RunningMoved
<1>7. FlowsOK'
  <2>1. BuysOK(n)
    BY <1>1, <1>2 DEF FlowsOK
  <2>2. BuysOK(n)'
    BY <1>2, <1>3, <2>1, SameBuys DEF BuysOK, Creating
  <2>3. QED
    BY <1>1, <1>2, <2>2, OtherFlows
<1>8. RetryWaitsForReceipt'
  BY <1>1, <1>2 DEF RetryWaitsForReceipt, BuysOf
<1>9. BuyRecord' = BuyRecord
  BY <1>3 DEF BuyRecord
<1>10. n \in Nat /\ n # None
  BY <1>1, <1>2, <1>5, LaunchesTyped
<1>11. CASE r.page # page
  <2>1. UNCHANGED <<status, modal, result, failure>>
    BY <1>2, <1>11 DEF Finishes, Created, Report
  <2>2. TypeOK'
    BY <1>1, <1>2, <1>3, <1>9, <2>1 DEF TypeOK
  <2>3. result # None => result \in DOMAIN launches /\ result # n
    BY <1>1, <1>2, <1>11 DEF PageOK, TypeOK
  <2>4. result # None => launches'[result] = launches[result]
    BY <1>3, <2>3
  <2>5. PageOK'
    <3>1. \A m, k \in Running' : m = k
      BY <1>1, <1>6, <1>11 DEF PageOK
    <3>2. result' # None =>
            /\ launches'[result'].page = page' /\ Real(launches'[result'])
            /\ launches'[result'].at = "ended" \/ launches'[result'].retry
      BY <1>1, <1>2, <2>1, <2>4 DEF PageOK
    <3>3. failure' # None =>
            result' = failure'.launch /\ (failure'.retryable => Settled(failure.launch)')
      BY <1>1, <1>2, <2>1, SameBuys DEF PageOK
    <3>4. page' <= turns'
      BY <1>1, <1>2 DEF PageOK
    <3>5. QED
      BY <2>1, <3>1, <3>2, <3>3, <3>4 DEF PageOK
  <2>6. SuccessIsReal'
    BY <1>1, <1>2, <2>1, <2>4 DEF SuccessIsReal, BuysOf
  <2>7. DisabledWhileRunning'
    BY <1>1, <1>2, <1>6, <1>11, <2>1 DEF DisabledWhileRunning, pending, Locked
  <2>8. QED
    BY <1>7, <1>8, <2>2, <2>5, <2>6, <2>7 DEF IInv
<1>12. CASE r.page = page
  <2>1. Shows(s) /\ result' = n /\ failure' = left
    BY <1>2, <1>12 DEF Finishes, Created, Report
  <2>2. /\ status' = s /\ status' \in Statuses
        /\ modal' \in {"closed", "review", "busy", "other"}
    BY <1>1, <1>2, <2>1, ShowsTyped
  <2>3. left = None \/ left \in [launch : DOMAIN launches, retryable : BOOLEAN]
    BY <1>2, <1>4 DEF DevBuyFailure
  <2>4. TypeOK'
    BY <1>1, <1>2, <1>3, <1>9, <2>1, <2>2, <2>3 DEF TypeOK
  <2>5. PageOK'
    <3>1. Running' = {}
      BY <1>6, <1>12
    <3>2. failure' # None =>
            result' = failure'.launch /\ (failure'.retryable => Settled(n)')
      BY <1>2, <1>4, <2>1, SameBuys DEF DevBuyFailure
    <3>3. page' <= turns'
      BY <1>1, <1>2 DEF PageOK
    <3>4. launches'[result'].page = page' /\ Real(launches'[result'])
          /\ launches'[result'].at = "ended"
      BY <1>2, <1>3, <1>12, <2>1
    <3>5. failure' # None => failure'.launch = n
      BY <2>1, <3>2
    <3>6. QED
      BY <2>1, <3>1, <3>2, <3>3, <3>4, <3>5 DEF PageOK, Settled, BuysOf
  <2>6. SuccessIsReal'
    <3>1. s \in {"confirmed", "dev_buy_confirmed"} =>
            left = None /\ (r.buys => \E b \in BuysOf(n) : buys[b].fate = "mined")
      BY DEF Finishes
    <3>2. BuysOf(n)' = BuysOf(n)
      BY <1>2, SameBuys
    <3>3. QED
      BY <1>2, <1>3, <1>10, <2>1, <2>2, <3>1, <3>2 DEF SuccessIsReal, Real, BuysOf
  <2>7. DisabledWhileRunning'
    <3>1. s \in BusyStatus <=> s = "dev_buy_confirming" /\ left # None /\ ~left.retryable
      BY DEF Finishes
    <3>2. ~Locked'
      BY <1>6, <1>12 DEF Locked
    <3>3. s \in BusyStatus => modal' = "busy"
      BY <1>1, <2>1, BusyModal
    <3>4. QED
      BY <2>1, <2>2, <3>1, <3>2, <3>3 DEF DisabledWhileRunning, pending
  <2>8. QED
    BY <1>7, <1>8, <2>4, <2>5, <2>6, <2>7 DEF IInv
<1>13. QED
  BY <1>11, <1>12

LEMMA FinalizeKeeps ==
  ASSUME IInv, NEW n \in DOMAIN launches, finalizeMetadata(n)
  PROVE  IInv'
<1>1. launches[n] \in LaunchRecord /\ LaunchOK(launches[n]) /\ launches[n].at = "finalize"
  BY LaunchesTyped DEF IInv, FlowsOK, finalizeMetadata
<1>2. CASE Finalizable(n) /\ Finalized(n, "final") /\ launches[n].buys
  <2> DEFINE r == [launches[n] EXCEPT !.at = "buy_read", !.draft = "final"]
  <2>1. launches[n].fate = "mined" /\ launches[n].indexed
    BY <1>2 DEF Finalizable
  <2>2. launches' = [launches EXCEPT ![n] = r] /\ Report(n, "dev_buy_preparing")
        /\ UNCHANGED <<result, failure, buys>> /\ Rest
    BY <1>1, <1>2 DEF Finalized, finalizeMetadata
  <2>3. Moves(n, r, "dev_buy_preparing")
    BY <1>1, <2>1, <2>2 DEF Moves, LaunchRecord, LaunchOK, Real, Stages, Statuses, BusyStatus,
                            Creating, Buying, Fates
  <2>4. QED
    BY <2>3, MovesKeeps
<1>3. CASE Finalizable(n) /\ Finalized(n, "final") /\ ~launches[n].buys
  <2> DEFINE r == [launches[n] EXCEPT !.at = "ended", !.draft = "final"]
  <2>1. launches[n].fate = "mined" /\ launches[n].indexed
    BY <1>3 DEF Finalizable
  <2>2. launches' = [launches EXCEPT ![n] = r] /\ Created(n, None, "confirmed")
        /\ UNCHANGED buys /\ Rest
    BY <1>1, <1>3 DEF Finalized, finalizeMetadata
  <2>3. Finishes(n, r, None, "confirmed")
    BY <1>1, <1>3, <2>1, <2>2 DEF Finishes, LaunchRecord, LaunchOK, Real, Stages, Statuses,
                                  BusyStatus, Creating, Buying, Fates
  <2>4. QED
    BY <2>3, FinishesKeeps
<1>4. CASE /\ Finalizable(n)
           /\ launches' = [launches EXCEPT ![n].at = "ended", ![n].draft = "final"]
           /\ Report(n, "failed")
           /\ UNCHANGED <<result, failure>>
  <2> DEFINE r == [launches[n] EXCEPT !.at = "ended", !.draft = "final"]
  <2>1. Moves(n, r, "failed")
    BY <1>1, <1>4 DEF finalizeMetadata, Moves, LaunchRecord, LaunchOK, Real, Stages, Statuses,
                      BusyStatus, Creating, Buying, Fates
  <2>2. QED
    BY <2>1, MovesKeeps
<1>5. CASE NotIndexed(n)
  <2> DEFINE r == [launches[n] EXCEPT !.attempts = launches[n].attempts + 1]
  <2>1. launches[n].attempts + 1 \in 0..MaxAttempts - 1
    BY <1>1, <1>5, CreationAssumption DEF NotIndexed, LaunchRecord
  <2>2. Moves(n, r, "failed")
    BY <1>1, <1>5, <2>1 DEF finalizeMetadata, NotIndexed, Moves, LaunchRecord, LaunchOK, Real,
                            Stages, Statuses, BusyStatus, Creating, Buying, Fates
  <2>3. QED
    BY <2>2, MovesKeeps
<1>6. CASE Rejects(n) /\ UNCHANGED <<result, failure>>
  <2> DEFINE r == [launches[n] EXCEPT !.at = "ended"]
  <2>1. Moves(n, r, "failed")
    BY <1>1, <1>6 DEF finalizeMetadata, Rejects, Goto, Moves, LaunchRecord, LaunchOK, Real,
                      Stages, Statuses, BusyStatus, Creating, Buying, Fates
  <2>2. QED
    BY <2>1, MovesKeeps
<1>7. QED
  BY <1>2, <1>3, <1>4, <1>5, <1>6 DEF finalizeMetadata, GivesUp

\* The purchase of a flow that is in its last steps.
LEMMA BuyKnown ==
  ASSUME IInv, NEW n \in DOMAIN launches, launches[n].at \in {"buy_wallet", "buy_confirm"}
  PROVE  /\ LastBuy(n) \in BuysOf(n) /\ LastBuy(n) \in DOMAIN buys
         /\ \A b \in BuysOf(n) : b <= LastBuy(n)
         /\ buys[LastBuy(n)].retry = launches[n].retry
         /\ launches[n].at = "buy_wallet" => ~buys[LastBuy(n)].known
         /\ ~launches[n].retry => BuysOf(n) = {LastBuy(n)}
BY DEF IInv, FlowsOK, BuysOK, BuysOf

LEMMA BuyEnds ==
  ASSUME IInv, NEW n \in DOMAIN launches,
         BuyConfirmed(n) \/ (BuyFails(n) /\ ~launches[n].retry)
  PROVE  IInv'
<1> DEFINE r == [launches[n] EXCEPT !.at = "ended"]
<1>1. /\ launches[n] \in LaunchRecord /\ LaunchOK(launches[n]) /\ BuysOK(n)
      /\ launches[n].at \in Buying
  BY LaunchesTyped DEF IInv, FlowsOK, BuyConfirmed, BuyFails, Buying
<1>2. Real(launches[n])
  BY <1>1 DEF LaunchOK
<1>3. /\ r \in LaunchRecord /\ LaunchOK(r) /\ Real(r) /\ r.at = "ended"
      /\ r.page = launches[n].page /\ r.buys = launches[n].buys /\ r.retry = launches[n].retry
      /\ launches[n].at # "ended"
  BY <1>1, <1>2 DEF LaunchRecord, LaunchOK, Real, Stages, Creating, Buying
<1>4. CASE BuyConfirmed(n)
  <2> DEFINE s == IF launches[n].retry THEN "dev_buy_confirmed" ELSE "confirmed"
  <2>1. LastBuy(n) \in BuysOf(n) /\ buys[LastBuy(n)].fate = "mined"
    BY <1>4, BuyKnown DEF BuyConfirmed
  <2>2. launches' = [launches EXCEPT ![n] = r] /\ Created(n, None, s) /\ UNCHANGED buys /\ Rest
    BY <1>1, <1>4 DEF BuyConfirmed, LaunchRecord
  <2>3. s \in Statuses \ {"idle"} /\ s \notin BusyStatus /\ s # "dev_buy_confirming"
    BY DEF Statuses, BusyStatus
  <2> HIDE DEF r, s
  <2>4. Finishes(n, r, None, s)
    BY <1>3, <2>1, <2>2, <2>3 DEF Finishes
  <2>5. QED
    BY <2>4, FinishesKeeps
<1>5. CASE BuyFails(n) /\ ~launches[n].retry
  <2>1. PICK q \in {Retryable(n), FALSE}, s \in {"dev_buy_failed", "dev_buy_confirming"} :
          /\ ~q => launches[n].at = "buy_confirm"
          /\ q => s = "dev_buy_failed"
          /\ Created(n, DevBuyFailure(n, q), s)
    BY <1>5 DEF BuyFails
  <2>2. q \in BOOLEAN
    BY <2>1 DEF Retryable
  <2>3. Retryable(n) => Settled(n)
    <3>1. CASE launches[n].at = "buy_read"
      <4>1. BuysOf(n) = {}
        BY <1>1, <1>5, <3>1 DEF BuysOK
      <4>2. QED
        BY <4>1 DEF Settled
    <3>2. CASE launches[n].at = "buy_wallet"
      BY <1>5, <3>2, BuyKnown DEF Settled
    <3>3. CASE launches[n].at = "buy_confirm"
      BY <1>5, <3>3, BuyKnown DEF Settled, Retryable
    <3>4. QED
      BY <1>1, <3>1, <3>2, <3>3 DEF Buying
  <2>4. q => Settled(n)
    BY <2>1, <2>3
  <2>5. s \in Statuses \ {"idle"} /\ s \notin {"confirmed", "dev_buy_confirmed"}
        /\ (s \in BusyStatus <=> s = "dev_buy_confirming")
    BY <2>1 DEF Statuses, BusyStatus
  <2>6. s = "dev_buy_confirming" => ~q
    BY <2>1
  <2>7. DevBuyFailure(n, q) # None /\ (DevBuyFailure(n, q).retryable <=> q)
    <3>1. DevBuyFailure(n, q) \in [launch : Nat, retryable : BOOLEAN]
      BY <2>2, LaunchesTyped DEF DevBuyFailure, IInv
    <3>2. QED
      BY <3>1, CreationAssumption DEF DevBuyFailure
  <2>8. launches' = [launches EXCEPT ![n] = r] /\ UNCHANGED buys /\ Rest
    BY <1>1, <1>5 DEF BuyFails, LaunchRecord
  <2>9. PICK left : left = DevBuyFailure(n, q)
    OBVIOUS
  <2>10. s \in BusyStatus <=> s = "dev_buy_confirming" /\ left # None /\ ~left.retryable
    <3>1. s = "dev_buy_confirming" => left # None /\ ~left.retryable
      BY <2>6, <2>7, <2>9
    <3>2. QED
      BY <2>5, <3>1
  <2> HIDE DEF r
  <2>11. Finishes(n, r, left, s)
    BY <1>3, <2>1, <2>2, <2>4, <2>5, <2>8, <2>9, <2>10 DEF Finishes
  <2>12. QED
    BY <2>11, FinishesKeeps
<1>6. QED
  BY <1>4, <1>5

-----------------------------------------------------------------------------
(* A purchase is asked for, and its hash is known. *)

\* Purchases are asked for, or their hashes become known, of launch n alone.
Asks(n, r) ==
  /\ n \in DOMAIN launches /\ r \in LaunchRecord
  /\ launches[n].at \in Buying /\ r.at \in Buying
  /\ launches' = [launches EXCEPT ![n] = r]
  /\ r.page = launches[n].page /\ r.buys = launches[n].buys /\ r.retry = launches[n].retry
  /\ Real(r)
  /\ buys' \in Seq(BuyRecord) /\ Len(buys') <= MaxBuys /\ DOMAIN buys \subseteq DOMAIN buys'
  /\ \A b \in DOMAIN buys : /\ buys'[b].launch = buys[b].launch
                            /\ buys'[b].retry = buys[b].retry /\ buys'[b].fate = buys[b].fate
                            /\ buys[b].launch # n => buys'[b] = buys[b]
  /\ \A b \in DOMAIN buys' \ DOMAIN buys : buys'[b].launch = n

LEMMA AsksKeeps ==
  ASSUME IInv, NEW n, NEW r, NEW s \in BusyStatus, Asks(n, r), Report(n, s),
         UNCHANGED <<result, failure>>, Rest,
         BuysOK(n)', RetryWaitsForReceipt',
         launches[n].retry /\ Settled(n) => Settled(n)'
  PROVE  IInv'
<1>1. /\ TypeOK /\ FlowsOK /\ PageOK /\ SuccessIsReal /\ RetryWaitsForReceipt
      /\ DisabledWhileRunning
  BY DEF IInv
<1>2. /\ n \in DOMAIN launches /\ r \in LaunchRecord
      /\ launches[n].at # "ended" /\ r.at # "ended" /\ r.at \in Buying
      /\ launches' = [launches EXCEPT ![n] = r]
      /\ r.page = launches[n].page /\ r.buys = launches[n].buys /\ r.retry = launches[n].retry
      /\ Real(r)
      /\ UNCHANGED <<ready, page, input, review, turns, result, failure>>
  BY DEF Asks, Rest, Buying
<1>3. /\ launches' \in Seq(LaunchRecord) /\ Len(launches') = Len(launches)
      /\ DOMAIN launches' = DOMAIN launches /\ launches'[n] = r
      /\ \A m \in DOMAIN launches : m # n => launches'[m] = launches[m]
  BY <1>1, <1>2, OneLaunch
<1>4. s \in Statuses /\ s # "confirmed" /\ s # "dev_buy_confirmed"
  BY DEF Statuses, BusyStatus
<1>5. TypeOK'
  <2>1. status' \in Statuses /\ modal' \in {"closed", "review", "busy", "other"}
    BY <1>1, <1>4, ReportTyped
  <2>2. BuyRecord' = BuyRecord
    BY <1>3 DEF BuyRecord
  <2>3. buys' \in Seq(BuyRecord)' /\ Len(buys') <= MaxBuys
    BY <2>2 DEF Asks
  <2>4. QED
    BY <1>1, <1>2, <1>3, <2>1, <2>3 DEF TypeOK
<1>a. /\ DOMAIN buys \subseteq DOMAIN buys'
      /\ \A b \in DOMAIN buys : buys'[b].launch = buys[b].launch /\ buys'[b].fate = buys[b].fate
      /\ \A b \in DOMAIN buys : buys[b].launch # n => buys'[b] = buys[b]
      /\ \A b \in DOMAIN buys' : b \notin DOMAIN buys => buys'[b].launch = n
  <2>1. \A b \in DOMAIN buys' \ DOMAIN buys : buys'[b].launch = n
    BY DEF Asks
  <2>2. \A b \in DOMAIN buys : /\ buys'[b].launch = buys[b].launch
                               /\ buys'[b].fate = buys[b].fate
                               /\ buys[b].launch # n => buys'[b] = buys[b]
    BY DEF Asks
  <2>3. DOMAIN buys \subseteq DOMAIN buys'
    BY DEF Asks
  <2>4. QED
    BY <2>1, <2>2, <2>3
<1>6. \A m : m # n => (BuysOf(m)' = BuysOf(m) /\ \A b \in BuysOf(m) : buys'[b] = buys[b])
  <2>1. ASSUME NEW m, m # n
        PROVE  BuysOf(m)' = BuysOf(m) /\ \A b \in BuysOf(m) : buys'[b] = buys[b]
    <3>1. \A b : b \in DOMAIN buys' /\ buys'[b].launch = m <=>
                b \in DOMAIN buys /\ buys[b].launch = m
      BY <1>a, <2>1
    <3>2. BuysOf(m)' = BuysOf(m)
      BY <3>1 DEF BuysOf
    <3>3. \A b \in BuysOf(m) : buys'[b] = buys[b]
      BY <1>a, <2>1 DEF BuysOf
    <3>4. QED
      BY <3>2, <3>3
  <2>2. QED
    BY <2>1
<1>7. \A m : m # n => (Settled(m)' <=> Settled(m)) /\ LastBuy(m)' = LastBuy(m)
  BY <1>6 DEF Settled, LastBuy
<1>8. FlowsOK'
  <2>1. ASSUME NEW m \in DOMAIN launches, m # n
        PROVE  LaunchOK(launches[m])' /\ BuysOK(m)'
    <3>1. LaunchOK(launches[m]) /\ BuysOK(m) /\ launches'[m] = launches[m]
      BY <1>1, <1>3, <2>1 DEF FlowsOK
    <3>2. LaunchOK(launches[m])'
      BY <1>2, <3>1 DEF LaunchOK, Real
    <3>3. BuysOf(m)' = BuysOf(m) /\ LastBuy(m)' = LastBuy(m) /\ (Settled(m)' <=> Settled(m))
      BY <1>6, <1>7, <2>1
    <3>4. LastBuy(m) \in BuysOf(m) => buys'[LastBuy(m)] = buys[LastBuy(m)]
      BY <1>6, <2>1
    <3>5. BuysOK(m)'
      BY <3>1, <3>3, <3>4 DEF BuysOK
    <3>6. QED
      BY <3>2, <3>5
  <2>2. LaunchOK(launches[n])'
    <3>1. LaunchOK(launches[n])
      BY <1>1, <1>2 DEF FlowsOK
    <3>2. QED
      BY <1>2, <1>3, <3>1 DEF LaunchOK, Real, Buying, Creating
  <2>3. QED
    BY <1>3, <2>1, <2>2 DEF FlowsOK
<1>9. Running' = Running /\ (r.page = page => n \in Running)
  BY <1>1, <1>2, RunningMoved
<1>10. result # None => /\ result \in DOMAIN launches
                        /\ Real(launches'[result]) /\ launches'[result].buys = launches[result].buys
                        /\ launches'[result].page = page
                        /\ launches'[result].at = "ended" \/ launches'[result].retry
                        /\ result = n => launches[n].retry
  BY <1>1, <1>2, <1>3 DEF PageOK, TypeOK
<1>11. PageOK'
  <2>1. \A m, k \in Running' : m = k
    BY <1>1, <1>9 DEF PageOK
  <2>2. failure' # None => result' = failure'.launch
    BY <1>1, <1>2 DEF PageOK
  <2>3. failure # None /\ failure.retryable => Settled(failure.launch)'
    <3>1. SUFFICES ASSUME failure # None, failure.retryable
                   PROVE  Settled(failure.launch)'
      OBVIOUS
    <3>2. Settled(failure.launch) /\ failure.launch = result
      BY <1>1, <3>1 DEF PageOK
    <3>3. result # None
      BY <1>1, <3>1, <3>2, CreationAssumption, LaunchesTyped DEF TypeOK
    <3>4. failure.launch = n => launches[n].retry
      BY <1>10, <3>2, <3>3
    <3>5. QED
      BY <1>7, <3>2, <3>4
  <2>4. page' <= turns'
    BY <1>1, <1>2 DEF PageOK
  <2>5. failure' # None /\ failure'.retryable => Settled(failure.launch)'
    BY <1>2, <2>3
  <2>6. result' # None =>
          /\ launches'[result'].page = page' /\ Real(launches'[result'])
          /\ launches'[result'].at = "ended" \/ launches'[result'].retry
    BY <1>2, <1>10
  <2>7. failure' = failure
    BY <1>2
  <2>8. QED
    BY <2>1, <2>2, <2>4, <2>5, <2>6, <2>7 DEF PageOK
<1>12. SuccessIsReal'
  <2>1. status' \in {"confirmed", "dev_buy_confirmed"} => status' = status
    BY <1>4 DEF Report, Shows
  <2>2. \A b \in BuysOf(result) : b \in BuysOf(result)' /\ buys'[b].fate = buys[b].fate
    BY <1>2, <1>a DEF BuysOf
  <2>3. QED
    BY <1>1, <1>2, <1>10, <2>1, <2>2 DEF SuccessIsReal, Real
<1>13. DisabledWhileRunning'
  <2>1. CASE launches[n].page # page
    <3>1. UNCHANGED <<status, modal>>
      BY <2>1 DEF Report
    <3>2. QED
      BY <1>1, <1>2, <1>9, <3>1 DEF DisabledWhileRunning, pending, Locked
  <2>2. CASE launches[n].page = page
    <3>1. pending' /\ modal' = "busy"
      BY <1>1, <2>2, BusyModal DEF Report
    <3>2. Locked'
      BY <1>2, <1>9, <2>2 DEF Locked
    <3>3. QED
      BY <3>1, <3>2 DEF DisabledWhileRunning
  <2>3. QED
    BY <2>1, <2>2
<1>14. QED
  BY <1>5, <1>8, <1>11, <1>12, <1>13 DEF IInv

LEMMA SubmitBuyKeeps ==
  ASSUME IInv, NEW n \in DOMAIN launches, submitBuy(n)
  PROVE  IInv'
<1> DEFINE r == [launches[n] EXCEPT !.at = "buy_wallet"]
           b == [launch |-> n, retry |-> launches[n].retry, known |-> FALSE, fate |-> "open"]
           k == Len(buys) + 1
<1>1. /\ launches[n] \in LaunchRecord /\ LaunchOK(launches[n]) /\ BuysOK(n)
      /\ launches[n].at = "buy_read" /\ TypeOK /\ RetryWaitsForReceipt
  BY LaunchesTyped DEF IInv, FlowsOK, submitBuy
<1>2. Real(launches[n])
  BY <1>1 DEF LaunchOK, Buying
<1>3. b \in BuyRecord
  BY <1>1 DEF BuyRecord, LaunchRecord, Fates
<1>4. /\ buys' = Append(buys, b) /\ Len(buys) < MaxBuys /\ Len(buys) \in Nat
      /\ buys \in Seq(BuyRecord)
  BY <1>1, LaunchesTyped DEF submitBuy, TypeOK
<1>5. /\ buys' \in Seq(BuyRecord) /\ Len(buys') = k /\ DOMAIN buys' = DOMAIN buys \cup {k}
      /\ k \notin DOMAIN buys /\ buys'[k] = b
      /\ \A c \in DOMAIN buys : buys'[c] = buys[c] /\ c < k /\ c \in Nat
  <2> HIDE DEF b
  <2>1. QED
    BY <1>3, <1>4
<1>6. /\ BuysOf(n)' = BuysOf(n) \cup {k}
      /\ k \notin BuysOf(n) /\ BuysOf(n) \subseteq DOMAIN buys
      /\ \A m : m # n => BuysOf(m)' = BuysOf(m)
  BY <1>5 DEF BuysOf
<1>7. k \in Nat /\ MaxBuys \in Nat /\ k <= MaxBuys
  BY <1>4, CreationAssumption
<1>8. Asks(n, r)
  <2>1. /\ r \in LaunchRecord /\ r.at = "buy_wallet" /\ Real(r)
        /\ r.page = launches[n].page /\ r.buys = launches[n].buys /\ r.retry = launches[n].retry
    BY <1>1, <1>2 DEF LaunchRecord, Stages, Real
  <2>2. launches' = [launches EXCEPT ![n] = r]
    BY <1>1 DEF submitBuy, Goto
  <2>3. buys'[k].launch = n
    BY <1>5
  <2> HIDE DEF r, b
  <2>4. QED
    BY <1>1, <1>5, <1>7, <2>1, <2>2, <2>3 DEF Asks, Buying
<1>9. LastBuy(n)' = k
  <2>1. k \in BuysOf(n)' /\ \A c \in BuysOf(n)' : c <= k
    BY <1>5, <1>6, <1>7
  <2>2. \A x \in BuysOf(n)' : (\A c \in BuysOf(n)' : c <= x) => x = k
    BY <1>5, <1>6, <1>7, <2>1
  <2>3. QED
    BY <2>1, <2>2 DEF LastBuy
<1>10. launches'[n].at = "buy_wallet" /\ launches'[n].retry = launches[n].retry
  <2>1. launches' = [launches EXCEPT ![n] = r] /\ r \in LaunchRecord /\ r.retry = launches[n].retry
    BY <1>1 DEF submitBuy, Goto, LaunchRecord, Stages
  <2>2. launches'[n] = r
    BY <1>1, <2>1, OneLaunch
  <2>3. QED
    BY <1>1, <2>2 DEF LaunchRecord
<1>11. Settled(n) => Settled(n)'
  BY <1>5, <1>6 DEF Settled
<1>12. BuysOK(n)'
  <2>1. ~launches[n].retry => BuysOf(n) = {}
    BY <1>1 DEF BuysOK
  <2>2. launches[n].retry => Settled(n)
    BY <1>1 DEF BuysOK
  <2>3. \A c \in BuysOf(n)' : c <= k
    BY <1>5, <1>6, <1>7
  <2>4. buys'[k].retry = launches[n].retry /\ ~buys'[k].known
    BY <1>5
  <2> HIDE DEF b, k
  <2>5. QED
    BY <1>6, <1>9, <1>10, <1>11, <2>1, <2>2, <2>3, <2>4 DEF BuysOK, Creating
<1>13. RetryWaitsForReceipt'
  <2>1. ASSUME NEW x \in DOMAIN buys', NEW c \in DOMAIN buys',
               buys'[c].launch = buys'[x].launch, x < c, buys'[x].known, ~buys'[x].retry
        PROVE  buys'[x].fate = "reverted"
    <3>1. x \in DOMAIN buys /\ buys'[x] = buys[x]
      BY <1>5, <2>1
    <3>2. CASE c = k
      <4>1. buys[x].launch = n
        BY <1>5, <2>1, <3>1, <3>2 DEF BuysOf
      <4>2. x \in BuysOf(n)
        BY <3>1, <4>1 DEF BuysOf
      <4>3. Settled(n)
        BY <1>1, <4>2 DEF BuysOK
      <4>4. QED
        BY <2>1, <3>1, <4>2, <4>3 DEF Settled
    <3>3. CASE c # k
      <4>1. c \in BuysOf(buys[x].launch)
        BY <1>5, <2>1, <3>1, <3>3 DEF BuysOf
      <4>2. QED
        BY <1>1, <2>1, <3>1, <4>1 DEF RetryWaitsForReceipt
    <3>4. QED
      BY <3>2, <3>3
  <2>2. QED
    BY <2>1 DEF RetryWaitsForReceipt, BuysOf
<1>14. Report(n, "dev_buy_awaiting_wallet") /\ UNCHANGED <<result, failure>> /\ Rest
       /\ "dev_buy_awaiting_wallet" \in BusyStatus
  BY DEF submitBuy, Goto, BusyStatus
<1> HIDE DEF r, b, k
<1>15. QED
  BY <1>8, <1>11, <1>12, <1>13, <1>14, AsksKeeps

LEMMA BuySubmittedKeeps ==
  ASSUME IInv, NEW n \in DOMAIN launches, BuySubmitted(n)
  PROVE  IInv'
<1> DEFINE r == [launches[n] EXCEPT !.at = "buy_confirm"]
           k == LastBuy(n)
<1>1. /\ launches[n] \in LaunchRecord /\ LaunchOK(launches[n]) /\ BuysOK(n)
      /\ launches[n].at = "buy_wallet" /\ TypeOK /\ RetryWaitsForReceipt
  BY LaunchesTyped DEF IInv, FlowsOK, BuySubmitted
<1>2. Real(launches[n])
  BY <1>1 DEF LaunchOK, Buying
<1>3. /\ k \in BuysOf(n) /\ k \in DOMAIN buys /\ \A b \in BuysOf(n) : b <= k
      /\ buys[k].retry = launches[n].retry /\ buys[k].launch = n
      /\ ~launches[n].retry => BuysOf(n) = {k}
  BY <1>1, BuyKnown DEF BuysOf
<1>4. buys \in Seq(BuyRecord) /\ buys[k] \in BuyRecord /\ Len(buys) <= MaxBuys
      /\ DOMAIN buys \subseteq Nat
  BY <1>1, <1>3, LaunchesTyped DEF TypeOK
<1>5. PICK g \in BuyRecord : g = [buys[k] EXCEPT !.known = TRUE]
  BY <1>4 DEF BuyRecord
<1>6. g.launch = n /\ g.retry = launches[n].retry /\ g.fate = buys[k].fate /\ g.known
  BY <1>3, <1>4, <1>5 DEF BuyRecord
<1>7. buys' = [buys EXCEPT ![k] = g]
  BY <1>3, <1>5 DEF BuySubmitted
<1>8. /\ buys' \in Seq(BuyRecord) /\ Len(buys') = Len(buys) /\ DOMAIN buys' = DOMAIN buys
      /\ buys'[k] = g /\ \A b \in DOMAIN buys : b # k => buys'[b] = buys[b]
  BY <1>3, <1>4, <1>7
<1>9. BuysOf(n)' = BuysOf(n) /\ \A m : BuysOf(m)' = BuysOf(m)
  BY <1>3, <1>6, <1>8 DEF BuysOf
<1>10. LastBuy(n)' = k
  BY <1>9 DEF LastBuy
<1>11. Asks(n, r)
  <2>1. /\ r \in LaunchRecord /\ r.at = "buy_confirm" /\ Real(r)
        /\ r.page = launches[n].page /\ r.buys = launches[n].buys /\ r.retry = launches[n].retry
    BY <1>1, <1>2 DEF LaunchRecord, Stages, Real
  <2>2. launches' = [launches EXCEPT ![n] = r]
    BY <1>1 DEF BuySubmitted, Goto
  <2> HIDE DEF r, k
  <2>3. QED
    BY <1>1, <1>3, <1>4, <1>6, <1>8, <2>1, <2>2 DEF Asks, Buying
<1>12. launches'[n].at = "buy_confirm" /\ launches'[n].retry = launches[n].retry
  <2>1. launches' = [launches EXCEPT ![n] = r] /\ r \in LaunchRecord /\ r.retry = launches[n].retry
    BY <1>1 DEF BuySubmitted, Goto, LaunchRecord, Stages
  <2>2. launches'[n] = r
    BY <1>1, <2>1, OneLaunch
  <2>3. QED
    BY <1>1, <2>2 DEF LaunchRecord
<1>13. launches[n].retry /\ Settled(n) => Settled(n)'
  BY <1>6, <1>8, <1>9, <1>3 DEF Settled, BuysOf
<1>14. BuysOK(n)'
  <2>1. launches[n].retry => Settled(n)
    BY <1>1 DEF BuysOK
  <2>2. ~launches[n].retry => \A x, y \in BuysOf(n) : x = y
    BY <1>3
  <2> HIDE DEF k
  <2>3. QED
    BY <1>3, <1>6, <1>8, <1>9, <1>10, <1>12, <1>13, <2>1, <2>2 DEF BuysOK, Creating
<1>15. RetryWaitsForReceipt'
  <2>1. ASSUME NEW x \in DOMAIN buys', NEW c \in DOMAIN buys',
               buys'[c].launch = buys'[x].launch, x < c, buys'[x].known, ~buys'[x].retry
        PROVE  buys'[x].fate = "reverted"
    <3>1. x \in DOMAIN buys /\ x \in Nat /\ c \in DOMAIN buys /\ c \in Nat
      BY <1>4, <1>8, <2>1 DEF BuysOf
    <3>2. x # k
      <4>1. SUFFICES ASSUME x = k PROVE FALSE
        OBVIOUS
      <4>2. c \in BuysOf(n)
        BY <1>6, <1>8, <1>9, <2>1, <3>1, <4>1 DEF BuysOf
      <4>3. c <= k
        BY <1>3, <4>2
      <4>4. QED
        BY <2>1, <3>1, <4>1, <4>3
    <3>3. buys'[x] = buys[x]
      BY <1>8, <3>1, <3>2
    <3>4. c \in BuysOf(buys[x].launch)
      BY <1>9, <1>8, <2>1, <3>1, <3>3 DEF BuysOf
    <3>5. QED
      BY <1>1, <2>1, <3>1, <3>3, <3>4 DEF RetryWaitsForReceipt
  <2>2. QED
    BY <2>1 DEF RetryWaitsForReceipt, BuysOf
<1>16. Report(n, "dev_buy_confirming") /\ UNCHANGED <<result, failure>> /\ Rest
       /\ "dev_buy_confirming" \in BusyStatus
  BY DEF BuySubmitted, Goto, BusyStatus
<1> HIDE DEF r, k
<1>17. QED
  BY <1>11, <1>13, <1>14, <1>15, <1>16, AsksKeeps

-----------------------------------------------------------------------------
(* A purchase is tried again, and a launch is submitted. *)

LEMMA RetryKeeps ==
  ASSUME IInv, retryDevBuy
  PROVE  IInv'
<1>a. PICK n : n = failure.launch
  OBVIOUS
<1>b. PICK r : r = [launches[n] EXCEPT !.at = "buy_read", !.retry = TRUE]
  OBVIOUS
<1>1. /\ TypeOK /\ FlowsOK /\ PageOK /\ SuccessIsReal /\ RetryWaitsForReceipt
      /\ DisabledWhileRunning
  BY DEF IInv
<1>2. failure # None /\ failure.retryable /\ result # None /\ ~Locked
  BY DEF retryDevBuy
<1>3. n = result /\ n \in DOMAIN launches /\ Settled(n)
  BY <1>1, <1>2, <1>a DEF PageOK, TypeOK
<1>4. /\ launches[n].page = page /\ Real(launches[n]) /\ launches[n] \in LaunchRecord
      /\ LaunchOK(launches[n])
  BY <1>1, <1>2, <1>3, LaunchesTyped DEF PageOK, FlowsOK
<1>5. /\ r \in LaunchRecord /\ r.page = page /\ r.at = "buy_read" /\ r.retry
      /\ Real(r) /\ r.buys = launches[n].buys
  BY <1>4, <1>b DEF LaunchRecord, Real, Stages
<1>6. launches' = [launches EXCEPT ![n] = r] /\ Shows("dev_buy_preparing")
      /\ UNCHANGED <<ready, page, input, review, turns, result, failure, buys>>
  <2>1. launches' = [launches EXCEPT ![n].at = "buy_read", ![n].retry = TRUE]
    BY <1>a DEF retryDevBuy
  <2>2. QED
    BY <1>3, <1>b, <2>1 DEF retryDevBuy, Quiet, Rest
<1>7. /\ launches' \in Seq(LaunchRecord) /\ Len(launches') = Len(launches)
      /\ DOMAIN launches' = DOMAIN launches /\ launches'[n] = r
      /\ \A m \in DOMAIN launches : m # n => launches'[m] = launches[m]
  BY <1>1, <1>3, <1>5, <1>6, OneLaunch
<1>8. TypeOK'
  <2>1. "dev_buy_preparing" \in Statuses
    BY DEF Statuses, BusyStatus
  <2>2. status' \in Statuses /\ modal' \in {"closed", "review", "busy", "other"}
    BY <1>1, <1>6, <2>1, ShowsTyped
  <2>3. BuyRecord' = BuyRecord
    BY <1>7 DEF BuyRecord
  <2>4. QED
    BY <1>1, <1>6, <1>7, <2>2, <2>3 DEF TypeOK
<1>9. FlowsOK'
  <2>1. LaunchOK(r)
    BY <1>4, <1>5 DEF LaunchOK, Creating
  <2>2. BuysOK(n)'
    <3>1. Settled(n)' /\ launches'[n] = r
      BY <1>3, <1>6, <1>7, SameBuys
    <3>2. QED
      BY <1>5, <3>1 DEF BuysOK
  <2>3. QED
    BY <1>1, <1>3, <1>5, <1>6, <2>1, <2>2, OtherFlows
<1>10. Running' = {n}
  <2>1. Running = {}
    BY <1>2 DEF Locked
  <2>2. QED
    BY <1>3, <1>5, <1>6, <1>7, <2>1 DEF Running
<1>11. PageOK'
  <2>1. \A m, k \in Running' : m = k
    BY <1>10
  <2>2. launches'[result'].page = page' /\ Real(launches'[result']) /\ launches'[result'].retry
    BY <1>3, <1>5, <1>6, <1>7
  <2>3. result' = failure'.launch /\ failure' = failure /\ Settled(failure.launch)'
    BY <1>3, <1>6, <1>a, SameBuys
  <2>4. page' <= turns'
    BY <1>1, <1>6 DEF PageOK
  <2>5. QED
    BY <2>1, <2>2, <2>3, <2>4 DEF PageOK
<1>12. SuccessIsReal'
  BY <1>3, <1>5, <1>6, <1>7 DEF SuccessIsReal, Real, Shows
<1>13. RetryWaitsForReceipt'
  BY <1>1, <1>6 DEF RetryWaitsForReceipt, BuysOf
<1>14. DisabledWhileRunning'
  <2>1. "dev_buy_preparing" \in BusyStatus
    BY DEF BusyStatus
  <2>2. pending' /\ modal' = "busy"
    BY <1>1, <1>6, <2>1, BusyModal
  <2>3. Locked'
    BY <1>10 DEF Locked
  <2>4. QED
    BY <2>2, <2>3 DEF DisabledWhileRunning
<1>15. QED
  BY <1>8, <1>9, <1>11, <1>12, <1>13, <1>14 DEF IInv

LEMMA SubmitKeeps ==
  ASSUME IInv, submit, validateCreateToken(input)
  PROVE  IInv'
<1>a. PICK k : k = Len(launches) + 1
  OBVIOUS
<1>1. /\ TypeOK /\ FlowsOK /\ PageOK /\ SuccessIsReal /\ RetryWaitsForReceipt
      /\ DisabledWhileRunning
  BY DEF IInv
<1>2. /\ ~Locked /\ Len(launches) < MaxLaunches
      /\ result' = None /\ failure' = None
      /\ launches' = Append(launches, Launch)
      /\ Shows("preparing")
      /\ UNCHANGED <<ready, page, input, review, buys, turns>>
  BY DEF submit
<1>3. Launch \in LaunchRecord
  <2>1. 0 \in 0..MaxAttempts - 1
    BY CreationAssumption
  <2>2. page \in 0..MaxTurns
    BY <1>1 DEF TypeOK
  <2>3. QED
    BY <2>1, <2>2 DEF Launch, LaunchRecord, Stages, Fates
<1>4. PICK r \in LaunchRecord : r = Launch
  BY <1>3
<1>5. r.page = page /\ r.at = "upload" /\ ~r.retry /\ r.fate = "none" /\ r.draft = "none"
  BY <1>4 DEF Launch
<1>6. launches \in Seq(LaunchRecord) /\ Len(launches) \in Nat /\ MaxLaunches \in Nat
  BY <1>1, LaunchesTyped, CreationAssumption DEF TypeOK
<1>7. /\ launches' \in Seq(LaunchRecord) /\ Len(launches') = k /\ k <= MaxLaunches
      /\ DOMAIN launches' = DOMAIN launches \cup {k} /\ k \notin DOMAIN launches
      /\ launches'[k] = r /\ \A m \in DOMAIN launches : launches'[m] = launches[m]
  <2>1. launches' = Append(launches, r)
    BY <1>2, <1>4
  <2>2. QED
    BY <1>2, <1>6, <1>a, <2>1
<1>8. TypeOK'
  <2>1. "preparing" \in Statuses
    BY DEF Statuses, BusyStatus
  <2>2. status' \in Statuses /\ modal' \in {"closed", "review", "busy", "other"}
    BY <1>1, <1>2, <2>1, ShowsTyped
  <2>3. \A b \in DOMAIN buys : buys[b] \in BuyRecord'
    BY <1>1, <1>7, LaunchesTyped DEF BuyRecord
  <2>4. buys \in Seq(BuyRecord')
    <3>1. buys \in Seq(BuyRecord) /\ Len(buys) \in Nat
      BY <1>1, LaunchesTyped DEF TypeOK
    <3>2. QED
      BY <2>3, <3>1
  <2>5. QED
    BY <1>1, <1>2, <1>7, <2>2, <2>4 DEF TypeOK
<1>9. \A b \in DOMAIN buys : buys[b].launch # k
  BY <1>1, <1>7, LaunchesTyped DEF BuyRecord
<1>10. FlowsOK'
  <2>1. ASSUME NEW m \in DOMAIN launches
        PROVE  LaunchOK(launches[m])' /\ BuysOK(m)'
    <3>1. LaunchOK(launches[m]) /\ BuysOK(m) /\ launches'[m] = launches[m]
      BY <1>1, <1>7, <2>1 DEF FlowsOK
    <3>2. LaunchOK(launches[m])'
      BY <1>2, <3>1 DEF LaunchOK, Real
    <3>3. BuysOK(m)'
      BY <1>2, <3>1, SameBuys DEF BuysOK
    <3>4. QED
      BY <3>2, <3>3
  <2>2. LaunchOK(launches[k])'
    <3>1. page \in Nat
      BY <1>1, CreationAssumption DEF TypeOK
    <3>2. QED
      BY <1>2, <1>5, <1>7, <3>1 DEF LaunchOK, Creating, Buying
  <2>3. BuysOK(k)'
    <3>1. BuysOf(k)' = {}
      BY <1>2, <1>9 DEF BuysOf
    <3>2. launches'[k] = r
      BY <1>7
    <3>3. QED
      BY <1>5, <3>1, <3>2 DEF BuysOK
  <2>4. QED
    BY <1>7, <2>1, <2>2, <2>3 DEF FlowsOK
<1>11. Running' = {k}
  <2>1. Running = {}
    BY <1>2 DEF Locked
  <2>2. QED
    BY <1>2, <1>5, <1>7, <2>1 DEF Running
<1>12. PageOK'
  BY <1>1, <1>2, <1>11 DEF PageOK
<1>13. SuccessIsReal'
  BY <1>2 DEF SuccessIsReal, Shows
<1>14. RetryWaitsForReceipt'
  BY <1>1, <1>2 DEF RetryWaitsForReceipt, BuysOf
<1>15. DisabledWhileRunning'
  <2>1. "preparing" \in BusyStatus
    BY DEF BusyStatus
  <2>2. pending' /\ modal' = "busy"
    BY <1>1, <1>2, <2>1, BusyModal
  <2>3. Locked'
    BY <1>11 DEF Locked
  <2>4. QED
    BY <2>2, <2>3 DEF DisabledWhileRunning
<1>16. QED
  BY <1>8, <1>10, <1>12, <1>13, <1>14, <1>15 DEF IInv

-----------------------------------------------------------------------------
(* Wallet, chain and indexer move what they know of launches and purchases. *)

Onward(l, k) ==
  /\ k \in LaunchRecord
  /\ k.page = l.page /\ k.at = l.at /\ k.buys = l.buys /\ k.retry = l.retry
  /\ k.draft = l.draft
  /\ Real(l) => Real(k)
  /\ l.fate = "none" => k.fate = "none"

BuyOnward(b, c) ==
  /\ c \in BuyRecord
  /\ c.launch = b.launch /\ c.retry = b.retry /\ c.known = b.known
  /\ b.fate \in Ended => c.fate = b.fate

ChainMoves ==
  /\ launches' \in Seq(LaunchRecord) /\ Len(launches') = Len(launches)
  /\ DOMAIN launches' = DOMAIN launches
  /\ \A n \in DOMAIN launches : Onward(launches[n], launches'[n])
  /\ buys' \in Seq(BuyRecord) /\ Len(buys') = Len(buys) /\ DOMAIN buys' = DOMAIN buys
  /\ \A b \in DOMAIN buys : BuyOnward(buys[b], buys'[b])
  /\ UNCHANGED <<ready, page, ui, turns>>

LEMMA ChainMovesKeeps ==
  ASSUME IInv, ChainMoves
  PROVE  IInv'
<1>1. /\ TypeOK /\ FlowsOK /\ PageOK /\ SuccessIsReal /\ RetryWaitsForReceipt
      /\ DisabledWhileRunning
  BY DEF IInv
<1>2. /\ launches' \in Seq(LaunchRecord) /\ Len(launches') = Len(launches)
      /\ DOMAIN launches' = DOMAIN launches
      /\ buys' \in Seq(BuyRecord) /\ Len(buys') = Len(buys) /\ DOMAIN buys' = DOMAIN buys
  BY DEF ChainMoves
<1>3. /\ UNCHANGED <<ready, page, input, review, modal, status, turns>>
      /\ result' = result /\ failure' = failure
  BY DEF ChainMoves, ui
<1>4. ASSUME NEW n \in DOMAIN launches
      PROVE  /\ launches'[n].page = launches[n].page /\ launches'[n].at = launches[n].at
             /\ launches'[n].buys = launches[n].buys /\ launches'[n].retry = launches[n].retry
             /\ launches'[n].draft = launches[n].draft
             /\ Real(launches[n]) => Real(launches'[n])
             /\ launches[n].fate = "none" => launches'[n].fate = "none"
  BY DEF ChainMoves, Onward
<1>5. ASSUME NEW b \in DOMAIN buys
      PROVE  /\ buys'[b].launch = buys[b].launch /\ buys'[b].retry = buys[b].retry
             /\ buys'[b].known = buys[b].known
             /\ buys[b].fate \in Ended => buys'[b].fate = buys[b].fate
  BY DEF ChainMoves, BuyOnward
<1>6. ASSUME NEW m
      PROVE  BuysOf(m)' = BuysOf(m) /\ LastBuy(m)' = LastBuy(m)
  <2>1. BuysOf(m)' = BuysOf(m)
    BY <1>2, <1>5 DEF BuysOf
  <2>2. QED
    BY <2>1 DEF LastBuy
<1>7. ASSUME NEW m
      PROVE  Settled(m) => Settled(m)'
  BY <1>5, <1>6 DEF Settled, BuysOf, Ended
<1>8. TypeOK'
  <2>1. BuyRecord' = BuyRecord
    BY <1>2 DEF BuyRecord
  <2>2. QED
    BY <1>1, <1>2, <1>3, <2>1 DEF TypeOK
<1>9. FlowsOK'
  <2>1. ASSUME NEW n \in DOMAIN launches
        PROVE  LaunchOK(launches[n])' /\ BuysOK(n)'
    <3>1. LaunchOK(launches[n]) /\ BuysOK(n)
      BY <1>1 DEF FlowsOK
    <3>2. LaunchOK(launches[n])'
      <4>1. launches'[n].page <= page'
        BY <1>3, <1>4, <3>1 DEF LaunchOK
      <4>2. QED
        BY <1>3, <1>4, <3>1, <4>1 DEF LaunchOK, Real
    <3>3. LastBuy(n) \in BuysOf(n) =>
            /\ buys'[LastBuy(n)].retry = buys[LastBuy(n)].retry
            /\ buys'[LastBuy(n)].known = buys[LastBuy(n)].known
      BY <1>5 DEF BuysOf
    <3>4. BuysOK(n)'
      BY <1>4, <1>6, <1>7, <3>1, <3>3 DEF BuysOK
    <3>5. QED
      BY <3>2, <3>4
  <2>2. QED
    BY <1>2, <2>1 DEF FlowsOK
<1>10. Running' = Running
  BY <1>2, <1>3, <1>4 DEF Running
<1>11. result # None => result \in DOMAIN launches
  BY <1>1 DEF TypeOK
<1>12. PageOK'
  <2>1. \A m, n \in Running' : m = n
    BY <1>1, <1>10 DEF PageOK
  <2>2. result # None =>
          /\ launches'[result].page = page /\ Real(launches'[result])
          /\ launches'[result].at = "ended" \/ launches'[result].retry
    BY <1>1, <1>4, <1>11 DEF PageOK
  <2>3. failure # None =>
          result = failure.launch /\ (failure.retryable => Settled(failure.launch)')
    BY <1>1, <1>3, <1>7 DEF PageOK
  <2>4. page' <= turns'
    BY <1>1, <1>3 DEF PageOK
  <2>5. QED
    BY <1>3, <2>1, <2>2, <2>3, <2>4 DEF PageOK
<1>13. SuccessIsReal'
  <2>1. result # None => /\ Real(launches[result]) /\ Real(launches'[result])
                         /\ launches'[result].buys = launches[result].buys
    BY <1>1, <1>4, <1>11 DEF SuccessIsReal, Real
  <2>2. \A b \in BuysOf(result) : buys[b].fate = "mined" => buys'[b].fate = "mined"
    BY <1>5 DEF BuysOf, Ended
  <2>3. BuysOf(result)' = BuysOf(result)
    BY <1>2, <1>3, <1>5 DEF BuysOf
  <2>4. QED
    BY <1>1, <1>3, <2>1, <2>2, <2>3 DEF SuccessIsReal, Real
<1>14. RetryWaitsForReceipt'
  <2>1. ASSUME NEW b \in DOMAIN buys, NEW c \in DOMAIN buys,
               buys'[c].launch = buys'[b].launch, b < c, buys'[b].known, ~buys'[b].retry
        PROVE  buys'[b].fate = "reverted"
    <3>1. c \in BuysOf(buys[b].launch) /\ buys[b].known /\ ~buys[b].retry
      BY <1>5, <2>1 DEF BuysOf
    <3>2. buys[b].fate = "reverted"
      BY <1>1, <2>1, <3>1 DEF RetryWaitsForReceipt
    <3>3. QED
      BY <1>5, <3>2 DEF Ended
  <2>2. QED
    BY <1>2, <2>1 DEF RetryWaitsForReceipt, BuysOf
<1>15. DisabledWhileRunning'
  BY <1>1, <1>3, <1>10 DEF DisabledWhileRunning, pending, Locked
<1>16. QED
  BY <1>8, <1>9, <1>12, <1>13, <1>14, <1>15 DEF IInv

LEMMA ChainKeeps ==
  ASSUME IInv, Sign \/ Include \/ \E n \in DOMAIN launches : Index(n)
  PROVE  IInv'
<1>1. TypeOK /\ launches \in Seq(LaunchRecord) /\ buys \in Seq(BuyRecord)
      /\ \A n \in DOMAIN launches : Onward(launches[n], launches[n])
      /\ \A b \in DOMAIN buys : BuyOnward(buys[b], buys[b])
  BY LaunchesTyped DEF IInv, TypeOK, Onward, BuyOnward
<1>2. ASSUME NEW n \in DOMAIN launches, NEW r, Onward(launches[n], r),
             launches' = [launches EXCEPT ![n] = r], buys' = buys,
             UNCHANGED <<ready, page, ui, turns>>
      PROVE  ChainMoves
  <2>1. r \in LaunchRecord
    BY <1>2 DEF Onward
  <2>2. /\ launches' \in Seq(LaunchRecord) /\ Len(launches') = Len(launches)
        /\ DOMAIN launches' = DOMAIN launches /\ launches'[n] = r
        /\ \A m \in DOMAIN launches : m # n => launches'[m] = launches[m]
    BY <1>1, <1>2, <2>1, OneLaunch
  <2>3. \A m \in DOMAIN launches : Onward(launches[m], launches'[m])
    BY <1>1, <1>2, <2>2
  <2>4. QED
    BY <1>1, <1>2, <2>2, <2>3 DEF ChainMoves
<1>3. ASSUME NEW b \in DOMAIN buys, NEW r, BuyOnward(buys[b], r),
             buys' = [buys EXCEPT ![b] = r], launches' = launches,
             UNCHANGED <<ready, page, ui, turns>>
      PROVE  ChainMoves
  <2>1. r \in BuyRecord
    BY <1>3 DEF BuyOnward
  <2>2. /\ buys' \in Seq(BuyRecord) /\ Len(buys') = Len(buys)
        /\ DOMAIN buys' = DOMAIN buys /\ buys'[b] = r
        /\ \A m \in DOMAIN buys : m # b => buys'[m] = buys[m]
    BY <1>1, <1>3, <2>1
  <2>3. ASSUME NEW m \in DOMAIN buys
        PROVE  BuyOnward(buys[m], buys'[m])
    <3>1. CASE m = b
      <4>1. buys'[b] = r
        BY <2>2
      <4>2. QED
        BY <1>3, <3>1, <4>1 DEF BuyOnward
    <3>2. CASE m # b
      <4>1. buys'[m] = buys[m]
        BY <2>2, <3>2
      <4>2. QED
        BY <1>1, <4>1 DEF BuyOnward
    <3>3. QED
      BY <3>1, <3>2
  <2>4. QED
    BY <1>1, <1>3, <2>2, <2>3 DEF ChainMoves
<1>4. ASSUME NEW n \in DOMAIN launches, NEW f \in Fates,
             launches[n].fate \in {"open", "live"}
      PROVE  Onward(launches[n], [launches[n] EXCEPT !.fate = f])
  BY <1>1, <1>4, LaunchesTyped DEF Onward, LaunchRecord, Real
<1>5. ASSUME NEW b \in DOMAIN buys, NEW f \in Fates,
             buys[b].fate \in {"open", "live"}
      PROVE  BuyOnward(buys[b], [buys[b] EXCEPT !.fate = f])
  <2>1. buys[b] \in BuyRecord
    BY <1>1, LaunchesTyped
  <2>2. QED
    BY <1>5, <2>1 DEF BuyOnward, BuyRecord, Ended
<1>6. ASSUME Sign
      PROVE  ChainMoves
  <2>1. UNCHANGED <<ready, page, ui, turns>>
    BY <1>6 DEF Sign
  <2>2. CASE \E n \in DOMAIN launches, f \in {"live", "none"} :
                /\ launches[n].fate = "open"
                /\ launches' = [launches EXCEPT ![n].fate = f] /\ UNCHANGED buys
    <3>1. PICK n \in DOMAIN launches, f \in {"live", "none"} :
                /\ launches[n].fate = "open"
                /\ launches' = [launches EXCEPT ![n].fate = f] /\ UNCHANGED buys
      BY <2>2
    <3>2. Onward(launches[n], [launches[n] EXCEPT !.fate = f])
      BY <1>4, <3>1 DEF Fates
    <3>3. QED
      BY <1>2, <2>1, <3>1, <3>2
  <2>3. CASE \E b \in DOMAIN buys, f \in {"live", "none"} :
                /\ buys[b].fate = "open"
                /\ buys' = [buys EXCEPT ![b].fate = f] /\ UNCHANGED launches
    <3>1. PICK b \in DOMAIN buys, f \in {"live", "none"} :
                /\ buys[b].fate = "open"
                /\ buys' = [buys EXCEPT ![b].fate = f] /\ UNCHANGED launches
      BY <2>3
    <3>2. BuyOnward(buys[b], [buys[b] EXCEPT !.fate = f])
      BY <1>5, <3>1 DEF Fates
    <3>3. QED
      BY <1>3, <2>1, <3>1, <3>2
  <2>4. QED
    BY <1>6, <2>2, <2>3 DEF Sign
<1>7. ASSUME Include
      PROVE  ChainMoves
  <2>1. UNCHANGED <<ready, page, ui, turns>>
    BY <1>7 DEF Include
  <2>2. CASE \E n \in DOMAIN launches, f \in Ended :
                /\ launches[n].fate = "live"
                /\ launches' = [launches EXCEPT ![n].fate = f] /\ UNCHANGED buys
    <3>1. PICK n \in DOMAIN launches, f \in Ended :
                /\ launches[n].fate = "live"
                /\ launches' = [launches EXCEPT ![n].fate = f] /\ UNCHANGED buys
      BY <2>2
    <3>2. Onward(launches[n], [launches[n] EXCEPT !.fate = f])
      BY <1>4, <3>1 DEF Fates
    <3>3. QED
      BY <1>2, <2>1, <3>1, <3>2
  <2>3. CASE \E b \in DOMAIN buys, f \in Ended :
                /\ buys[b].fate = "live"
                /\ buys' = [buys EXCEPT ![b].fate = f] /\ UNCHANGED launches
    <3>1. PICK b \in DOMAIN buys, f \in Ended :
                /\ buys[b].fate = "live"
                /\ buys' = [buys EXCEPT ![b].fate = f] /\ UNCHANGED launches
      BY <2>3
    <3>2. BuyOnward(buys[b], [buys[b] EXCEPT !.fate = f])
      BY <1>5, <3>1 DEF Fates
    <3>3. QED
      BY <1>3, <2>1, <3>1, <3>2
  <2>4. QED
    BY <1>7, <2>2, <2>3 DEF Include
<1>8. ASSUME NEW n \in DOMAIN launches, Index(n)
      PROVE  ChainMoves
  <2>1. Onward(launches[n], [launches[n] EXCEPT !.indexed = TRUE])
    BY <1>1, LaunchesTyped DEF Onward, LaunchRecord, Real
  <2>2. QED
    BY <1>2, <1>8, <2>1 DEF Index
<1>9. QED
  BY <1>6, <1>7, <1>8, ChainMovesKeeps

-----------------------------------------------------------------------------
(* The form alone, the wallet, and the page. *)

FormMoves ==
  /\ ready' \in BOOLEAN /\ input' \in Inputs
  /\ IF input'.source = "file" THEN input'.url = "none" ELSE input'.file = "none"
  /\ review' \in BOOLEAN
  /\ modal' = modal \/ (modal' \in {"closed", "review"} /\ ~pending)
  /\ turns' \in {turns, turns + 1} /\ turns' <= MaxTurns
  /\ UNCHANGED <<page, status, result, failure, launches, buys>>

LEMMA FormMovesKeeps ==
  ASSUME IInv, FormMoves
  PROVE  IInv'
<1>1. /\ TypeOK /\ FlowsOK /\ PageOK /\ SuccessIsReal /\ RetryWaitsForReceipt
      /\ DisabledWhileRunning
  BY DEF IInv
<1>2. UNCHANGED <<page, status, result, failure, launches, buys>>
  BY DEF FormMoves
<1>3. turns \in Nat /\ page \in Nat /\ page <= turns /\ turns' \in 0..MaxTurns /\ turns <= turns'
  BY <1>1, CreationAssumption DEF TypeOK, PageOK, FormMoves
<1>4. TypeOK'
  <2>1. BuyRecord' = BuyRecord
    BY <1>2 DEF BuyRecord
  <2>2. modal' \in {"closed", "review", "busy", "other"}
    BY <1>1 DEF FormMoves, TypeOK
  <2>3. QED
    BY <1>1, <1>2, <1>3, <2>1, <2>2 DEF TypeOK, FormMoves
<1>5. \A m : BuysOf(m)' = BuysOf(m) /\ LastBuy(m)' = LastBuy(m) /\ (Settled(m)' <=> Settled(m))
  BY <1>2, SameBuys
<1>6. FlowsOK'
  <2>1. \A n \in DOMAIN launches : LaunchOK(launches[n])' /\ BuysOK(n)'
    BY <1>1, <1>2, <1>5 DEF FlowsOK, LaunchOK, BuysOK, Real
  <2>2. QED
    BY <1>2, <2>1 DEF FlowsOK
<1>7. Running' = Running
  BY <1>2 DEF Running
<1>8. PageOK'
  <2>1. page' <= turns'
    BY <1>2, <1>3
  <2>2. failure' = failure /\ result' = result
    BY <1>2
  <2>3. \A m, n \in Running' : m = n
    BY <1>1, <1>7 DEF PageOK
  <2>4. result # None =>
          /\ launches'[result].page = page' /\ Real(launches'[result])
          /\ launches'[result].at = "ended" \/ launches'[result].retry
    BY <1>1, <1>2 DEF PageOK
  <2>5. failure # None =>
          result = failure.launch /\ (failure.retryable => Settled(failure.launch)')
    BY <1>1, <1>2, <1>5 DEF PageOK
  <2>6. QED
    BY <2>1, <2>2, <2>3, <2>4, <2>5 DEF PageOK
<1>9. SuccessIsReal' /\ RetryWaitsForReceipt'
  BY <1>1, <1>2 DEF SuccessIsReal, RetryWaitsForReceipt, BuysOf
<1>10. DisabledWhileRunning'
  BY <1>1, <1>2, <1>7 DEF DisabledWhileRunning, pending, Locked, FormMoves
<1>11. QED
  BY <1>4, <1>6, <1>8, <1>9, <1>10 DEF IInv

LEMMA FormKeeps ==
  ASSUME IInv,
         \/ update \/ switchImageSource \/ openReview \/ Edit \/ AskConfirm \/ Close
         \/ SwitchWallet \/ (submit /\ ~validateCreateToken(input))
  PROVE  IInv'
<1>1. /\ TypeOK /\ DisabledWhileRunning /\ turns \in 0..MaxTurns /\ MaxTurns \in Nat
      /\ ready \in BOOLEAN /\ review \in BOOLEAN /\ input \in Inputs
      /\ IF input.source = "file" THEN input.url = "none" ELSE input.file = "none"
  BY CreationAssumption DEF IInv, TypeOK
<1>2. turns \in Nat /\ turns <= MaxTurns /\ (Turn => turns' = turns + 1 /\ turns' <= MaxTurns)
  BY <1>1 DEF Turn
<1>3. ASSUME NEW i \in Inputs, Edited(i),
             IF i.source = "file" THEN i.url = "none" ELSE i.file = "none"
      PROVE  FormMoves
  BY <1>1, <1>2, <1>3 DEF Edited, FormMoves
<1>4. CASE update
  <2>1. PICK v \in Values :
          \/ v # "none" /\ Edited([input EXCEPT !.text = v])
          \/ Edited([input EXCEPT !.devBuy = v])
          \/ input.source = "file" /\ Edited([input EXCEPT !.file = v, !.url = "none"])
          \/ input.source = "url" /\ Edited([input EXCEPT !.url = v, !.file = "none"])
    BY <1>4 DEF update
  <2>2. CASE v # "none" /\ Edited([input EXCEPT !.text = v])
    <3> DEFINE i == [input EXCEPT !.text = v]
    <3>1. i \in Inputs /\ IF i.source = "file" THEN i.url = "none" ELSE i.file = "none"
      BY <1>1, <2>2 DEF Inputs, Values
    <3>2. QED
      BY <1>3, <2>2, <3>1, FormMovesKeeps
  <2>3. CASE Edited([input EXCEPT !.devBuy = v])
    <3> DEFINE i == [input EXCEPT !.devBuy = v]
    <3>1. i \in Inputs /\ IF i.source = "file" THEN i.url = "none" ELSE i.file = "none"
      BY <1>1 DEF Inputs, Values
    <3>2. QED
      BY <1>3, <2>3, <3>1, FormMovesKeeps
  <2>4. CASE input.source = "file" /\ Edited([input EXCEPT !.file = v, !.url = "none"])
    <3> DEFINE i == [input EXCEPT !.file = v, !.url = "none"]
    <3>1. i \in Inputs /\ IF i.source = "file" THEN i.url = "none" ELSE i.file = "none"
      BY <1>1, <2>4 DEF Inputs, Values
    <3>2. QED
      BY <1>3, <2>4, <3>1, FormMovesKeeps
  <2>5. CASE input.source = "url" /\ Edited([input EXCEPT !.url = v, !.file = "none"])
    <3> DEFINE i == [input EXCEPT !.url = v, !.file = "none"]
    <3>1. i \in Inputs /\ IF i.source = "file" THEN i.url = "none" ELSE i.file = "none"
      BY <1>1, <2>5 DEF Inputs, Values
    <3>2. QED
      BY <1>3, <2>5, <3>1, FormMovesKeeps
  <2>6. QED
    BY <2>1, <2>2, <2>3, <2>4, <2>5
<1>5. CASE switchImageSource
  <2>1. PICK s \in {"file", "url"} :
          Edited([input EXCEPT !.source = s, !.file = IF s = "file" THEN @ ELSE "none",
                               !.url = IF s = "url" THEN @ ELSE "none"])
    BY <1>5 DEF switchImageSource
  <2> DEFINE i == [input EXCEPT !.source = s, !.file = IF s = "file" THEN @ ELSE "none",
                                !.url = IF s = "url" THEN @ ELSE "none"]
  <2>2. i \in Inputs /\ IF i.source = "file" THEN i.url = "none" ELSE i.file = "none"
    BY <1>1, <2>1 DEF Inputs, Values
  <2>3. QED
    BY <1>3, <2>1, <2>2, FormMovesKeeps
<1>6. CASE \/ openReview \/ Edit \/ AskConfirm \/ Close \/ SwitchWallet
           \/ (submit /\ ~validateCreateToken(input))
  <2>1. FormMoves
    BY <1>1, <1>2, <1>6 DEF openReview, Edit, AskConfirm, Close, SwitchWallet, submit, FormMoves,
                            DisabledWhileRunning, ui
  <2>2. QED
    BY <2>1, FormMovesKeeps
<1>7. QED
  BY <1>4, <1>5, <1>6

LEMMA LeaveKeeps ==
  ASSUME IInv, Leave
  PROVE  IInv'
<1>1. /\ TypeOK /\ FlowsOK /\ PageOK /\ SuccessIsReal /\ RetryWaitsForReceipt
      /\ DisabledWhileRunning
  BY DEF IInv
<1>2. /\ turns < MaxTurns /\ turns' = turns + 1 /\ page' = page + 1
      /\ launches' \in {launches, [n \in DOMAIN launches |-> [launches[n] EXCEPT !.at = "ended"]]}
      /\ input' = Empty /\ review' = FALSE /\ modal' = "closed" /\ status' = "idle"
      /\ result' = None /\ failure' = None /\ ready' = ready /\ buys' = buys
  BY DEF Leave, Turn
<1>3. /\ turns \in Nat /\ page \in Nat /\ page <= turns
      /\ turns' \in 0..MaxTurns /\ page' \in 0..MaxTurns /\ page' <= turns'
  BY <1>1, <1>2, CreationAssumption DEF TypeOK, PageOK
<1>4. \A n \in DOMAIN launches :
        launches[n] \in LaunchRecord /\ [launches[n] EXCEPT !.at = "ended"] \in LaunchRecord
  BY <1>1, LaunchesTyped DEF LaunchRecord, Stages
<1>5. /\ launches' \in Seq(LaunchRecord) /\ Len(launches') = Len(launches)
      /\ DOMAIN launches' = DOMAIN launches
      /\ \A n \in DOMAIN launches :
           launches'[n] = launches[n] \/ launches'[n] = [launches[n] EXCEPT !.at = "ended"]
  <2>1. launches \in Seq(LaunchRecord) /\ DOMAIN launches = 1..Len(launches) /\ Len(launches) \in Nat
    BY <1>1, LaunchesTyped DEF TypeOK
  <2>2. CASE launches' = launches
    BY <2>1, <2>2
  <2>3. CASE launches' = [n \in DOMAIN launches |-> [launches[n] EXCEPT !.at = "ended"]]
    <3>1. launches' \in [1..Len(launches) -> LaunchRecord]
      BY <1>4, <2>1, <2>3
    <3>2. launches' \in Seq(LaunchRecord) /\ Len(launches') = Len(launches)
      BY <2>1, <3>1
    <3>3. QED
      BY <2>3, <3>2
  <2>4. QED
    BY <1>2, <2>2, <2>3
<1>6. \A n \in DOMAIN launches :
        /\ launches'[n].page = launches[n].page /\ launches'[n].buys = launches[n].buys
        /\ launches'[n].retry = launches[n].retry /\ launches'[n].fate = launches[n].fate
        /\ launches'[n].draft = launches[n].draft /\ launches'[n].indexed = launches[n].indexed
        /\ launches'[n].at = launches[n].at \/ launches'[n].at = "ended"
        /\ launches[n].page <= page /\ launches[n].page \in Nat
  <2>1. \A n \in DOMAIN launches : launches[n].page <= page /\ launches[n].page \in Nat
    <3>1. \A n \in DOMAIN launches : launches[n].page <= page
      BY <1>1 DEF FlowsOK, LaunchOK
    <3>2. \A n \in DOMAIN launches : launches[n].page \in 0..MaxTurns
      BY <1>4 DEF LaunchRecord
    <3>3. QED
      BY <3>1, <3>2, CreationAssumption
  <2>2. QED
    BY <1>4, <1>5, <2>1 DEF LaunchRecord
<1>7. \A m : BuysOf(m)' = BuysOf(m) /\ LastBuy(m)' = LastBuy(m) /\ (Settled(m)' <=> Settled(m))
  BY <1>2, SameBuys
<1>8. TypeOK'
  <2>1. BuyRecord' = BuyRecord
    BY <1>5 DEF BuyRecord
  <2>2. Empty \in Inputs /\ Empty.source = "file" /\ Empty.url = "none" /\ "idle" \in Statuses
    BY DEF Empty, Inputs, Values, Statuses
  <2>3. QED
    BY <1>1, <1>2, <1>3, <1>5, <2>1, <2>2 DEF TypeOK
<1>9. FlowsOK'
  <2>1. ASSUME NEW n \in DOMAIN launches
        PROVE  LaunchOK(launches[n])' /\ BuysOK(n)'
    <3>1. LaunchOK(launches[n]) /\ BuysOK(n)
      BY <1>1 DEF FlowsOK
    <3>2. launches'[n].page <= page'
      BY <1>2, <1>3, <1>6
    <3>3. LaunchOK(launches[n])'
      BY <1>6, <3>1, <3>2 DEF LaunchOK, Real, Creating, Buying
    <3>4. BuysOK(n)'
      BY <1>2, <1>6, <1>7, <3>1 DEF BuysOK, Creating
    <3>5. QED
      BY <3>3, <3>4
  <2>2. QED
    BY <1>5, <2>1 DEF FlowsOK
<1>10. Running' = {}
  <2>1. \A n \in DOMAIN launches : launches'[n].page # page'
    BY <1>2, <1>3, <1>6
  <2>2. QED
    BY <1>5, <2>1 DEF Running
<1>11. PageOK'
  BY <1>2, <1>3, <1>10 DEF PageOK
<1>12. SuccessIsReal' /\ RetryWaitsForReceipt'
  BY <1>1, <1>2 DEF SuccessIsReal, RetryWaitsForReceipt, BuysOf
<1>13. DisabledWhileRunning'
  BY <1>2, <1>10 DEF DisabledWhileRunning, pending, Locked, BusyStatus
<1>14. QED
  BY <1>8, <1>9, <1>11, <1>12, <1>13 DEF IInv

-----------------------------------------------------------------------------
(* The specification. *)

LEMMA InitHolds ==
  ASSUME Init
  PROVE  IInv
<1>1. /\ launches = <<>> /\ buys = <<>> /\ DOMAIN launches = {} /\ DOMAIN buys = {}
      /\ Len(launches) = 0 /\ Len(buys) = 0
  BY DEF Init
<1>2. TypeOK
  <2>1. Empty \in Inputs /\ Empty.source = "file" /\ Empty.url = "none" /\ "idle" \in Statuses
    BY DEF Empty, Inputs, Values, Statuses
  <2>2. page \in 0..MaxTurns /\ turns \in 0..MaxTurns /\ 0 <= MaxLaunches /\ 0 <= MaxBuys
    BY CreationAssumption DEF Init
  <2>3. launches \in Seq(LaunchRecord) /\ buys \in Seq(BuyRecord)
    BY <1>1
  <2>4. /\ ready \in BOOLEAN /\ input = Empty /\ review = FALSE /\ modal = "closed"
        /\ status = "idle" /\ result = None /\ failure = None
    BY DEF Init
  <2>5. QED
    BY <1>1, <2>1, <2>2, <2>3, <2>4 DEF TypeOK
<1>3. FlowsOK
  BY <1>1 DEF FlowsOK
<1>4. Running = {}
  BY <1>1 DEF Running
<1>5. PageOK
  BY <1>4 DEF Init, PageOK
<1>6. SuccessIsReal /\ RetryWaitsForReceipt
  BY <1>1 DEF Init, SuccessIsReal, RetryWaitsForReceipt
<1>7. DisabledWhileRunning
  BY <1>4 DEF Init, DisabledWhileRunning, pending, Locked, BusyStatus
<1>8. QED
  BY <1>2, <1>3, <1>5, <1>6, <1>7 DEF IInv

LEMMA NextKeeps ==
  ASSUME IInv, [Next]_vars
  PROVE  IInv'
<1>1. CASE UserStep
  BY <1>1, FormKeeps, SubmitKeeps, RetryKeeps, LeaveKeeps DEF UserStep
<1>2. CASE Sign \/ Include
  BY <1>2, ChainKeeps
<1>3. ASSUME NEW n \in DOMAIN launches, FlowStep(n)
      PROVE  IInv'
  <2>1. CASE \/ uploadMetadata(n) \/ submitCreateToken(n) \/ Submitted(n)
             \/ confirmCreatedToken(n) \/ Fails(n)
    BY <2>1, FlowMoves
  <2>2. CASE finalizeMetadata(n)
    BY <2>2, FinalizeKeeps
  <2>3. CASE submitBuy(n) \/ BuySubmitted(n)
    BY <2>3, SubmitBuyKeeps, BuySubmittedKeeps
  <2>4. CASE BuyConfirmed(n)
    BY <2>4, BuyEnds
  <2>5. CASE BuyFails(n)
    <3>1. CASE launches[n].retry
      BY <2>5, <3>1, FlowMoves
    <3>2. CASE ~launches[n].retry
      BY <2>5, <3>2, BuyEnds
    <3>3. QED
      BY <3>1, <3>2
  <2>6. CASE Index(n)
    BY <2>6, ChainKeeps
  <2>7. QED
    BY <1>3, <2>1, <2>2, <2>3, <2>4, <2>5, <2>6 DEF FlowStep
<1>4. CASE UNCHANGED vars
  <2>1. UNCHANGED <<ready, page, input, review, modal, status, result, failure, launches, buys, turns>>
    BY <1>4 DEF vars, ui
  <2>2. FormMoves
    BY <2>1, CreationAssumption DEF FormMoves, IInv, TypeOK
  <2>3. QED
    BY <2>2, FormMovesKeeps
<1>5. QED
  BY <1>1, <1>2, <1>3, <1>4 DEF Next

LEMMA Inductive == Spec => []IInv
<1>1. Init => IInv
  BY InitHolds
<1>2. IInv /\ [Next]_vars => IInv'
  BY NextKeeps
<1>3. QED
  BY <1>1, <1>2, PTL DEF Spec

\* Every variable of the creation page and of its flows keeps its shape, however
\* often the page is left and purchases are retried (app/create/page.tsx).
THEOREM CreationTypeOK == Spec => []TypeOK
BY Inductive, PTL DEF IInv

\* What the page shows as created is mined, indexed and described, and what it shows
\* as bought is mined, for any number of launches, purchases, attempts and pages.
THEOREM ShownIsReal == Spec => []SuccessIsReal
BY Inductive, PTL DEF IInv

\* A purchase is asked for again only when the one before it is known to have
\* reverted, or gave no hash, or was a retry (lib/dev-buy.ts and retryDevBuy).
THEOREM RetryWaits == Spec => []RetryWaitsForReceipt
BY Inductive, PTL DEF IInv

\* The form is disabled exactly while a flow of its page runs or a first purchase is
\* without a receipt, and its modal stays closed to the user as long.
THEOREM FormIsDisabled == Spec => []DisabledWhileRunning
BY Inductive, PTL DEF IInv
=============================================================================
