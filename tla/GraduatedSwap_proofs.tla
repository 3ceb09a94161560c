------------------------ MODULE GraduatedSwap_proofs ------------------------
(***************************************************************************)
(* Proofs about GraduatedSwap, for any number of wallets, amounts,         *)
(* submissions, edits and changes of wallet: what the swap form sends is   *)
(* what it showed (IInv), and an allowance left with the router belongs to *)
(* an approval whose sale was not mined (AllowanceInv).                    *)
(***************************************************************************)
EXTENDS GraduatedSwap, TLAPS

\* The statuses that are shown.
Shown == {"idle", "quoting", "asking", "waiting", "confirmed", "failed"}

LEMMA ShowsTyped ==
  ASSUME NEW s \in Shown, Shows(s), modal \in {"review", "busy", "other"}
  PROVE  status' \in Shown /\ modal' \in {"review", "busy", "other"}
BY DEF Shown, Shows, Phase

\* A new submission is well formed, and as shown if the quote is the form's.
LEMMA SubmissionTyped ==
  ASSUME TypeOK, QuoteShown, quote # None
  PROVE  /\ Submission(active.wallet, quote) \in Submissions
         /\ Submission(active.wallet, quote).asShown
         /\ LET s == [Submission(active.wallet, quote) EXCEPT
                        !.approved = approvalCall(quote), !.approval = "open"]
            IN  s \in Submissions /\ s.asShown
<1> DEFINE s == Submission(active.wallet, quote)
<1>1. quote \in Quote /\ active.wallet \in Wallets
  BY DEF TypeOK
<1>2. quote.late \/ (form.side = quote.side /\ form.amount = quote.amount)
  BY DEF QuoteShown
<1>3. s \in Submissions /\ s.asShown
  <2>1. s.asShown = TRUE
    BY <1>2 DEF Submission
  <2>2. s = [side |-> quote.side, amount |-> quote.amount, wallet |-> active.wallet,
             asShown |-> TRUE, approved |-> 0, approval |-> "none", fate |-> "none"]
    BY <1>2 DEF Submission
  <2>3. 0 \in 0..MaxAmount /\ "none" \in Fates
    BY SwapAssumption DEF Fates
  <2>4. s \in Submissions
    BY <1>1, <2>2, <2>3 DEF Submissions, Quote
  <2> QED BY <2>1, <2>4
<1>4. quote.amount \in 0..MaxAmount
  BY <1>1, SwapAssumption DEF Quote, Amounts
<1> QED BY <1>3, <1>4 DEF approvalCall, ApproveExactly, Submissions, Fates

\* A submission added to the list, or changed in its requests alone.
LEMMA Appended ==
  ASSUME TypeOK, SentAsShown, Len(swap) < MaxSwaps,
         NEW s \in Submissions, s.asShown, swap' = Append(swap, s)
  PROVE  /\ swap' \in Seq(Submissions) /\ Len(swap') <= MaxSwaps
         /\ SentAsShown'
<1>1. swap \in Seq(Submissions) /\ MaxSwaps \in Nat
  BY SwapAssumption DEF TypeOK
<1> QED BY <1>1 DEF SentAsShown

LEMMA FateChanged ==
  ASSUME TypeOK, SentAsShown, NEW n \in DOMAIN swap, NEW f \in Fates,
         \/ swap' = [swap EXCEPT ![n].fate = f]
         \/ swap' = [swap EXCEPT ![n].approval = f]
  PROVE  /\ swap' \in Seq(Submissions) /\ Len(swap') <= MaxSwaps
         /\ SentAsShown'
<1>1. swap \in Seq(Submissions) /\ Len(swap) <= MaxSwaps /\ swap[n] \in Submissions
  BY DEF TypeOK
<1> DEFINE s == swap'[n]
<1>2. s \in Submissions /\ s.asShown = swap[n].asShown
  BY <1>1 DEF Submissions
<1>3. swap' = [swap EXCEPT ![n] = s]
  BY <1>1 DEF Submissions
<1> QED BY <1>1, <1>2, <1>3 DEF SentAsShown

\* An empty form.
LEMMA EmptyForm == [side |-> "buy", amount |-> 0] \in [side : Sides, amount : 0..MaxAmount]
BY SwapAssumption DEF Sides

LEMMA InitIInv == Init => IInv
<1> SUFFICES ASSUME Init PROVE IInv
  OBVIOUS
<1>1. /\ active \in [wallet : Wallets, selected : BOOLEAN]
      /\ form \in [side : Sides, amount : 0..MaxAmount]
  BY EmptyForm DEF Init
<1>2. /\ swap \in Seq(Submissions) /\ Len(swap) <= MaxSwaps
      /\ allowance \in [Wallets -> 0..MaxAmount] /\ turns \in 0..MaxTurns
  BY SwapAssumption DEF Init
<1>3. TypeOK
  BY <1>1, <1>2 DEF Init, TypeOK
<1> QED BY <1>3 DEF Init, IInv, TimerHasAmount, QuoteShown, SentAsShown

-----------------------------------------------------------------------------
(* The form. *)

\* Neither the submissions nor what they are about change.
LEMMA FormKeeps ==
  ASSUME IInv, changeAmount \/ changeSlippage \/ changeSide \/ Reload
  PROVE  IInv'
<1>1. TypeOK /\ quote' = None /\ swap' = swap
  BY DEF IInv, changeAmount, changeSlippage, changeSide, Reload
<1>2. CASE changeAmount
  <2>1. form' \in [side : Sides, amount : 0..MaxAmount] /\ turns' \in 0..MaxTurns
    BY <1>1, <1>2, SwapAssumption DEF changeAmount, TypeOK
  <2>2. timer' \in BOOLEAN /\ TimerHasAmount'
    BY <1>2 DEF changeAmount, Rearm, busy, TimerHasAmount
  <2> QED BY <1>1, <1>2, <2>1, <2>2 DEF IInv, changeAmount, TypeOK, QuoteShown, SentAsShown
<1>3. CASE changeSide
  <2>1. status' \in Shown /\ modal' \in {"review", "busy", "other"}
    BY <1>1, <1>3, ShowsTyped DEF changeSide, TypeOK, Shown
  <2> QED BY <1>1, <1>3, <2>1, SwapAssumption
          DEF IInv, changeSide, TypeOK, TimerHasAmount, QuoteShown, SentAsShown, Rearm, busy, Shown
<1>4. CASE Reload
  <2>1. form' \in [side : Sides, amount : 0..MaxAmount] /\ turns' \in 0..MaxTurns
    BY <1>1, <1>4, EmptyForm, SwapAssumption DEF Reload, TypeOK
  <2> QED BY <1>1, <1>4, <2>1 DEF IInv, Reload, TypeOK, TimerHasAmount, QuoteShown, SentAsShown
<1>5. CASE changeSlippage
  <2>1. request' \in Terms \cup {None}
    <3>1. CASE request = None
      BY <1>5, <3>1 DEF changeSlippage
    <3>2. CASE request # None
      BY <1>1, <1>5, <3>2 DEF changeSlippage, TypeOK, Terms
    <3> QED BY <3>1, <3>2
  <2>2. turns' \in 0..MaxTurns
    BY <1>1, <1>5, SwapAssumption DEF changeSlippage, TypeOK
  <2>3. timer' \in BOOLEAN /\ TimerHasAmount'
    BY <1>5 DEF changeSlippage, Rearm, busy, TimerHasAmount
  <2> QED BY <1>1, <1>5, <2>1, <2>2, <2>3
          DEF IInv, changeSlippage, TypeOK, QuoteShown, SentAsShown
<1> QED BY <1>2, <1>3, <1>4, <1>5

\* The terms, the quote and the submissions stay.
LEMMA PageKeeps ==
  ASSUME IInv, Refetch \/ Review \/ Close \/ SwitchWallet
  PROVE  IInv'
<1>1. TypeOK /\ UNCHANGED <<form, quote, swap, op, allowance>>
  BY DEF IInv, Refetch, Review, Close, SwitchWallet
<1>2. CASE Refetch
  <2>1. 0 \in 0..MaxAmount /\ allowance[active.wallet] \in 0..MaxAmount
    BY <1>1, SwapAssumption DEF TypeOK
  <2> QED BY <1>1, <1>2, <2>1
          DEF IInv, Refetch, TypeOK, TimerHasAmount, QuoteShown, SentAsShown, Rearm, busy
<1>3. CASE Review \/ Close
  BY <1>1, <1>3 DEF IInv, Review, Close, TypeOK, TimerHasAmount, QuoteShown, SentAsShown
<1>4. CASE SwitchWallet
  <2>1. active' \in [wallet : Wallets, selected : BOOLEAN]
    BY <1>1, <1>4 DEF SwitchWallet, TypeOK
  <2>2. turns' \in 0..MaxTurns /\ snapshot' \in (0..MaxAmount) \cup {None}
    BY <1>1, <1>4, SwapAssumption DEF SwitchWallet, TypeOK
  <2> QED BY <1>1, <1>4, <2>1, <2>2
          DEF IInv, SwitchWallet, TypeOK, TimerHasAmount, QuoteShown, SentAsShown, Rearm, busy
<1> QED BY <1>2, <1>3, <1>4

-----------------------------------------------------------------------------
(* Quotes. *)

LEMMA RequestKeeps ==
  ASSUME IInv, requestQuote
  PROVE  IInv'
<1>1. TypeOK /\ UNCHANGED <<active, form, quote, snapshot, op, swap, allowance, turns>>
  BY DEF IInv, requestQuote
<1>2. status' \in Shown /\ modal' \in {"review", "busy", "other"}
  BY <1>1, ShowsTyped DEF requestQuote, TypeOK, Shown
<1>3. request' \in Terms \cup {None}
  <2>1. CASE request' = request
    BY <1>1, <2>1 DEF TypeOK
  <2>2. CASE request' = [side |-> form.side, amount |-> form.amount, wallet |-> active.wallet,
                       slippage |-> "current"]
    BY <1>1, <2>2 DEF IInv, TimerHasAmount, requestQuote, TypeOK, Terms, Amounts, Slippages
  <2> QED BY <2>1, <2>2 DEF requestQuote
<1> QED BY <1>1, <1>2, <1>3
        DEF IInv, requestQuote, TypeOK, TimerHasAmount, QuoteShown, SentAsShown, Shown

\* An answer is marked late, or it is for the terms of the form.
LEMMA AnswerKeeps ==
  ASSUME IInv, quoteGraduatedSwap
  PROVE  IInv'
<1>1. TypeOK /\ UNCHANGED <<active, form, timer, snapshot, op, swap, allowance, turns>>
  BY DEF IInv, quoteGraduatedSwap
<1>2. status' \in Shown /\ modal' \in {"review", "busy", "other"}
  BY <1>1, ShowsTyped DEF quoteGraduatedSwap, TypeOK, Shown
<1>3. quote' \in Quote \cup {None} /\ QuoteShown'
  <2>1. CASE quote' = quote
    BY <1>1, <2>1 DEF IInv, TypeOK, QuoteShown
  <2>2. CASE quote' = [side |-> request.side, amount |-> request.amount, wallet |-> request.wallet,
                       late |-> \/ request.side # form.side \/ request.amount # form.amount
                                \/ request.slippage = "former"]
    <3>1. request \in Terms
      BY <1>1 DEF quoteGraduatedSwap, TypeOK
    <3>2. quote' \in Quote
      BY <2>2, <3>1 DEF Terms, Quote
    <3>3. QuoteShown'
      BY <1>1, <2>2 DEF QuoteShown
    <3> QED BY <3>2, <3>3
  <2> QED BY <2>1, <2>2 DEF quoteGraduatedSwap
<1> QED BY <1>1, <1>2, <1>3
        DEF IInv, quoteGraduatedSwap, TypeOK, TimerHasAmount, SentAsShown, Shown

-----------------------------------------------------------------------------
(* Submissions. *)

LEMMA SubmitKeeps ==
  ASSUME IInv, submit
  PROVE  IInv'
<1>1. TypeOK /\ QuoteShown /\ SentAsShown
  BY DEF IInv
<1>2. /\ UNCHANGED <<active, form, request, timer, snapshot, allowance, turns>>
      /\ quote \in Quote /\ quote # None /\ active.wallet \in Wallets
      /\ quote' = None \/ quote' = quote
      /\ Len(swap) < MaxSwaps
  BY <1>1 DEF submit, TypeOK
<1>3. status' \in Shown /\ modal' \in {"review", "busy", "other"}
  BY <1>1, ShowsTyped DEF submit, TypeOK, Shown
<1>4. op' \in Operations \cup {None}
  <2>1. CASE op' = op
    BY <1>1, <2>1 DEF TypeOK
  <2>2. CASE \E at \in {"approve", "read"} :
               op' = [at |-> at, wallet |-> active.wallet, side |-> form.side, quote |-> quote]
    BY <1>1, <1>2, <2>2 DEF TypeOK, Operations
  <2> QED BY <2>1, <2>2 DEF submit
<1>5. swap' \in Seq(Submissions) /\ Len(swap') <= MaxSwaps /\ SentAsShown'
  <2>1. CASE swap' = swap
    BY <1>1, <2>1 DEF TypeOK, SentAsShown
  <2>2. CASE swap' = Append(swap, Submission(active.wallet, quote))
    BY <1>1, <1>2, <2>2, SubmissionTyped, Appended
  <2>3. CASE swap' = Append(swap, [Submission(active.wallet, quote) EXCEPT
                                     !.approved = approvalCall(quote), !.approval = "open"])
    BY <1>1, <1>2, <2>3, SubmissionTyped, Appended
  <2> QED BY <2>1, <2>2, <2>3 DEF submit
<1>6. QuoteShown'
  BY <1>1, <1>2 DEF QuoteShown
<1>7. TypeOK'
  BY <1>1, <1>2, <1>3, <1>4, <1>5 DEF TypeOK, Shown
<1> QED BY <1>2, <1>5, <1>6, <1>7 DEF IInv, TimerHasAmount

\* A step of the running submission, which asks nothing new or for the swap.
LEMMA FlowKeeps ==
  ASSUME IInv,
         \/ ApprovalSent \/ ApprovalConfirmed \/ AllowanceSeen \/ StateRead
         \/ Send \/ Sent \/ Confirmed \/ Refreshed \/ Fails
  PROVE  IInv'
<1>1. TypeOK /\ QuoteShown /\ SentAsShown /\ op # None
  BY DEF IInv, At, busy, ApprovalSent, ApprovalConfirmed, AllowanceSeen, StateRead,
         Send, Sent, Confirmed, Refreshed, Fails
<1>2. UNCHANGED <<active, form, quote, request, timer, snapshot, allowance, turns>>
  BY DEF Goto, Rest, ui, ApprovalSent, ApprovalConfirmed, AllowanceSeen, StateRead,
         Send, Sent, Confirmed, Refreshed, Fails
<1>3. status' \in Shown /\ modal' \in {"review", "busy", "other"}
  <2>1. CASE Refreshed
    BY <1>1, <2>1 DEF Refreshed, ui, TypeOK, Shown
  <2>2. CASE ~Refreshed
    <3>1. \E s \in Shown : Shows(s)
      BY <1>1, <2>2 DEF Goto, TypeOK, Shown, ApprovalSent, ApprovalConfirmed, AllowanceSeen,
                        StateRead, Send, Sent, Confirmed, Fails
    <3> QED BY <1>1, <3>1, ShowsTyped DEF TypeOK
  <2> QED BY <2>1, <2>2
<1>4. op' \in Operations \cup {None}
  <2>1. CASE op' = None
    BY <2>1
  <2>2. CASE \E at \in {"approving", "poll", "read", "simulate", "wallet", "receipt", "refresh"} :
               op' = [op EXCEPT !.at = at]
    BY <1>1, <2>2 DEF TypeOK, Operations
  <2> QED BY <2>1, <2>2 DEF Goto, ApprovalSent, ApprovalConfirmed, AllowanceSeen, StateRead,
                            Send, Sent, Confirmed, Refreshed, Fails
<1>5. swap' \in Seq(Submissions) /\ Len(swap') <= MaxSwaps /\ SentAsShown'
  <2>1. CASE swap' = swap
    BY <1>1, <2>1 DEF TypeOK, SentAsShown
  <2>2. CASE swap' # swap
    <3>1. swap' = [swap EXCEPT ![This].fate = "open"]
      BY <2>2 DEF ui, ApprovalSent, ApprovalConfirmed, AllowanceSeen, StateRead,
                  Send, Sent, Confirmed, Refreshed, Fails
    <3>2. This \in DOMAIN swap
      BY <1>1, <2>2, <3>1 DEF TypeOK, This
    <3>3. "open" \in Fates
      BY DEF Fates
    <3> QED BY <1>1, <3>1, <3>2, <3>3, FateChanged
  <2> QED BY <2>1, <2>2
<1>6. TypeOK'
  BY <1>1, <1>2, <1>3, <1>4, <1>5 DEF TypeOK, Shown
<1> QED BY <1>1, <1>2, <1>5, <1>6 DEF IInv, TimerHasAmount, QuoteShown

-----------------------------------------------------------------------------
(* Wallet and chain. *)

LEMMA SignKeeps ==
  ASSUME IInv, NEW n \in DOMAIN swap, Sign(n)
  PROVE  IInv'
<1>1. TypeOK /\ SentAsShown /\ UNCHANGED <<active, ui, snapshot, op, allowance, turns>>
  BY DEF IInv, Sign
<1>2. swap' \in Seq(Submissions) /\ Len(swap') <= MaxSwaps /\ SentAsShown'
  <2>1. PICK f \in Fates : \/ swap' = [swap EXCEPT ![n].fate = f]
                          \/ swap' = [swap EXCEPT ![n].approval = f]
    BY DEF Sign, Fates
  <2> QED BY <1>1, <2>1, FateChanged
<1> QED BY <1>1, <1>2 DEF IInv, TypeOK, TimerHasAmount, QuoteShown, ui

LEMMA IncludeKeeps ==
  ASSUME IInv, NEW n \in DOMAIN swap, IncludeApproval(n) \/ IncludeSwap(n)
  PROVE  IInv'
<1>1. TypeOK /\ SentAsShown /\ UNCHANGED <<active, ui, snapshot, op, turns>>
  BY DEF IInv, IncludeApproval, IncludeSwap
<1>2. swap' \in Seq(Submissions) /\ Len(swap') <= MaxSwaps /\ SentAsShown'
  <2>1. PICK f \in Fates : \/ swap' = [swap EXCEPT ![n].fate = f]
                          \/ swap' = [swap EXCEPT ![n].approval = f]
    BY DEF IncludeApproval, IncludeSwap, Ended, Fates
  <2> QED BY <1>1, <2>1, FateChanged
<1>3. allowance' \in [Wallets -> 0..MaxAmount]
  <2>1. swap[n] \in Submissions /\ allowance \in [Wallets -> 0..MaxAmount]
    BY <1>1 DEF TypeOK
  <2>2. CASE allowance' = allowance
    BY <2>1, <2>2
  <2>3. CASE allowance' = [allowance EXCEPT ![swap[n].wallet] = swap[n].approved]
    BY <2>1, <2>3 DEF Submissions
  <2>4. CASE /\ allowance[swap[n].wallet] >= swap[n].amount
             /\ allowance' = [allowance EXCEPT ![swap[n].wallet] = @ - swap[n].amount]
    <3>1. /\ swap[n].wallet \in Wallets /\ swap[n].amount \in Nat
          /\ allowance[swap[n].wallet] \in 0..MaxAmount
      BY <2>1, SwapAssumption DEF Submissions, Amounts
    <3>2. allowance[swap[n].wallet] - swap[n].amount \in 0..MaxAmount
      BY <2>4, <3>1, SwapAssumption
    <3> QED BY <2>1, <2>4, <3>2
  <2> QED BY <2>2, <2>3, <2>4 DEF IncludeApproval, IncludeSwap
<1> QED BY <1>1, <1>2, <1>3 DEF IInv, TypeOK, TimerHasAmount, QuoteShown, ui

-----------------------------------------------------------------------------

LEMMA StepIInv == IInv /\ [Next]_vars => IInv'
<1> SUFFICES ASSUME IInv, [Next]_vars PROVE IInv'
  OBVIOUS
<1>1. CASE changeAmount \/ changeSlippage \/ changeSide \/ Reload
  BY <1>1, FormKeeps
<1>2. CASE Refetch \/ Review \/ Close \/ SwitchWallet
  BY <1>2, PageKeeps
<1>3. CASE requestQuote \/ quoteGraduatedSwap
  BY <1>3, RequestKeeps, AnswerKeeps
<1>4. CASE submit
  BY <1>4, SubmitKeeps
<1>5. CASE \/ ApprovalSent \/ ApprovalConfirmed \/ AllowanceSeen \/ StateRead
           \/ Send \/ Sent \/ Confirmed \/ Refreshed \/ Fails
  BY <1>5, FlowKeeps
<1>6. ASSUME NEW n \in DOMAIN swap, Sign(n) \/ IncludeApproval(n) \/ IncludeSwap(n)
      PROVE  IInv'
  BY <1>6, SignKeeps, IncludeKeeps
<1>7. CASE UNCHANGED vars
  BY <1>7 DEF IInv, TypeOK, TimerHasAmount, QuoteShown, SentAsShown, vars, ui
<1> QED BY <1>1, <1>2, <1>3, <1>4, <1>5, <1>6, <1>7 DEF Next, UserStep, FlowStep

\* Whatever the user, the submissions and the chain do, IInv holds.
THEOREM IInvHolds == Spec => []IInv
BY InitIInv, StepIInv, PTL DEF Spec

\* Every variable keeps its shape: allowances are taken and used within what was
\* offered, in whatever order approvals and sales are mined.
THEOREM TypeOKHolds == Spec => []TypeOK
<1>1. IInv => TypeOK
  BY DEF IInv
<1> QED BY <1>1, IInvHolds, PTL

\* Every request to the wallet is what the form showed, or on a quote whose answer
\* was late.
THEOREM SentAsShownHolds == Spec => []SentAsShown
<1>1. IInv => SentAsShown
  BY DEF IInv
<1> QED BY <1>1, IInvHolds, PTL

-----------------------------------------------------------------------------
(* The allowance.  NoIdleAllowance says whose it is; what is inductive also  *)
(* says that it is no more than that submission would sell, so that the sale *)
(* of an approval can only use it up.                                        *)

\* An approval is of what is sold, and is settled before the sale is asked for.
ApprovalsOK ==
  \A n \in DOMAIN swap :
    /\ swap[n].approval # "none" => swap[n].approved = swap[n].amount
    /\ swap[n].fate # "none" => swap[n].approval \notin {"open", "live"}

\* So has the running submission's been, once it goes on.
OpSettled ==
  op # None =>
    /\ Len(swap) > 0
    /\ op.at \notin {"approve", "approving"} => swap[This].approval \notin {"open", "live"}

Sold(n) == swap[n].fate = "mined" /\ swap[n].side = "sell"

Backs(n, w) ==
  /\ swap[n].wallet = w /\ swap[n].approval = "mined" /\ ~Sold(n)
  /\ allowance[w] <= swap[n].amount

Backed == \A w \in Wallets : allowance[w] > 0 => \E n \in DOMAIN swap : Backs(n, w)

AllowanceInv == ApprovalsOK /\ OpSettled /\ Backed

LEMMA SwapTyped ==
  ASSUME TypeOK
  PROVE  /\ swap \in Seq(Submissions) /\ Len(swap) \in Nat
         /\ DOMAIN swap = 1..Len(swap)
         /\ \A n \in DOMAIN swap : swap[n] \in Submissions
         /\ \A n \in DOMAIN swap : swap[n].wallet \in Wallets /\ swap[n].amount \in Nat
         /\ \A w \in Wallets : allowance[w] \in Nat
<1>1. swap \in Seq(Submissions) /\ allowance \in [Wallets -> 0..MaxAmount] /\ MaxAmount \in Nat
  BY SwapAssumption DEF TypeOK
<1>2. \A n \in DOMAIN swap : swap[n] \in Submissions
  BY <1>1
<1>3. \A n \in DOMAIN swap : swap[n].wallet \in Wallets /\ swap[n].amount \in Nat
  BY <1>1, <1>2 DEF Submissions, Amounts
<1>4. QED
  BY <1>1, <1>2, <1>3

\* A step that leaves submissions and allowances alone.
LEMMA ElsewhereKeeps ==
  ASSUME AllowanceInv, UNCHANGED <<swap, allowance>>, OpSettled'
  PROVE  AllowanceInv'
<1>1. ApprovalsOK /\ Backed
  BY DEF AllowanceInv
<1>2. ApprovalsOK'
  BY <1>1 DEF ApprovalsOK
<1>3. Backed'
  BY <1>1 DEF Backed, Backs, Sold
<1>4. QED
  BY <1>2, <1>3 DEF AllowanceInv

\* The form, the page and the quotes.
LEMMA PageLeavesAllowance ==
  ASSUME AllowanceInv,
         \/ changeAmount \/ changeSlippage \/ changeSide \/ Reload
         \/ Refetch \/ Review \/ Close \/ SwitchWallet
         \/ requestQuote \/ quoteGraduatedSwap \/ Refreshed \/ Fails \/ UNCHANGED vars
  PROVE  AllowanceInv'
<1>1. UNCHANGED <<swap, allowance>> /\ (op' = op \/ op' = None)
  BY DEF changeAmount, changeSlippage, changeSide, Reload, Refetch, Review, Close, SwitchWallet,
         requestQuote,
         quoteGraduatedSwap, Refreshed, Fails, Rest, ui, vars
<1>2. OpSettled'
  BY <1>1 DEF AllowanceInv, OpSettled, This
<1>3. QED
  BY <1>1, <1>2, ElsewhereKeeps

\* The running submission goes on.
LEMMA FlowLeavesAllowance ==
  ASSUME TypeOK, AllowanceInv,
         ApprovalSent \/ ApprovalConfirmed \/ AllowanceSeen \/ StateRead \/ Sent \/ Confirmed
  PROVE  AllowanceInv'
<1>1. UNCHANGED <<swap, allowance>> /\ op # None /\ op \in Operations
  BY DEF ApprovalSent, ApprovalConfirmed, AllowanceSeen, StateRead, Sent, Confirmed, Rest, At,
         busy, TypeOK
<1>2. PICK at : op' = [op EXCEPT !.at = at]
  BY DEF ApprovalSent, ApprovalConfirmed, AllowanceSeen, StateRead, Sent, Confirmed, Goto
<1>3. op'.at = at
  BY <1>1, <1>2 DEF Operations
<1>4. OpSettled
  BY DEF AllowanceInv
<1>5. OpSettled'
  <2>1. CASE ApprovalSent
    <3>1. op'.at = "approving" /\ swap' = swap
      BY <1>1, <2>1 DEF ApprovalSent, Goto, Operations
    <3>2. QED
      BY <1>1, <1>4, <3>1 DEF OpSettled
  <2>2. CASE ApprovalConfirmed
    <3>1. swap[This].approval \in {"mined", "replaced"} /\ op.at = "approving"
      BY <2>2 DEF ApprovalConfirmed, At
    <3>2. Len(swap) > 0
      BY <1>1, <1>4 DEF OpSettled
    <3>3. QED
      BY <1>1, <3>1, <3>2 DEF OpSettled, This
  <2>3. CASE AllowanceSeen \/ StateRead \/ Sent \/ Confirmed
    <3>1. op.at \notin {"approve", "approving"}
      BY <2>3 DEF AllowanceSeen, StateRead, Sent, Confirmed, At
    <3>2. QED
      BY <1>1, <1>4, <3>1 DEF OpSettled, This
  <2>4. QED
    BY <2>1, <2>2, <2>3
<1>6. QED
  BY <1>1, <1>5, ElsewhereKeeps

\* The wallet is asked for the swap.
LEMMA SendKeepsAllowance ==
  ASSUME TypeOK, AllowanceInv, Send
  PROVE  AllowanceInv'
<1>1. ApprovalsOK /\ OpSettled /\ Backed
  BY DEF AllowanceInv
<1>2. /\ allowance' = allowance /\ op # None /\ op.at = "simulate" /\ op \in Operations
      /\ op' = [op EXCEPT !.at = "wallet"]
      /\ swap' = [swap EXCEPT ![This].fate = "open"]
  BY DEF Send, Goto, Rest, At, busy, TypeOK
<1>3. This \in DOMAIN swap /\ swap[This].approval \notin {"open", "live"}
  BY <1>1, <1>2, SwapTyped DEF OpSettled, This
<1>4. /\ DOMAIN swap' = DOMAIN swap /\ Len(swap') = Len(swap)
      /\ \A n \in DOMAIN swap :
           /\ swap'[n].approval = swap[n].approval /\ swap'[n].approved = swap[n].approved
           /\ swap'[n].amount = swap[n].amount /\ swap'[n].wallet = swap[n].wallet
           /\ swap'[n].side = swap[n].side
           /\ n # This => swap'[n].fate = swap[n].fate
           /\ n = This => swap'[n].fate = "open"
  BY <1>2, <1>3, SwapTyped DEF Submissions
<1>5. ApprovalsOK'
  BY <1>1, <1>3, <1>4 DEF ApprovalsOK
<1>6. OpSettled'
  <2>1. This' = This
    BY <1>4 DEF This
  <2>2. QED
    BY <1>1, <1>2, <1>3, <1>4, <2>1 DEF OpSettled
<1>7. \A n \in DOMAIN swap : \A w \in Wallets : Backs(n, w) => Backs(n, w)'
  BY <1>2, <1>4 DEF Backs, Sold
<1>8. Backed'
  BY <1>1, <1>2, <1>4, <1>7 DEF Backed
<1>9. QED
  BY <1>5, <1>6, <1>8 DEF AllowanceInv

\* A submission asks for an approval of its amount, or for none.
LEMMA SubmitKeepsAllowance ==
  ASSUME TypeOK, AllowanceInv, submit
  PROVE  AllowanceInv'
<1>1. ApprovalsOK /\ OpSettled /\ Backed /\ allowance' = allowance
  BY DEF AllowanceInv, submit
<1>2. CASE UNCHANGED <<op, swap>>
  <2>1. OpSettled'
    BY <1>1, <1>2 DEF OpSettled, This
  <2>2. QED
    BY <1>1, <1>2, <2>1, ElsewhereKeeps
<1>3. CASE ~UNCHANGED <<op, swap>>
  <2>1. PICK at, s : /\ op' = [at |-> at, wallet |-> active.wallet, side |-> form.side, quote |-> quote]
                     /\ swap' = Append(swap, s)
                     /\ s.fate = "none"
                     /\ \/ at = "read" /\ s.approval = "none"
                        \/ at = "approve" /\ s.approval = "open" /\ s.approved = s.amount
    <3> DEFINE s1 == Submission(active.wallet, quote)
               s2 == [s1 EXCEPT !.approved = approvalCall(quote), !.approval = "open"]
    <3>1. s1.fate = "none" /\ s1.approval = "none"
      BY DEF Submission
    <3>2. s2.fate = "none" /\ s2.approval = "open" /\ s2.approved = s2.amount
      BY DEF Submission, approvalCall, ApproveExactly
    <3>3. \/ /\ op' = [at |-> "approve", wallet |-> active.wallet, side |-> form.side, quote |-> quote]
             /\ swap' = Append(swap, s2)
          \/ /\ op' = [at |-> "read", wallet |-> active.wallet, side |-> form.side, quote |-> quote]
             /\ swap' = Append(swap, s1)
      BY <1>3 DEF submit
    <3> HIDE DEF s1, s2
    <3>4. QED
      BY <3>1, <3>2, <3>3
  <2>2. /\ Len(swap') = Len(swap) + 1 /\ Len(swap) \in Nat
        /\ DOMAIN swap' = DOMAIN swap \cup {Len(swap) + 1}
        /\ Len(swap) + 1 \notin DOMAIN swap
        /\ swap'[Len(swap) + 1] = s
        /\ \A n \in DOMAIN swap : swap'[n] = swap[n]
    BY <2>1, SwapTyped
  <2>3. ApprovalsOK'
    BY <1>1, <2>1, <2>2 DEF ApprovalsOK
  <2>4. OpSettled'
    <3>1. op'.at = at /\ Len(swap') > 0 /\ swap'[This'] = s
      BY <2>1, <2>2 DEF This
    <3>2. at = "approve" \/ s.approval = "none"
      BY <2>1
    <3>3. QED
      BY <3>1, <3>2 DEF OpSettled
  <2>5. \A n \in DOMAIN swap : \A w \in Wallets : Backs(n, w) => Backs(n, w)'
    BY <1>1, <2>2 DEF Backs, Sold
  <2>6. Backed'
    BY <1>1, <2>2, <2>5 DEF Backed
  <2>7. QED
    BY <2>3, <2>4, <2>6 DEF AllowanceInv
<1>4. QED
  BY <1>2, <1>3

\* A request is signed or refused.
LEMMA SignKeepsAllowance ==
  ASSUME TypeOK, AllowanceInv, NEW n \in DOMAIN swap, Sign(n)
  PROVE  AllowanceInv'
<1>1. ApprovalsOK /\ OpSettled /\ Backed /\ allowance' = allowance /\ op' = op
  BY DEF AllowanceInv, Sign
<1>2. /\ DOMAIN swap' = DOMAIN swap /\ Len(swap') = Len(swap)
      /\ \A m \in DOMAIN swap :
           /\ swap'[m].approved = swap[m].approved /\ swap'[m].amount = swap[m].amount
           /\ swap'[m].wallet = swap[m].wallet /\ swap'[m].side = swap[m].side
           /\ swap[m].approval = "none" => swap'[m].approval = "none"
           /\ swap[m].approval = "mined" => swap'[m].approval = "mined"
           /\ swap'[m].approval \in {"open", "live"} => swap[m].approval \in {"open", "live"}
           /\ swap[m].fate = "none" => swap'[m].fate = "none"
           /\ swap'[m].fate = "mined" => swap[m].fate = "mined"
  <2>1. PICK f \in {"live", "none"} :
          \/ swap[n].approval = "open" /\ swap' = [swap EXCEPT ![n].approval = f]
          \/ swap[n].fate = "open" /\ swap' = [swap EXCEPT ![n].fate = f]
    BY DEF Sign
  <2>2. CASE swap[n].approval = "open" /\ swap' = [swap EXCEPT ![n].approval = f]
    BY <2>1, <2>2, SwapTyped DEF Submissions
  <2>3. CASE swap[n].fate = "open" /\ swap' = [swap EXCEPT ![n].fate = f]
    BY <2>1, <2>3, SwapTyped DEF Submissions
  <2>4. QED
    BY <2>1, <2>2, <2>3
<1>3. ApprovalsOK'
  BY <1>1, <1>2 DEF ApprovalsOK
<1>4. OpSettled'
  BY <1>1, <1>2, SwapTyped DEF OpSettled, This
<1>5. \A m \in DOMAIN swap : \A w \in Wallets : Backs(m, w) => Backs(m, w)'
  BY <1>1, <1>2 DEF Backs, Sold
<1>6. Backed'
  BY <1>1, <1>2, <1>5 DEF Backed
<1>7. QED
  BY <1>3, <1>4, <1>6 DEF AllowanceInv

\* A mined approval backs the allowance it sets, whatever was left before.
LEMMA ApprovalKeepsAllowance ==
  ASSUME TypeOK, AllowanceInv, NEW n \in DOMAIN swap, IncludeApproval(n)
  PROVE  AllowanceInv'
<1>1. ApprovalsOK /\ OpSettled /\ Backed /\ op' = op /\ swap[n].approval = "live"
  BY DEF AllowanceInv, IncludeApproval
<1>2. PICK f \in Ended :
        /\ swap' = [swap EXCEPT ![n].approval = f]
        /\ allowance' = IF f = "mined" THEN [allowance EXCEPT ![swap[n].wallet] = swap[n].approved]
                        ELSE allowance
  BY DEF IncludeApproval
<1>3. /\ DOMAIN swap' = DOMAIN swap /\ Len(swap') = Len(swap)
      /\ \A m \in DOMAIN swap :
           /\ swap'[m].approved = swap[m].approved /\ swap'[m].amount = swap[m].amount
           /\ swap'[m].wallet = swap[m].wallet /\ swap'[m].side = swap[m].side
           /\ swap'[m].fate = swap[m].fate
           /\ m # n => swap'[m].approval = swap[m].approval
      /\ swap'[n].approval = f
  BY <1>2, SwapTyped DEF Submissions
<1>4. swap[n].approved = swap[n].amount /\ swap[n].fate = "none"
  BY <1>1 DEF ApprovalsOK
<1>5. ApprovalsOK'
  BY <1>1, <1>3, <1>4 DEF ApprovalsOK, Ended
<1>6. OpSettled'
  BY <1>1, <1>3, SwapTyped DEF OpSettled, This, Ended
<1>7. ASSUME NEW w \in Wallets, allowance'[w] > 0
      PROVE  \E m \in DOMAIN swap : Backs(m, w)'
  <2>1. CASE f = "mined" /\ w = swap[n].wallet
    <3>1. allowance'[w] = swap[n].amount
      BY <1>2, <1>4, <2>1 DEF TypeOK
    <3>2. swap[n].amount \in Nat
      BY SwapTyped
    <3>3. Backs(n, w)'
      BY <1>3, <1>4, <2>1, <3>1, <3>2 DEF Backs, Sold
    <3>4. QED
      BY <3>3
  <2>2. CASE ~(f = "mined" /\ w = swap[n].wallet)
    <3>1. allowance'[w] = allowance[w]
      BY <1>2, <2>2 DEF TypeOK
    <3>2. PICK m \in DOMAIN swap : Backs(m, w)
      BY <1>1, <1>7, <3>1 DEF Backed
    <3>3. m # n
      BY <1>1, <3>2 DEF Backs
    <3>4. Backs(m, w)'
      BY <1>3, <3>1, <3>2, <3>3 DEF Backs, Sold
    <3>5. QED
      BY <3>4
  <2>3. QED
    BY <2>1, <2>2
<1>8. Backed'
  BY <1>3, <1>7 DEF Backed
<1>9. QED
  BY <1>5, <1>6, <1>8 DEF AllowanceInv

\* A mined sale of the submission that backs an allowance uses it up.
LEMMA SwapKeepsAllowance ==
  ASSUME TypeOK, AllowanceInv, NEW n \in DOMAIN swap, IncludeSwap(n)
  PROVE  AllowanceInv'
<1>1. ApprovalsOK /\ OpSettled /\ Backed /\ op' = op /\ swap[n].fate = "live"
  BY DEF AllowanceInv, IncludeSwap
<1>2. PICK f \in Ended :
        /\ f = "mined" /\ swap[n].side = "sell" => allowance[swap[n].wallet] >= swap[n].amount
        /\ swap' = [swap EXCEPT ![n].fate = f]
        /\ allowance' = IF f = "mined" /\ swap[n].side = "sell"
                          THEN [allowance EXCEPT ![swap[n].wallet] = @ - swap[n].amount]
                          ELSE allowance
  BY DEF IncludeSwap
<1>3. /\ DOMAIN swap' = DOMAIN swap /\ Len(swap') = Len(swap)
      /\ \A m \in DOMAIN swap :
           /\ swap'[m].approved = swap[m].approved /\ swap'[m].amount = swap[m].amount
           /\ swap'[m].wallet = swap[m].wallet /\ swap'[m].side = swap[m].side
           /\ swap'[m].approval = swap[m].approval
           /\ m # n => swap'[m].fate = swap[m].fate
      /\ swap'[n].fate = f
  BY <1>2, SwapTyped DEF Submissions
<1>4. ApprovalsOK'
  BY <1>1, <1>3 DEF ApprovalsOK
<1>5. OpSettled'
  BY <1>1, <1>3, SwapTyped DEF OpSettled, This
<1>6. ASSUME NEW w \in Wallets, allowance'[w] > 0
      PROVE  \E m \in DOMAIN swap : Backs(m, w)'
  <2>1. swap[n].amount \in Nat /\ allowance[w] \in Nat
    BY SwapTyped
  <2>2. CASE f = "mined" /\ swap[n].side = "sell" /\ w = swap[n].wallet
    <3>1. allowance'[w] = allowance[w] - swap[n].amount
      BY <1>2, <2>2 DEF TypeOK
    <3>2. allowance[w] > swap[n].amount /\ allowance[w] > 0 /\ allowance'[w] <= allowance[w]
      BY <1>6, <2>1, <3>1
    <3>3. PICK m \in DOMAIN swap : Backs(m, w)
      BY <1>1, <3>2 DEF Backed
    <3>4. swap[m].amount \in Nat
      BY SwapTyped
    <3>5. m # n
      BY <2>1, <3>2, <3>3 DEF Backs
    <3>6. allowance'[w] <= swap[m].amount
      BY <2>1, <3>1, <3>2, <3>3, <3>4 DEF Backs
    <3>7. Backs(m, w)'
      BY <1>3, <3>3, <3>5, <3>6 DEF Backs, Sold
    <3>8. QED
      BY <3>7
  <2>3. CASE ~(f = "mined" /\ swap[n].side = "sell") \/ w # swap[n].wallet
    <3>1. allowance'[w] = allowance[w]
      BY <1>2, <2>3 DEF TypeOK
    <3>2. PICK m \in DOMAIN swap : Backs(m, w)
      BY <1>1, <1>6, <3>1 DEF Backed
    <3>3. m = n => ~(f = "mined" /\ swap[n].side = "sell")
      BY <2>3, <3>2 DEF Backs
    <3>4. Backs(m, w)'
      BY <1>3, <3>1, <3>2, <3>3 DEF Backs, Sold
    <3>5. QED
      BY <3>4
  <2>4. QED
    BY <2>2, <2>3
<1>7. Backed'
  BY <1>3, <1>6 DEF Backed
<1>8. QED
  BY <1>4, <1>5, <1>7 DEF AllowanceInv

LEMMA StepAllowance == IInv /\ AllowanceInv /\ [Next]_vars => AllowanceInv'
<1> SUFFICES ASSUME IInv, AllowanceInv, [Next]_vars PROVE AllowanceInv'
  OBVIOUS
<1>1. TypeOK
  BY DEF IInv
<1>2. CASE \/ changeAmount \/ changeSlippage \/ changeSide \/ Reload
         \/ Refetch \/ Review \/ Close \/ SwitchWallet
           \/ requestQuote \/ quoteGraduatedSwap \/ Refreshed \/ Fails \/ UNCHANGED vars
  BY <1>2, PageLeavesAllowance
<1>3. CASE submit
  BY <1>1, <1>3, SubmitKeepsAllowance
<1>4. CASE ApprovalSent \/ ApprovalConfirmed \/ AllowanceSeen \/ StateRead \/ Sent \/ Confirmed
  BY <1>1, <1>4, FlowLeavesAllowance
<1>5. CASE Send
  BY <1>1, <1>5, SendKeepsAllowance
<1>6. ASSUME NEW n \in DOMAIN swap, Sign(n) \/ IncludeApproval(n) \/ IncludeSwap(n)
      PROVE  AllowanceInv'
  BY <1>1, <1>6, SignKeepsAllowance, ApprovalKeepsAllowance, SwapKeepsAllowance
<1>7. QED
  BY <1>2, <1>3, <1>4, <1>5, <1>6 DEF Next, UserStep, FlowStep

\* Whatever the order in which approvals and sales are mined, an allowance that is
\* left with the router belongs to an approval whose sale has not been mined.
THEOREM NoIdleAllowanceHolds == Spec => []NoIdleAllowance
<1>1. Init => AllowanceInv
  <2>1. SUFFICES ASSUME Init PROVE AllowanceInv
    OBVIOUS
  <2>2. DOMAIN swap = {} /\ op = None /\ \A w \in Wallets : allowance[w] = 0
    BY <2>1 DEF Init
  <2>3. QED
    BY <2>2 DEF AllowanceInv, ApprovalsOK, OpSettled, Backed
<1>2. AllowanceInv => NoIdleAllowance
  BY DEF AllowanceInv, Backed, Backs, Sold, NoIdleAllowance
<1>3. QED
  BY <1>1, <1>2, StepAllowance, IInvHolds, PTL DEF Spec
=============================================================================
