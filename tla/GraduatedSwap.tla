--------------------------- MODULE GraduatedSwap ---------------------------
(***************************************************************************)
(* The swap form of a graduated token (components/graduated-token-swap.tsx *)
(* with the flow of lib/uniswap-v3.ts).  Quotes are asked for by a timer   *)
(* whenever the form, the wallet or the account's state changes, and an    *)
(* answer is taken whatever the form says by then.  A submission runs      *)
(* from one await to the next on the values it was confirmed with, and     *)
(* checks before each send that wallet, network and quote still hold.      *)
(* Of the slippage it matters whether a request has the form's or a former *)
(* one.                                                                    *)
(*                                                                         *)
(* Statuses are `asking' (the wallet), `waiting' (for a receipt or a read) *)
(* and `failed' (error or rejected) next to idle, quoting and confirmed.   *)
(* Time and balances are left out: wherever the code compares a quote with *)
(* the clock or an amount with a balance, both answers are possible.       *)
(***************************************************************************)
EXTENDS Naturals, FiniteSets, Sequences

CONSTANTS
  Wallets,
  None,
  MaxAmount,     (* bound: amounts offered                                  *)
  MaxSwaps,      (* bound: submissions                                      *)
  MaxTurns       (* bound: changes of wallet or network, reloads, edits while
                    a submission runs and changes of side after the first
                    submission                                              *)

ASSUME SwapAssumption ==
  /\ MaxAmount \in Nat \ {0} /\ MaxSwaps \in Nat /\ MaxTurns \in Nat

VARIABLES
  active,      (* the connected wallet and whether its network is selected  *)
  form,        (* side and amount; 0 is an empty field                      *)
  quote,       (* the quote shown, or None                                  *)
  request,     (* the quote asked for and not answered, or None; bound: one *)
  timer,       (* whether the next request is scheduled                     *)
  status, modal,
  snapshot,    (* stateQuery.data: the wallet's allowance as read, or None  *)
  op,          (* the running submission, which holds busy, or None         *)
  swap,        (* the submissions made: requests to the wallet and fates    *)
  allowance,   (* the chain: what the router may take from each wallet      *)
  turns

ui == <<form, quote, request, timer, status, modal>>
vars == <<active, ui, snapshot, op, swap, allowance, turns>>

Amounts == 1..MaxAmount
Sides == {"buy", "sell"}
Slippages == {"current", "former"}
Terms == [side : Sides, amount : Amounts, wallet : Wallets, slippage : Slippages]
Fates == {"none", "open", "live", "mined", "reverted", "replaced"}
Ended == {"mined", "reverted", "replaced"}

busy == op # None

-----------------------------------------------------------------------------
(* What the page shows. *)

\* swapModalPhase: the modal of a busy phase has no way to close it, and stays
\* when the status returns to idle; the form behind it is still reached by keyboard.
Phase(s) == IF s \in {"quoting", "asking", "waiting"} THEN "busy" ELSE "other"

\* The effect of a new status or side: the modal opens at its phase.
Shows(s) ==
  /\ status' = s
  /\ modal' = IF s # "idle" /\ (s # status \/ form'.side # form.side) THEN Phase(s) ELSE modal

\* The quote timer with the former one left running.
KeepTimer(f, a) == timer' = (timer \/ (~busy /\ f.amount # 0 /\ a.selected))

\* The quote timer is cancelled, and set again if there is something to ask,
\* when what it would ask about changes.
Rearm(f, a) == timer' = (~busy /\ f.amount # 0 /\ a.selected)

Init ==
  /\ \E w \in Wallets : active = [wallet |-> w, selected |-> TRUE]
  /\ form = [side |-> "buy", amount |-> 0]
  /\ quote = None /\ request = None /\ timer = FALSE
  /\ status = "idle" /\ modal = "other"
  /\ snapshot = None
  /\ op = None
  /\ swap = <<>>
  /\ allowance = [w \in Wallets |-> 0]
  /\ turns = 0

\* The user changes the terms: the quote is cleared, a request is not taken back.
changeAmount ==
  /\ IF busy THEN turns < MaxTurns /\ turns' = turns + 1 ELSE UNCHANGED turns
  /\ \E a \in 0..MaxAmount :
       /\ form' = [form EXCEPT !.amount = a]
       /\ Rearm(form', active)
  /\ quote' = None
  /\ UNCHANGED <<active, request, status, modal, snapshot, op, swap, allowance>>

\* To another slippage than the request's, or back to it.
changeSlippage ==
  /\ IF busy THEN turns < MaxTurns /\ turns' = turns + 1 ELSE UNCHANGED turns
  /\ quote' = None
  /\ \E s \in Slippages :
       request' = IF request = None THEN None ELSE [request EXCEPT !.slippage = s]
  /\ Rearm(form, active)
  /\ UNCHANGED <<active, form, status, modal, snapshot, op, swap, allowance>>

\* Another side with the quote of the former one.
ChangeSideKeepingQuote ==
  /\ ~busy
  /\ IF swap = <<>> THEN UNCHANGED turns ELSE turns < MaxTurns /\ turns' = turns + 1
  /\ \E side \in Sides \ {form.side} : form' = [form EXCEPT !.side = side]
  /\ Rearm(form', active)
  /\ Shows(status)
  /\ UNCHANGED <<active, quote, request, snapshot, op, swap, allowance>>

changeSide ==
  /\ ~busy
  /\ IF swap = <<>> THEN UNCHANGED turns ELSE turns < MaxTurns /\ turns' = turns + 1
  /\ \E side \in Sides \ {form.side} : form' = [form EXCEPT !.side = side]
  /\ quote' = None
  /\ Rearm(form', active)
  /\ Shows(status)
  /\ UNCHANGED <<active, request, snapshot, op, swap, allowance>>

\* The account's state is read again, now and then.  The node may lag.
Refetch ==
  /\ active.selected
  /\ \E seen \in {allowance[active.wallet], 0} :
       snapshot # seen /\ snapshot' = seen
  /\ Rearm(form, active)
  /\ UNCHANGED <<active, form, quote, request, status, modal, op, swap, allowance, turns>>

\* The timer fires; it was set while nothing was submitted, and does not look
\* again.  The amount may be refused before the quote is asked for.
requestQuote ==
  /\ timer /\ timer' = FALSE
  /\ active.selected
  /\ \/ /\ request = None
        /\ request' = [side |-> form.side, amount |-> form.amount, wallet |-> active.wallet,
                       slippage |-> "current"]
        /\ UNCHANGED form /\ Shows("quoting")
     \/ UNCHANGED <<form, request>> /\ Shows("failed")
  /\ UNCHANGED <<active, quote, snapshot, op, swap, allowance, turns>>

\* A quote is answered.  It is late if the form has other terms by now.
quoteGraduatedSwap ==
  /\ UNCHANGED form
  /\ request # None /\ request' = None
  /\ \/ /\ quote' = [side |-> request.side, amount |-> request.amount, wallet |-> request.wallet,
                     late |-> \/ request.side # form.side \/ request.amount # form.amount
                              \/ request.slippage = "former"]
        /\ Shows("idle")
     \/ UNCHANGED quote /\ Shows("failed")
  /\ UNCHANGED <<active, timer, snapshot, op, swap, allowance, turns>>

Review ==
  /\ quote # None /\ ~busy /\ status # "quoting" /\ active.selected
  /\ modal # "review" /\ modal' = "review"
  /\ UNCHANGED <<active, form, quote, request, timer, status, snapshot, op, swap, allowance, turns>>

Close ==
  /\ modal = "review" /\ modal' = "other"
  /\ UNCHANGED <<active, form, quote, request, timer, status, snapshot, op, swap, allowance, turns>>

-----------------------------------------------------------------------------
(* A submission. *)

\* assertContext, for a quote that has not expired and the wallet it is used with.
Context(q, w) == active.wallet = w /\ active.selected /\ q.wallet = w

At(phases) == busy /\ op.at \in phases

\* The approval asks for the quoted amount, or for one more.
ApproveExactly(q) == q.amount
ApproveMore(q) == q.amount + 1

approvalCall(q) == ApproveExactly(q)

Submission(w, q) ==
  [side |-> q.side, amount |-> q.amount, wallet |-> w,
   asShown |-> q.late \/ (form.side = q.side /\ form.amount = q.amount),
   approved |-> 0, approval |-> "none", fate |-> "none"]

\* The first part of submit and of orchestrateGraduatedSwap, up to the first
\* await: the quote is rejected, or a balance is, or the wallet is asked to
\* approve, or the state is read.
submit ==
  LET w == active.wallet  q == quote IN
  /\ modal = "review" /\ ~busy /\ quote # None /\ snapshot # None
  /\ Len(swap) < MaxSwaps
  /\ UNCHANGED form
  /\ \/ quote' = None /\ Shows("failed") /\ UNCHANGED <<op, swap>>
     \/ Context(q, w) /\ Shows("failed") /\ UNCHANGED <<quote, op, swap>>
     \/ /\ Context(q, w)
        /\ UNCHANGED quote
        /\ IF form.side = "sell" /\ snapshot < q.amount
             THEN /\ Shows("asking")
                  /\ op' = [at |-> "approve", wallet |-> w, side |-> form.side, quote |-> q]
                  /\ swap' = Append(swap, [Submission(w, q) EXCEPT !.approved = approvalCall(q),
                                                                   !.approval = "open"])
             ELSE /\ UNCHANGED <<status, modal>>
                  /\ op' = [at |-> "read", wallet |-> w, side |-> form.side, quote |-> q]
                  /\ swap' = Append(swap, Submission(w, q))
  /\ UNCHANGED <<active, request, timer, snapshot, allowance, turns>>

\* The running submission is the last.
This == Len(swap)
Goto(at, s) == op' = [op EXCEPT !.at = at] /\ UNCHANGED form /\ Shows(s)
Rest == UNCHANGED <<active, quote, request, timer, snapshot, allowance, turns>>

\* approveExactly: the wallet has sent the approval, and its receipt, or that of
\* a transaction which replaced it, has come.
ApprovalSent ==
  /\ At({"approve"}) /\ swap[This].approval \in {"live"} \cup Ended
  /\ Goto("approving", "waiting")
  /\ UNCHANGED swap /\ Rest

ApprovalConfirmed ==
  /\ At({"approving"}) /\ swap[This].approval \in {"mined", "replaced"}
  /\ Goto("poll", "waiting")
  /\ UNCHANGED swap /\ Rest

\* waitForGraduatedAllowance has seen enough.
AllowanceSeen ==
  /\ At({"poll"}) /\ allowance[op.wallet] >= op.quote.amount
  /\ Context(op.quote, op.wallet)
  /\ Goto("read", status)
  /\ UNCHANGED swap /\ Rest

\* The state is read once more.
StateRead ==
  /\ At({"read"})
  /\ op.side = "sell" => allowance[op.wallet] >= op.quote.amount
  /\ Context(op.quote, op.wallet)
  /\ Goto("simulate", status)
  /\ UNCHANGED swap /\ Rest

\* The payload has the quote's side; a simulated sale needs its allowance.
simulateGraduatedSwapTransaction(q, w) == q.side = "sell" => allowance[w] >= q.amount

\* The simulated payload goes to the wallet.
Send ==
  /\ At({"simulate"}) /\ simulateGraduatedSwapTransaction(op.quote, op.wallet)
  /\ Context(op.quote, op.wallet)
  /\ Goto("wallet", "asking")
  /\ swap' = [swap EXCEPT ![This].fate = "open"]
  /\ Rest

Sent ==
  /\ At({"wallet"}) /\ swap[This].fate \in {"live"} \cup Ended
  /\ Goto("receipt", "waiting")
  /\ UNCHANGED swap /\ Rest

\* The receipt is the swap's or that of a transaction that replaced it.  The
\* account's state is asked for again.
Confirmed ==
  /\ At({"receipt"}) /\ swap[This].fate \in {"mined", "replaced"}
  /\ Goto("refresh", "confirmed")
  /\ UNCHANGED swap /\ Rest

Refreshed ==
  /\ At({"refresh"})
  /\ op' = None
  /\ UNCHANGED <<active, ui, snapshot, swap, allowance, turns>>

\* Any call fails, a check does not hold, the wallet refuses or says nothing
\* certain, a receipt is late or says reverted.
Fails ==
  /\ At({"approve", "approving", "poll", "read", "simulate", "wallet", "receipt"})
  /\ op' = None
  /\ UNCHANGED form /\ Shows("failed")
  /\ UNCHANGED swap /\ Rest

-----------------------------------------------------------------------------
(* Wallet, chain and page. *)

\* A request to the wallet may be signed or refused, and its transaction mined, whatever
\* has become of the submission.
Sign(n) ==
  /\ \/ /\ swap[n].approval = "open"
        /\ \E f \in {"live", "none"} : swap' = [swap EXCEPT ![n].approval = f]
     \/ /\ swap[n].fate = "open"
        /\ \E f \in {"live", "none"} : swap' = [swap EXCEPT ![n].fate = f]
  /\ UNCHANGED <<active, ui, snapshot, op, allowance, turns>>

IncludeApproval(n) ==
  /\ swap[n].approval = "live"
  /\ \E f \in Ended :
       /\ swap' = [swap EXCEPT ![n].approval = f]
       /\ allowance' = IF f = "mined" THEN [allowance EXCEPT ![swap[n].wallet] = swap[n].approved]
                       ELSE allowance
  /\ UNCHANGED <<active, ui, snapshot, op, turns>>

IncludeSwap(n) ==
  LET q == swap[n] IN
  /\ swap[n].fate = "live"
  /\ \E f \in Ended :
       /\ f = "mined" /\ q.side = "sell" => allowance[q.wallet] >= q.amount
       /\ swap' = [swap EXCEPT ![n].fate = f]
       /\ allowance' = IF f = "mined" /\ q.side = "sell"
                         THEN [allowance EXCEPT ![q.wallet] = @ - q.amount] ELSE allowance
  /\ UNCHANGED <<active, ui, snapshot, op, turns>>

\* The user connects another wallet or changes its network.
SwitchWallet ==
  /\ turns < MaxTurns /\ turns' = turns + 1
  /\ \/ \E w \in Wallets \ {active.wallet} :
          active' = [active EXCEPT !.wallet = w] /\ snapshot' = None
     \/ active' = [active EXCEPT !.selected = ~@] /\ UNCHANGED snapshot
  /\ Rearm(form, active')
  /\ UNCHANGED <<form, quote, request, status, modal, op, swap, allowance>>

\* The page is left or loaded again.  What runs is forgotten.
Reload ==
  /\ turns < MaxTurns /\ turns' = turns + 1
  /\ form' = [side |-> "buy", amount |-> 0]
  /\ quote' = None /\ request' = None /\ timer' = FALSE
  /\ status' = "idle" /\ modal' = "other"
  /\ snapshot' = None
  /\ op' = None
  /\ UNCHANGED <<active, swap, allowance>>

UserStep ==
  \/ changeAmount \/ changeSlippage \/ changeSide \/ Review \/ Close \/ submit
  \/ SwitchWallet \/ Reload

FlowStep ==
  \/ Refetch \/ requestQuote \/ quoteGraduatedSwap
  \/ ApprovalSent \/ ApprovalConfirmed \/ AllowanceSeen \/ StateRead \/ Send \/ Sent
  \/ Confirmed \/ Refreshed \/ Fails

Next ==
  \/ UserStep \/ FlowStep
  \/ \E n \in DOMAIN swap : Sign(n) \/ IncludeApproval(n) \/ IncludeSwap(n)

Spec == Init /\ [][Next]_vars

-----------------------------------------------------------------------------
(* Properties. *)

Quote == [side : Sides, amount : Amounts, wallet : Wallets, late : BOOLEAN]
Submissions == [side : Sides, amount : Amounts, wallet : Wallets, asShown : BOOLEAN,
                approved : 0..MaxAmount, approval : Fates, fate : Fates]
Operations == [at : {"approve", "approving", "poll", "read", "simulate", "wallet", "receipt",
                     "refresh"},
               wallet : Wallets, side : Sides, quote : Quote]

\* Every variable keeps its shape, and no allowance exceeds what was offered.
TypeOK ==
  /\ active \in [wallet : Wallets, selected : BOOLEAN]
  /\ form \in [side : Sides, amount : 0..MaxAmount]
  /\ quote \in Quote \cup {None} /\ request \in Terms \cup {None} /\ timer \in BOOLEAN
  /\ status \in {"idle", "quoting", "asking", "waiting", "confirmed", "failed"}
  /\ modal \in {"review", "busy", "other"}
  /\ snapshot \in (0..MaxAmount) \cup {None}
  /\ op \in Operations \cup {None}
  /\ swap \in Seq(Submissions) /\ Len(swap) <= MaxSwaps
  /\ allowance \in [Wallets -> 0..MaxAmount]
  /\ turns \in 0..MaxTurns

\* What the wallet is asked to sign, approval and swap, is what the form showed
\* when the swap was confirmed, through every change of side, amount, slippage,
\* wallet and network, unless the quote had been asked for on other terms and its
\* answer came late: such an answer the code takes (graduated-token-swap.tsx:54),
\* and nothing is promised of what is sent on it.
SentAsShown ==
  \A n \in DOMAIN swap : swap[n].asShown

\* What makes both inductive: the timer is set for an amount, and the quote on the
\* page is that of the form.
TimerHasAmount == timer => form.amount # 0

QuoteShown ==
  quote # None => quote.late \/ (form.side = quote.side /\ form.amount = quote.amount)

IInv == TypeOK /\ TimerHasAmount /\ QuoteShown /\ SentAsShown

\* An allowance left with the router is that of an approval whose sale has not
\* been mined: no completed sale leaves one, in whatever order approvals and
\* sales of several submissions are mined.
NoIdleAllowance ==
  \A w \in Wallets : allowance[w] > 0 =>
    \E n \in DOMAIN swap : /\ swap[n].wallet = w /\ swap[n].approval = "mined"
                           /\ ~(swap[n].fate = "mined" /\ swap[n].side = "sell")
=============================================================================
