--------------------------- MODULE TokenCreation ---------------------------
(***************************************************************************)
(* Creating a token on the web (components/create-token-form.tsx, the      *)
(* flow of app/create/page.tsx and lib/dev-buy.ts).  A submission stores a *)
(* metadata draft, asks the wallet for the factory call, waits for its     *)
(* receipt, asks the API to finalise the draft until the indexer has the   *)
(* launch, and then, if wanted, buys on the new curve.  A purchase that    *)
(* fails may be tried again from the form.                                 *)
(*                                                                         *)
(* The flow belongs to no component: when its page is left it runs on with *)
(* nobody to report to, and the page opened next has a lock of its own.    *)
(* Whether an error reads as a rejection is wording: a status and its      *)
(* `rejected' form are one here.                                           *)
(***************************************************************************)
EXTENDS Naturals, Sequences

CONSTANTS
  None,
  MaxLaunches,   (* bound: submissions                                      *)
  MaxBuys,       (* bound: purchases asked of the wallet                    *)
  MaxAttempts,   (* attempts to finalise a draft: 60 in the code            *)
  MaxTurns       (* bound: pages left or loaded again, changes of wallet or
                    network, and edits after the first submission           *)

ASSUME CreationAssumption ==
  /\ MaxLaunches \in Nat /\ MaxBuys \in Nat
  /\ MaxAttempts \in Nat \ {0} /\ MaxTurns \in Nat
  /\ None \notin Nat /\ None \notin [launch : Nat, retryable : BOOLEAN]

VARIABLES
  ready,       (* a wallet is connected on the selected network             *)
  page,        (* the number of the form now mounted                        *)
  input, review, modal, status,
  result,      (* the launch shown as created, or None                      *)
  failure,     (* devBuyFailure: its launch and whether it may be retried   *)
  launches,    (* every submission: its flow, its transaction, its draft    *)
  buys,        (* every purchase asked of the wallet                        *)
  turns

ui == <<input, review, modal, status, result, failure>>
vars == <<ready, page, ui, launches, buys, turns>>

Values == {"none", "ok", "bad"}
Inputs == [text : {"ok", "bad"}, file : Values, url : Values, source : {"file", "url"},
           devBuy : Values]

Empty == [text |-> "bad", file |-> "none", url |-> "none", source |-> "file", devBuy |-> "none"]

Stages == {"upload", "simulate", "wallet", "confirm", "finalize", "buy_read", "buy_wallet",
           "buy_confirm", "ended"}

BusyStatus == {"preparing", "awaiting_wallet", "confirming",
               "dev_buy_preparing", "dev_buy_awaiting_wallet", "dev_buy_confirming"}
Statuses == BusyStatus \cup {"idle", "confirmed", "failed", "dev_buy_confirmed", "dev_buy_failed"}

Ended == {"mined", "reverted", "replaced", "repriced"}
Fates == {"none", "open", "live"} \cup Ended

pending == status \in BusyStatus

\* The form's lock, submissionRef: a flow or a retry of this page runs.
Running == {n \in DOMAIN launches : launches[n].at # "ended" /\ launches[n].page = page}
Locked == Running # {}

-----------------------------------------------------------------------------
(* The form. *)

\* createModalPhase, and the effect that opens the modal at a new status.
Phase(s) == IF s \in BusyStatus THEN "busy" ELSE "other"

Shows(s) ==
  /\ status' = s
  /\ modal' = IF s # "idle" /\ s # status THEN Phase(s) ELSE modal

\* A report of launch n's flow: nobody listens once its page is left.
Report(n, s) == IF launches[n].page = page THEN Shows(s) ELSE UNCHANGED <<status, modal>>

\* validateCreateToken.
validateCreateToken(i) ==
  /\ i.text = "ok" /\ i.devBuy # "bad"
  /\ IF i.source = "file" THEN i.file = "ok" ELSE i.url = "ok"

Init ==
  /\ ready \in BOOLEAN
  /\ page = 0
  /\ input = Empty /\ review = FALSE /\ modal = "closed" /\ status = "idle"
  /\ result = None /\ failure = None
  /\ launches = <<>> /\ buys = <<>>
  /\ turns = 0

Turn == turns < MaxTurns /\ turns' = turns + 1

Edited(i) ==
  /\ ~review /\ ~pending
  /\ i # input /\ input' = i
  /\ IF launches = <<>> THEN UNCHANGED turns ELSE Turn
  /\ UNCHANGED <<ready, page, review, modal, status, result, failure, launches, buys>>

\* A file replaces an image URL, and an image URL a file.
update ==
  \E v \in Values :
    \/ v # "none" /\ Edited([input EXCEPT !.text = v])
    \/ Edited([input EXCEPT !.devBuy = v])
    \/ input.source = "file" /\ Edited([input EXCEPT !.file = v, !.url = "none"])
    \/ input.source = "url" /\ Edited([input EXCEPT !.url = v, !.file = "none"])

\* Another source with the images kept.
switchSourceOnly ==
  \E s \in {"file", "url"} : Edited([input EXCEPT !.source = s])

switchImageSource ==
  \E s \in {"file", "url"} :
    Edited([input EXCEPT !.source = s, !.file = IF s = "file" THEN @ ELSE "none",
                         !.url = IF s = "url" THEN @ ELSE "none"])

openReview ==
  /\ ~review /\ ~pending
  /\ validateCreateToken(input)
  /\ review' = TRUE
  /\ UNCHANGED <<ready, page, input, modal, status, result, failure, launches, buys, turns>>

Edit ==
  /\ review /\ ~pending
  /\ review' = FALSE
  /\ UNCHANGED <<ready, page, input, modal, status, result, failure, launches, buys, turns>>

AskConfirm ==
  /\ review /\ ~pending /\ ready
  /\ modal # "review" /\ modal' = "review"
  /\ UNCHANGED <<ready, page, input, review, status, result, failure, launches, buys, turns>>

Close ==
  /\ modal \in {"review", "other"} /\ modal' = "closed"
  /\ UNCHANGED <<ready, page, input, review, status, result, failure, launches, buys, turns>>

Launch ==
  [page |-> page, at |-> "upload", buys |-> input.devBuy = "ok", attempts |-> 0,
   retry |-> FALSE, fate |-> "none", draft |-> "none", indexed |-> FALSE]

\* The modal is confirmed.  The form may be back at editing by then, and the wallet
\* may have gone; the flow takes the input as it is.
submit ==
  /\ modal = "review" /\ ~Locked
  /\ UNCHANGED <<ready, page, input, buys, turns>>
  /\ IF ~validateCreateToken(input)
       THEN review /\ review' = FALSE /\ UNCHANGED <<modal, status, result, failure, launches>>
       ELSE /\ ready /\ Len(launches) < MaxLaunches
            /\ result' = None /\ failure' = None
            /\ launches' = Append(launches, Launch)
            /\ Shows("preparing")
            /\ UNCHANGED review

-----------------------------------------------------------------------------
(* The flow of a launch, execute: each step ends at the next await. *)

Rest == UNCHANGED <<ready, page, input, review, turns>>
Quiet == UNCHANGED <<result, failure, buys>> /\ Rest

Goto(n, at, s) == launches' = [launches EXCEPT ![n].at = at] /\ Report(n, s)

\* An error ends the flow with nothing to show as created.
RejectsSilently(n) ==
  /\ launches' = [launches EXCEPT ![n].at = "ended"]
  /\ UNCHANGED <<status, modal>>

Rejects(n) == Goto(n, "ended", "failed")

\* The flow ends with the launch shown, and what is left of its purchase.
Created(n, left, s) ==
  /\ Report(n, s)
  /\ IF launches[n].page = page THEN result' = n /\ failure' = left
     ELSE UNCHANGED <<result, failure>>

uploadMetadata(n) ==
  /\ launches[n].at = "upload"
  /\ launches' = [launches EXCEPT ![n].at = "simulate", ![n].draft = "stored"]
  /\ Report(n, "awaiting_wallet")
  /\ Quiet

\* The factory call is simulated, and the wallet asked to sign it.
submitCreateToken(n) ==
  /\ launches[n].at = "simulate"
  /\ launches' = [launches EXCEPT ![n].at = "wallet", ![n].fate = "open"]
  /\ UNCHANGED <<status, modal>>
  /\ Quiet

Submitted(n) ==
  /\ launches[n].at = "wallet" /\ launches[n].fate \notin {"none", "open"}
  /\ Goto(n, "confirm", "confirming")
  /\ Quiet

\* The receipt of the transaction, or of one that replaced it, has the event of
\* exactly one launch.
parseTokenLaunchedReceipt(n) == launches[n].fate \in {"mined", "repriced"}

confirmCreatedToken(n) ==
  /\ launches[n].at = "confirm" /\ parseTokenLaunchedReceipt(n)
  /\ Goto(n, "finalize", "confirming")
  /\ Quiet

\* The API finds a launch in the index by the hash the wallet returned, which a
\* repriced transaction does not have.
Finalizable(n) == launches[n].indexed /\ launches[n].fate = "mined"

\* The attempts are over, and the launch is shown or its purchase begins.
Finalized(n, draft) ==
  IF launches[n].buys
    THEN /\ launches' = [launches EXCEPT ![n].at = "buy_read", ![n].draft = draft]
         /\ Report(n, "dev_buy_preparing")
         /\ UNCHANGED <<result, failure>>
    ELSE /\ launches' = [launches EXCEPT ![n].at = "ended", ![n].draft = draft]
         /\ Created(n, None, "confirmed")

\* One more attempt finds nothing.  The last one ends the flow.
NotIndexed(n) ==
  /\ launches[n].attempts + 1 < MaxAttempts
  /\ launches' = [launches EXCEPT ![n].attempts = @ + 1]
  /\ UNCHANGED <<status, modal, result, failure>>

\* A last attempt taken for a success.
GivesUpQuietly(n) ==
  \/ NotIndexed(n)
  \/ launches[n].attempts + 1 = MaxAttempts /\ Finalized(n, launches[n].draft)

GivesUp(n) ==
  \/ NotIndexed(n)
  \/ /\ launches[n].attempts + 1 = MaxAttempts
     /\ Rejects(n) /\ UNCHANGED <<result, failure>>

finalizeMetadata(n) ==
  /\ launches[n].at = "finalize"
  /\ \/ Finalizable(n) /\ Finalized(n, "final")
     \/ /\ Finalizable(n)                        \* the answer is lost
        /\ launches' = [launches EXCEPT ![n].at = "ended", ![n].draft = "final"]
        /\ Report(n, "failed")
        /\ UNCHANGED <<result, failure>>
     \/ ~Finalizable(n) /\ GivesUp(n)
  /\ UNCHANGED buys /\ Rest

\* Any call fails up to the metadata, or the receipt is not of a launch.
Fails(n) ==
  /\ launches[n].at \in {"upload", "simulate", "wallet", "confirm", "finalize"}
  /\ Rejects(n)
  /\ Quiet

-----------------------------------------------------------------------------
(* The purchase: executeDevBuy, first from the flow, then from retryDevBuy. *)

BuysOf(n) == {b \in DOMAIN buys : buys[b].launch = n}
LastBuy(n) == CHOOSE b \in BuysOf(n) : \A c \in BuysOf(n) : c <= b

\* State, quote and simulation are done, and the wallet is asked.
submitBuy(n) ==
  /\ launches[n].at = "buy_read" /\ Len(buys) < MaxBuys
  /\ buys' = Append(buys, [launch |-> n, retry |-> launches[n].retry, known |-> FALSE,
                           fate |-> "open"])
  /\ Goto(n, "buy_wallet", "dev_buy_awaiting_wallet")
  /\ UNCHANGED <<result, failure>> /\ Rest

BuySubmitted(n) ==
  /\ launches[n].at = "buy_wallet" /\ buys[LastBuy(n)].fate \notin {"none", "open"}
  /\ buys' = [buys EXCEPT ![LastBuy(n)].known = TRUE]
  /\ Goto(n, "buy_confirm", "dev_buy_confirming")
  /\ UNCHANGED <<result, failure>> /\ Rest

BuyConfirmed(n) ==
  /\ launches[n].at = "buy_confirm" /\ buys[LastBuy(n)].fate = "mined"
  /\ launches' = [launches EXCEPT ![n].at = "ended"]
  /\ Created(n, None, IF launches[n].retry THEN "dev_buy_confirmed" ELSE "confirmed")
  /\ UNCHANGED buys /\ Rest

\* A failed purchase may be tried again if no hash is known or it has reverted.
AlwaysRetryable(n) == TRUE
Retryable(n) == launches[n].at # "buy_confirm" \/ buys[LastBuy(n)].fate = "reverted"

DevBuyFailure(n, r) == [launch |-> n, retryable |-> r]

\* A call fails, the wallet refuses or says nothing certain, or the receipt is of a
\* reverted purchase, of another transaction, or not there in time.  A retry that
\* fails leaves the failure it began from.
BuyFails(n) ==
  /\ launches[n].at \in {"buy_read", "buy_wallet", "buy_confirm"}
  /\ launches' = [launches EXCEPT ![n].at = "ended"]
  /\ IF launches[n].retry
       THEN Report(n, "dev_buy_failed") /\ UNCHANGED <<result, failure>>
       ELSE \E r \in {Retryable(n), FALSE}, s \in {"dev_buy_failed", "dev_buy_confirming"} :
              /\ ~r => launches[n].at = "buy_confirm"
              /\ r => s = "dev_buy_failed"
              /\ Created(n, DevBuyFailure(n, r), s)
  /\ UNCHANGED buys /\ Rest

retryDevBuy ==
  /\ failure # None /\ failure.retryable /\ result # None
  /\ ~pending /\ ~Locked
  /\ launches' = [launches EXCEPT ![failure.launch].at = "buy_read",
                                  ![failure.launch].retry = TRUE]
  /\ Shows("dev_buy_preparing")
  /\ Quiet

-----------------------------------------------------------------------------
(* Wallet, chain, indexer and page. *)

\* A request may be signed or refused whatever has become of its flow.
Sign ==
  /\ \/ \E n \in DOMAIN launches, f \in {"live", "none"} :
          /\ launches[n].fate = "open"
          /\ launches' = [launches EXCEPT ![n].fate = f] /\ UNCHANGED buys
     \/ \E b \in DOMAIN buys, f \in {"live", "none"} :
          /\ buys[b].fate = "open"
          /\ buys' = [buys EXCEPT ![b].fate = f] /\ UNCHANGED launches
  /\ UNCHANGED <<ready, page, ui, turns>>

Include ==
  /\ \/ \E n \in DOMAIN launches, f \in Ended :
          /\ launches[n].fate = "live"
          /\ launches' = [launches EXCEPT ![n].fate = f] /\ UNCHANGED buys
     \/ \E b \in DOMAIN buys, f \in Ended :
          /\ buys[b].fate = "live"
          /\ buys' = [buys EXCEPT ![b].fate = f] /\ UNCHANGED launches
  /\ UNCHANGED <<ready, page, ui, turns>>

Index(n) ==
  /\ parseTokenLaunchedReceipt(n) /\ ~launches[n].indexed
  /\ launches' = [launches EXCEPT ![n].indexed = TRUE]
  /\ UNCHANGED <<ready, page, ui, buys, turns>>

SwitchWallet ==
  /\ Turn
  /\ ready' = ~ready
  /\ UNCHANGED <<page, ui, launches, buys>>

\* The page is left for another of the site, where flows run on, or loaded again,
\* which ends them.  The form opened next is empty.
Leave ==
  /\ Turn
  /\ page' = page + 1
  /\ launches' \in {launches, [n \in DOMAIN launches |-> [launches[n] EXCEPT !.at = "ended"]]}
  /\ input' = Empty /\ review' = FALSE /\ modal' = "closed" /\ status' = "idle"
  /\ result' = None /\ failure' = None
  /\ UNCHANGED <<ready, buys>>

UserStep ==
  \/ update \/ switchImageSource \/ openReview \/ Edit \/ AskConfirm \/ Close
  \/ submit \/ retryDevBuy \/ SwitchWallet \/ Leave

FlowStep(n) ==
  \/ uploadMetadata(n) \/ submitCreateToken(n) \/ Submitted(n) \/ confirmCreatedToken(n)
  \/ finalizeMetadata(n) \/ Fails(n)
  \/ submitBuy(n) \/ BuySubmitted(n) \/ BuyConfirmed(n) \/ BuyFails(n)
  \/ Index(n)

Next == UserStep \/ Sign \/ Include \/ \E n \in DOMAIN launches : FlowStep(n)

Spec == Init /\ [][Next]_vars

-----------------------------------------------------------------------------
(* Properties. *)

LaunchRecord ==
  [page : 0..MaxTurns, at : Stages, buys : BOOLEAN, retry : BOOLEAN,
   attempts : 0..MaxAttempts - 1, fate : Fates, draft : {"none", "stored", "final"},
   indexed : BOOLEAN]

BuyRecord == [launch : DOMAIN launches, retry : BOOLEAN, known : BOOLEAN, fate : Fates]

\* Every variable keeps its shape, and a form holds no image of the source that
\* is not selected.
TypeOK ==
  /\ ready \in BOOLEAN /\ page \in 0..MaxTurns /\ turns \in 0..MaxTurns
  /\ input \in Inputs
  /\ IF input.source = "file" THEN input.url = "none" ELSE input.file = "none"
  /\ review \in BOOLEAN /\ modal \in {"closed", "review", "busy", "other"}
  /\ status \in Statuses
  /\ result \in DOMAIN launches \cup {None}
  /\ failure = None \/ failure \in [launch : DOMAIN launches, retryable : BOOLEAN]
  /\ launches \in Seq(LaunchRecord) /\ Len(launches) <= MaxLaunches
  /\ buys \in Seq(BuyRecord) /\ Len(buys) <= MaxBuys

\* A launch shown as created is mined, indexed and has its metadata, and one that
\* wanted a purchase and shows success has a mined one, through every retry and
\* whatever flows of pages left behind still run.
SuccessIsReal ==
  /\ result # None => /\ launches[result].fate = "mined" /\ launches[result].indexed
                      /\ launches[result].draft = "final"
  /\ status \in {"confirmed", "dev_buy_confirmed"} =>
       /\ result # None /\ failure = None
       /\ launches[result].buys => \E b \in BuysOf(result) : buys[b].fate = "mined"

\* A purchase follows another of the same launch only when that one is known to have
\* reverted, unless the wallet gave no hash for it, or it was a retry itself.
RetryWaitsForReceipt ==
  \A b \in DOMAIN buys : \A c \in BuysOf(buys[b].launch) :
    b < c /\ buys[b].known /\ ~buys[b].retry => buys[b].fate = "reverted"

\* "does not allow retry while a submitted receipt remains unknown"
\* (lib/dev-buy.test.ts:54), of every purchase.
NoRetryWhileUnknown ==
  \A b \in DOMAIN buys : \A c \in BuysOf(buys[b].launch) :
    b < c /\ buys[b].known => buys[b].fate # "live"

\* The form is disabled exactly while a flow of this page runs, but for a first
\* purchase whose receipt is not definitive, which leaves it disabled until the page
\* is left; and as long as it is disabled its modal cannot be closed.
DisabledWhileRunning ==
  /\ pending <=> \/ Locked
                 \/ status = "dev_buy_confirming" /\ failure # None /\ ~failure.retryable
  /\ pending => modal = "busy"
=============================================================================
