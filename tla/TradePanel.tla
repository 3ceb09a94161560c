----------------------------- MODULE TradePanel -----------------------------
(***************************************************************************)
(* The trade panel of one token before graduation                          *)
(* (components/token-trade-panel.tsx, with the flow of token-trading.tsx   *)
(* and contracts.ts), open in several tabs that share the browser's        *)
(* storage.  A record in the storage blocks further trades of its wallet   *)
(* from the moment a trade is prepared until the trade is known to have    *)
(* ended.                                                                  *)
(*                                                                         *)
(* Data is reduced to what the flow tells apart.  A trade is a submission; *)
(* `about' in a record or a shown hash names the submission it came from.  *)
(* Statuses are `open' (a trade may be submitted), `busy' (an operation    *)
(* is running) and `unknown' (confirmation_unknown).  An operation that    *)
(* began before the panel's last change of wallet is not `current': the    *)
(* code compares generations.  Time is left out: wherever the code compares*)
(* a quote with the clock or the curve's state, both answers are possible. *)
(***************************************************************************)
EXTENDS Naturals, FiniteSets

CONSTANTS
  Wallets,
  Panels,        (* tabs, or mounted and unmounted instances in one tab     *)
  Trades,        (* bound: submissions                                      *)
  None,
  MaxTurns       (* bound: changes of wallet, reloads and tabs traded in    *)

ASSUME PanelAssumption ==
  /\ IsFiniteSet(Panels)
  /\ None \notin Trades
  /\ MaxTurns \in Nat

VARIABLES
  record,    (* localStorage: the pending trade of each wallet              *)
  ui,        (* state and refs of each panel                                *)
  op,        (* each submission: who makes it and how far it is             *)
  rec,       (* each panel's running check or resumption                    *)
  fate,      (* what became of each trade: wallet request and transaction   *)
  lost,      (* history: why an unresolved trade's record went away         *)
  late,      (* history: a report of an outdated operation reached the refs *)
  captured,  (* history: trades whose provenance has been stored            *)
  acted,     (* history: panels the user has traded, checked or abandoned in*)
  switches, reloads

history == <<lost, late, captured, acted>>
vars == <<record, ui, op, rec, fate, history, switches, reloads>>

Hashes == {"none", "approval", "sent"}
Record == [about : Trades, side : {"buy", "sell"}, hash : Hashes, from : Trades \cup {None}]
Shown == [about : Trades, hash : {"approval", "sent"}]
Phases == {"unused", "prepare", "approve", "approving", "sell", "wallet",
           "sent", "confirm", "done"}
Fates == {"none", "open", "live", "mined", "reverted", "replaced", "refused"}
Ended == {"mined", "reverted", "replaced"}

-----------------------------------------------------------------------------
(* Storage and its history. *)

Running(t) == op[t].phase \notin {"unused", "done"}
Outstanding(t) == fate[t] \in {"open", "live"}

\* Trades of a wallet that are unresolved and have the wallet's record.
Recorded(w) == {t \in Trades : /\ op[t].wallet = w
                               /\ (Running(t) /\ fate[t] = "none") \/ Outstanding(t)
                               /\ record[w] # None /\ record[w].about = t}

\* The record is written; a record of another trade is lost to this cause.
Write(w, r, cause) ==
  /\ record' = [record EXCEPT ![w] = r]
  /\ lost' = [t \in Trades |->
                IF lost[t] = "no" /\ t \in Recorded(w) \ {r.about} THEN cause
                ELSE lost[t]]
  /\ captured' = IF r.from = r.about /\ Outstanding(r.about) THEN captured \cup {r.about} ELSE captured

\* persist and persistHashlessUnknown.
Persist(w, r) == Write(w, r, "crossed")

\* clearPendingTrade, by an operation of trade t that has cause to clear t's
\* record; the record of another trade is crossed.
Clear(w, t, cause) ==
  /\ record' = [record EXCEPT ![w] = None]
  /\ lost' = [u \in Trades |->
                IF lost[u] # "no" \/ u \notin Recorded(w) THEN lost[u]
                ELSE IF u = t THEN cause ELSE "crossed"]
  /\ UNCHANGED captured

Keep == UNCHANGED <<record, lost, captured>>

\* Bound: a second tab weighs as much as two changes of wallet or reloads.
Turns == switches + reloads + 2 * Cardinality(acted)
MayTurn(p) == p \in acted /\ Turns < MaxTurns
Acts(p) == (p \in acted \/ Turns + 2 <= MaxTurns) /\ acted' = acted \cup {p}

Hashless(t, side) == [about |-> t, side |-> side, hash |-> "none", from |-> None]
Approval(t) == [about |-> t, hash |-> "approval"]
Sent(t) == [about |-> t, hash |-> "sent"]
WithHash(h, side, from) == [about |-> h.about, side |-> side, hash |-> h.hash, from |-> from]

-----------------------------------------------------------------------------
(* A panel. *)

\* A record's hash, taken to be always there.
HashAnyway(r) == IF r = None THEN None ELSE [about |-> r.about, hash |-> r.hash]

HashOf(r) == IF r = None \/ r.hash = "none" THEN None
             ELSE [about |-> r.about, hash |-> r.hash]

\* A stored record counts if it passes isPendingTrade.
readPendingTrade(w) == IF record[w] \in Record THEN record[w] ELSE None

\* What a panel knows when it is mounted and when its wallet has changed.
ReadBy(w) ==
  LET r == readPendingTrade(w) IN
  [wallet |-> w,
   side |-> IF r = None THEN "buy" ELSE r.side,
   lock |-> IF r = None THEN "open" ELSE "unknown",
   shown |-> HashOf(r),
   submitted |-> HashOf(r),
   recovery |-> IF r = None THEN None ELSE r.from,
   approval |-> None, asked |-> FALSE, operation |-> FALSE, quote |-> FALSE]

\* The operations of a panel when its identity effect runs: outdated.
Outdated(p) ==
  /\ op' = [t \in Trades |-> IF op[t].panel = p THEN [op[t] EXCEPT !.current = FALSE]
                             ELSE op[t]]
  /\ rec' = [rec EXCEPT ![p] = IF @ = None THEN None ELSE [@ EXCEPT !.current = FALSE]]

Init ==
  /\ record = [w \in Wallets |-> None]
  /\ \E w \in Wallets : ui = [p \in Panels |-> ReadBy(w)]
  /\ op = [t \in Trades |-> [phase |-> "unused", panel |-> None, wallet |-> None,
                             side |-> "buy", current |-> FALSE, from |-> None]]
  /\ rec = [p \in Panels |-> None]
  /\ fate = [t \in Trades |-> "none"]
  /\ lost = [t \in Trades |-> "no"]
  /\ late = FALSE /\ captured = {} /\ acted = {}
  /\ switches = 0 /\ reloads = 0

\* Changes of wallet that leave the status, or the submitted hash.
SwitchKeepingLock(p) ==
  /\ MayTurn(p)
  /\ \E w \in Wallets \ {ui[p].wallet} :
       ui' = [ui EXCEPT ![p] = [ReadBy(w) EXCEPT !.lock = ui[p].lock]]
  /\ Outdated(p)
  /\ switches' = switches + 1
  /\ UNCHANGED <<record, fate, history, reloads>>

SwitchKeepingHash(p) ==
  /\ MayTurn(p)
  /\ \E w \in Wallets \ {ui[p].wallet} :
       ui' = [ui EXCEPT ![p] = [ReadBy(w) EXCEPT !.submitted = ui[p].submitted]]
  /\ Outdated(p)
  /\ switches' = switches + 1
  /\ UNCHANGED <<record, fate, history, reloads>>

\* The user connects another wallet in a tab.
SwitchWallet(p) ==
  /\ MayTurn(p)
  /\ \E w \in Wallets \ {ui[p].wallet} : ui' = [ui EXCEPT ![p] = ReadBy(w)]
  /\ Outdated(p)
  /\ switches' = switches + 1
  /\ UNCHANGED <<record, fate, history, reloads>>

\* A tab is loaded again: its operations are gone, its wallet requests are not.
Reload(p) ==
  /\ MayTurn(p)
  /\ ui' = [ui EXCEPT ![p] = ReadBy(ui[p].wallet)]
  /\ op' = [t \in Trades |-> IF op[t].panel = p THEN [op[t] EXCEPT !.phase = IF @ = "unused" THEN @ ELSE "done",
                                                  !.current = FALSE, !.from = None]
                             ELSE op[t]]
  /\ rec' = [rec EXCEPT ![p] = None]
  /\ reloads' = reloads + 1
  /\ UNCHANGED <<record, fate, history, switches>>

-----------------------------------------------------------------------------
(* Quotes. *)

SetQuote(p, ready) ==
  /\ ui[p].lock = "open" /\ ui[p].quote # ready
  /\ ui' = [ui EXCEPT ![p].quote = ready]
  /\ UNCHANGED <<record, op, rec, fate, history, switches, reloads>>

\* A quote is asked for and answered: only the last request's answer counts, if
\* wallet, network and curve are still those it was asked for.  Bound: none once
\* every submission is used.
getQuote(p) == (\E t \in Trades : op[t].phase = "unused") /\ SetQuote(p, TRUE)

\* The amount or slippage is changed, or the quote has expired or is for another
\* state of the curve.
invalidateQuote(p) == SetQuote(p, FALSE)

changeSide(p) ==
  /\ ui[p].lock = "open"
  /\ \E side \in {"buy", "sell"} \ {ui[p].side} :
       ui' = [ui EXCEPT ![p].side = side, ![p].quote = FALSE, ![p].shown = None]
  /\ UNCHANGED <<record, op, rec, fate, history, switches, reloads>>

-----------------------------------------------------------------------------
(* Submission. *)

\* submit up to its first await.  The lock is stored; a purchase has already
\* reported that the wallet is being asked.
Begin(p, t) ==
  /\ ~ui[p].operation /\ ui[p].lock = "open" /\ ui[p].quote
  /\ op[t].phase = "unused"
  /\ Write(ui[p].wallet, Hashless(t, ui[p].side), "no")
  /\ ui' = [ui EXCEPT ![p].lock = "busy", ![p].operation = TRUE,
                      ![p].approval = None, ![p].asked = (ui[p].side = "buy")]
  /\ op' = [op EXCEPT ![t] = [phase |-> "prepare", panel |-> p, wallet |-> ui[p].wallet,
                              side |-> ui[p].side, current |-> TRUE, from |-> None]]
  /\ Acts(p)
  /\ UNCHANGED <<rec, fate, late, switches, reloads>>

\* A submission that does not look for another one's record.
BeginAnyway(p) == \E t \in Trades : Begin(p, t)

\* The record of another tab or an earlier session blocks: it is adopted,
\* without its provenance.
submit(p) ==
  LET r == readPendingTrade(ui[p].wallet) IN
  \/ r = None /\ \E t \in Trades : Begin(p, t)
  \/ /\ r # None
     /\ ~ui[p].operation /\ ui[p].lock = "open" /\ ui[p].quote
     /\ ui' = [ui EXCEPT ![p].lock = "unknown", ![p].side = r.side,
                         ![p].shown = HashOf(r), ![p].submitted = HashOf(r)]
     /\ Acts(p)
     /\ UNCHANGED <<record, op, rec, fate, lost, late, captured, switches, reloads>>

\* assertSubmissionReady: the wallet is the one the trade was submitted for.
Ready(t) == ui[op[t].panel].wallet = op[t].wallet

At(t, phases) == op[t].phase \in phases
End(t) == op' = [op EXCEPT ![t].phase = "done", ![t].current = FALSE, ![t].from = None]
Goto(t, phase) == op' = [op EXCEPT ![t].phase = phase]

\* report: the refs of the panel are written in any case, the status and the
\* hash it shows only by a current operation.
report(t, refs, hash) ==
  /\ ui' = [ui EXCEPT ![op[t].panel] =
              IF op[t].current
                THEN [refs EXCEPT !.lock = "busy", !.shown = IF hash = None THEN @ ELSE hash]
                ELSE refs]
  /\ late' = (late \/ (refs # ui[op[t].panel] /\ ~op[t].current))
  /\ UNCHANGED <<rec, acted, switches, reloads>>

Refs(t) == ui[op[t].panel]

\* The allowance is too small: the wallet is asked to approve, and then has
\* sent the approval.
AskApproval(t) ==
  /\ At(t, {"prepare"}) /\ op[t].side = "sell" /\ Ready(t)
  /\ Goto(t, "approve")
  /\ report(t, [Refs(t) EXCEPT !.asked = TRUE], None)
  /\ Keep /\ UNCHANGED fate

ApprovalSubmitted(t) ==
  /\ At(t, {"approve"})
  /\ Goto(t, "approving")
  /\ report(t, [Refs(t) EXCEPT !.approval = Approval(t)], Approval(t))
  /\ Keep /\ UNCHANGED fate

\* Its receipt has come; what follows are reads, until the allowance is seen.
ApprovalConfirmed(t) ==
  /\ At(t, {"approving"}) /\ Ready(t)
  /\ Goto(t, "sell")
  /\ report(t, Refs(t), None)
  /\ Keep /\ UNCHANGED fate

\* submitBuy, submitSell: simulated and still ready, the trade goes to the
\* wallet.  From here on it may be signed, whatever becomes of the page.
AskWallet(t) ==
  /\ At(t, {"prepare", "sell"}) /\ Ready(t)
  /\ Goto(t, "wallet")
  /\ fate' = [fate EXCEPT ![t] = "open"]
  /\ report(t, Refs(t), None)
  /\ Keep

\* The wallet has answered with a hash.
Submitted(t) ==
  /\ At(t, {"wallet"}) /\ fate[t] \in {"live"} \cup Ended
  /\ Goto(t, "sent")
  /\ Persist(op[t].wallet, WithHash(Sent(t), op[t].side, Refs(t).recovery))
  /\ report(t, [Refs(t) EXCEPT !.submitted = Sent(t)], Sent(t))
  /\ UNCHANGED fate

\* captureTradeRecovery has answered, with the transaction's provenance or
\* without.
Confirming(t) ==
  /\ At(t, {"sent"})
  /\ \E from \in {t, None} :
       LET known == IF from = None THEN Refs(t).recovery ELSE from IN
       /\ op' = [op EXCEPT ![t].phase = "confirm", ![t].from = from]
       /\ Persist(op[t].wallet, WithHash(Sent(t), op[t].side, known))
       /\ report(t, [Refs(t) EXCEPT !.submitted = Sent(t), !.recovery = known], Sent(t))
  /\ UNCHANGED fate

-----------------------------------------------------------------------------
(* The end of an operation. *)

\* The receipt of a mined trade has the one event of its side, which names its
\* wallet.
parseTradeReceipt(t, side, w) == op[t].side = side /\ op[t].wallet = w

\* What confirmTrade and checkTrade may answer for a hash and a provenance.  A
\* receipt is found by its hash and checked against side and wallet; a replacement
\* has the sender and nonce of the provenance.  An approval is never a trade, and
\* has succeeded if the trade was asked for.
Answers(h, from, side, w) ==
  LET t == h.about IN
  {"error"} \cup
  IF h.hash = "approval" THEN {"pending"} \cup (IF fate[t] = "none" THEN {"reverted"} ELSE {})
  ELSE CASE fate[t] = "mined" -> IF parseTradeReceipt(t, side, w) THEN {"confirmed"} ELSE {}
         [] fate[t] = "reverted" -> {"reverted"}
         [] fate[t] = "replaced" -> {"pending", "replaced"}
         [] OTHER -> {"pending"} \cup
              (IF from \notin {t, None} /\ fate[from] \in Ended THEN {"replaced"} ELSE {})

\* A pending answer returns the provenance it was asked with or, asked without,
\* one it has read now.
Provenance(h, from) ==
  IF from # None \/ h.hash = "approval" THEN {from} ELSE {h.about, None}

\* The finally block.
Finished(state, current) == [state EXCEPT !.operation = IF current THEN FALSE ELSE @]

\* A resolution that leaves the submitted hash in its ref.
ResolvedKeepingHash(p, w, h, side, from, answer, current) ==
  IF ui[p].wallet # w \/ answer = "pending" THEN Keep /\ UNCHANGED ui
  ELSE
    /\ Clear(w, h.about, IF from \in {h.about, None} THEN "no" ELSE "crossed")
    /\ ui' = [ui EXCEPT ![p] =
         Finished([@ EXCEPT !.lock = "open", !.shown = h, !.recovery = None,
                            !.quote = FALSE], current)]

\* applyResolution, and the end of the operation.  The wallet is compared, the
\* generation is not.
applyResolution(p, w, h, side, from, answer, current) ==
  IF ui[p].wallet # w THEN Keep /\ UNCHANGED ui
  ELSE IF answer = "pending" THEN
    \E next \in Provenance(h, from) :
      /\ Persist(w, WithHash(h, side, next))
      /\ ui' = [ui EXCEPT ![p] =
           Finished([@ EXCEPT !.lock = "unknown", !.shown = h, !.submitted = h,
                              !.recovery = next], current)]
  ELSE
    /\ Clear(w, h.about, IF from \in {h.about, None} THEN "no" ELSE "crossed")
    /\ ui' = [ui EXCEPT ![p] =
         Finished([@ EXCEPT !.lock = "open", !.shown = h, !.submitted = None,
                            !.recovery = None, !.quote = FALSE], current)]

\* submit's catch and finally.
catch(t, definitive) ==
  LET p == op[t].panel  w == op[t].wallet  s == ui[op[t].panel]  IN
  IF ~op[t].current THEN Keep /\ UNCHANGED ui
  ELSE IF s.submitted # None THEN
    /\ Persist(w, WithHash(s.submitted, op[t].side, s.recovery))
    /\ ui' = [ui EXCEPT ![p] = Finished([s EXCEPT !.lock = "unknown",
                                                  !.shown = s.submitted], TRUE)]
  ELSE IF ~definitive /\ (s.approval # None \/ s.asked) THEN
    /\ Persist(w, Hashless(t, op[t].side))
    /\ ui' = [ui EXCEPT ![p] =
         Finished([s EXCEPT !.lock = "unknown",
                            !.shown = IF s.approval = None THEN @ ELSE s.approval], TRUE)]
  ELSE
    /\ Clear(w, t, IF definitive THEN "no" ELSE "unseen")
    /\ ui' = [ui EXCEPT ![p] = Finished([s EXCEPT !.lock = "open"], TRUE)]

\* Before the wallet is asked any call may fail, a receipt may not come in
\* time, the approval revert, the quote expire or the wallet change.  The
\* wallet may refuse, and may fail to say what it did or will do.
Fails(t) ==
  /\ \E definitive \in BOOLEAN :
       /\ \/ At(t, {"prepare", "approve", "approving", "sell"})
          \/ At(t, {"wallet"}) /\ (definitive => fate[t] = "refused")
       /\ catch(t, definitive)
  /\ End(t)
  /\ UNCHANGED <<rec, fate, late, acted, switches, reloads>>

Resolves(t) ==
  /\ At(t, {"confirm"})
  /\ \E answer \in Answers(Sent(t), op[t].from, op[t].side, op[t].wallet) :
       IF answer = "error" THEN catch(t, FALSE)
       ELSE applyResolution(op[t].panel, op[t].wallet, Sent(t), op[t].side, op[t].from,
                            answer, op[t].current)
  /\ End(t)
  /\ UNCHANGED <<rec, fate, late, acted, switches, reloads>>

-----------------------------------------------------------------------------
(* Recovery. *)

\* A recovery that stores its hash without the provenance.
RecoverForgetting(p) ==
  LET s == ui[p] IN
  /\ s.lock = "unknown" /\ ~s.operation /\ s.shown # None /\ rec[p] = None
  /\ Write(s.wallet, WithHash(s.shown, s.side, None), "mistaken")
  /\ ui' = [ui EXCEPT ![p].lock = "busy", ![p].operation = TRUE]
  /\ rec' = [rec EXCEPT ![p] = [hash |-> s.shown, side |-> s.side, wallet |-> s.wallet,
                                from |-> s.recovery, current |-> TRUE]]
  /\ Acts(p)
  /\ UNCHANGED <<op, fate, late, switches, reloads>>

\* Check Again and Resume Confirmation ask about the hash that is shown, which
\* may be left from an earlier trade.  Bound: one at a time in a panel.
recover(p) ==
  LET s == ui[p] IN
  /\ s.lock = "unknown" /\ ~s.operation /\ s.shown # None /\ rec[p] = None
  /\ Write(s.wallet, WithHash(s.shown, s.side, s.recovery), "mistaken")
  /\ ui' = [ui EXCEPT ![p].lock = "busy", ![p].operation = TRUE]
  /\ rec' = [rec EXCEPT ![p] = [hash |-> s.shown, side |-> s.side, wallet |-> s.wallet,
                                from |-> s.recovery, current |-> TRUE]]
  /\ Acts(p)
  /\ UNCHANGED <<op, fate, late, switches, reloads>>

\* The answers to either request; Resume waits for the receipt first.
check(r) == Answers(r.hash, r.from, r.side, r.wallet)

RecoverEnds(p) ==
  LET r == rec[p] IN
  /\ r # None
  /\ \E answer \in check(r) :
       IF answer # "error" THEN
         applyResolution(p, r.wallet, r.hash, r.side, r.from, answer, r.current)
       ELSE IF ~r.current THEN Keep /\ UNCHANGED ui
       ELSE /\ Persist(r.wallet, WithHash(r.hash, r.side, ui[p].recovery))
            /\ ui' = [ui EXCEPT ![p] = Finished([@ EXCEPT !.lock = "unknown"], TRUE)]
  /\ rec' = [rec EXCEPT ![p] = None]
  /\ UNCHANGED <<op, fate, late, acted, switches, reloads>>

\* Abandon Pending Trade, confirmed by the user.
abandon(p) ==
  LET w == ui[p].wallet IN
  /\ ui[p].lock = "unknown"
  /\ Clear(w, IF record[w] = None THEN None ELSE record[w].about, "abandoned")
  /\ ui' = [ui EXCEPT ![p] = [@ EXCEPT !.lock = "open", !.operation = FALSE,
              !.asked = FALSE, !.approval = None, !.submitted = None,
              !.recovery = None, !.shown = None, !.quote = FALSE]]
  /\ Acts(p)
  /\ UNCHANGED <<op, rec, fate, late, switches, reloads>>

-----------------------------------------------------------------------------
(* The wallet and the chain. *)

Becomes(t, from, to) ==
  /\ fate[t] = from /\ fate' = [fate EXCEPT ![t] = to]
  /\ UNCHANGED <<record, ui, op, rec, late, acted, switches, reloads>>

\* History about a trade ends with it.
Settles(t) == lost' = [lost EXCEPT ![t] = "no"] /\ captured' = captured \ {t}

Sign(t) == Becomes(t, "open", "live") /\ UNCHANGED <<lost, captured>>
Refuse(t) == Becomes(t, "open", "refused") /\ Settles(t)
Include(t) == \E outcome \in Ended : Becomes(t, "live", outcome) /\ Settles(t)

UserStep(p) ==
  \/ getQuote(p) \/ invalidateQuote(p) \/ changeSide(p) \/ submit(p) \/ recover(p) \/ abandon(p)
  \/ SwitchWallet(p) \/ Reload(p)

OperationStep(t) ==
  \/ AskApproval(t) \/ ApprovalSubmitted(t) \/ ApprovalConfirmed(t) \/ AskWallet(t)
  \/ Submitted(t) \/ Confirming(t) \/ Fails(t) \/ Resolves(t)

Next ==
  \/ \E p \in Panels : UserStep(p) \/ RecoverEnds(p)
  \/ \E t \in Trades : OperationStep(t) \/ Sign(t) \/ Refuse(t) \/ Include(t)

Spec == Init /\ [][Next]_vars

-----------------------------------------------------------------------------
(* Properties. *)

PanelStates ==
  [wallet : Wallets, side : {"buy", "sell"}, lock : {"open", "busy", "unknown"}, shown : Shown \cup {None},
   submitted : Shown \cup {None}, recovery : Trades \cup {None},
   approval : Shown \cup {None}, asked : BOOLEAN, operation : BOOLEAN,
   quote : BOOLEAN]
Operations ==
  [phase : Phases, panel : Panels \cup {None}, wallet : Wallets \cup {None},
   side : {"buy", "sell"}, current : BOOLEAN, from : Trades \cup {None}]
Recoveries ==
  [hash : Shown, side : {"buy", "sell"}, wallet : Wallets, from : Trades \cup {None},
   current : BOOLEAN]

ASSUME NoneAssumption == None \notin Record \cup Shown \cup Recoveries

Causes == {"no", "abandoned", "unseen", "mistaken", "crossed"}

\* Every variable keeps its shape; a stored record of another shape would be
\* discarded by readPendingTrade, and the lock with it.
TypeOK ==
  /\ record \in [Wallets -> Record \cup {None}]
  /\ ui \in [Panels -> PanelStates]
  /\ op \in [Trades -> Operations]
  /\ rec \in [Panels -> Recoveries \cup {None}]
  /\ fate \in [Trades -> Fates]
  /\ lost \in [Trades -> Causes]
  /\ late \in BOOLEAN /\ captured \subseteq Trades /\ acted \subseteq Panels
  /\ switches \in 0..MaxTurns /\ reloads \in 0..MaxTurns

\* Across tabs, reloads, changes of wallet and lost answers: as long as a trade
\* that the wallet has been asked for may still be mined, its wallet's record is
\* about it and blocks the next trade, unless the user abandoned it, an
\* uncertain answer of the wallet was taken for a failure of a sale that needed
\* no approval, a check of an earlier trade's hash was made under its lock, or an
\* operation of another trade wrote over the record.
KeptUntilResolved ==
  \A t \in Trades : Outstanding(t) /\ lost[t] = "no" =>
    record[op[t].wallet] # None /\ record[op[t].wallet].about = t

\* In one tab and with one wallet no operation ever touches the record of
\* another unresolved trade, through reloads, recoveries and abandonments.
OneTab == switches = 0 /\ Cardinality(acted) <= 1
OneTabNeverCrosses == OneTab => \A t \in Trades : lost[t] # "crossed"

\* A panel that shows a running step has a running operation that will end it:
\* no change of wallet, adoption or late answer leaves it locked with nothing
\* to wait for and no button to press.
BusyHasOperation ==
  \A p \in Panels : ui[p].lock = "busy" =>
    \/ \E t \in Trades : op[t].panel = p /\ op[t].current /\ Running(t)
    \/ rec[p] # None /\ rec[p].current

\* A record's transaction was sent by the record's wallet, whatever wallets the
\* panel had in between, unless an operation's report reached the panel after
\* its wallet had changed.
RecordOfItsWallet ==
  late \/ \A w \in Wallets : record[w] # None => op[record[w].about].wallet = w

\* Provenance, once stored with an unresolved transaction, stays with it in one
\* tab: no reload, failed check or resumption loses what finds a replacement.
ProvenanceKept ==
  OneTab => \A t \in captured :
    \A w \in Wallets :
      record[w] # None /\ record[w].about = t /\ record[w].hash = "sent" =>
        record[w].from = t

\* "The wallet result is uncertain ... New trades remain blocked; inspect your
\* wallet activity before explicitly abandoning recovery"
\* (token-trade-panel.tsx:345), and the test "locks a hashless wallet timeout
\* until explicit abandonment": in one tab a purchase that may still be mined
\* and that the user has not abandoned leaves a record.
BlockedUntilAbandoned ==
  OneTab => \A t \in Trades :
    Outstanding(t) /\ op[t].side = "buy" /\ lost[t] # "abandoned" =>
      record[op[t].wallet] # None

\* The inductive invariant of TypeOK, BusyHasOperation and RecordOfItsWallet: a
\* current operation runs for the wallet its panel has, and every hash that a panel
\* or a recovery knows was sent by its wallet.
CurrentIsHere ==
  /\ \A t \in Trades : op[t].phase # "unused" =>
       op[t].panel \in Panels /\ op[t].wallet \in Wallets
  /\ \A t \in Trades : op[t].current =>
       Running(t) /\ op[t].wallet = ui[op[t].panel].wallet
  /\ \A p \in Panels : rec[p] # None /\ rec[p].current => rec[p].wallet = ui[p].wallet

SentBy(w, t) == op[t].phase # "unused" /\ op[t].wallet = w

OwnHashes(s) ==
  \A h \in {s.shown, s.submitted, s.approval} : h # None => SentBy(s.wallet, h.about)

HashesOfTheirWallet ==
  late \/ /\ \A w \in Wallets : record[w] # None => SentBy(w, record[w].about)
          /\ \A p \in Panels : OwnHashes(ui[p])
          /\ \A p \in Panels : rec[p] # None => SentBy(rec[p].wallet, rec[p].hash.about)

IInv == TypeOK /\ CurrentIsHere /\ BusyHasOperation /\ HashesOfTheirWallet
=============================================================================
