-------------------------- MODULE TradePanel_proofs --------------------------
(***************************************************************************)
(* Proofs about TradePanel, for any number of wallets, tabs and trades.    *)
(* There are three inductive invariants, each built on those before.       *)
(*                                                                         *)
(* IInv: a panel that shows a running step has an operation that will end  *)
(* it, and a record is of a trade its wallet has sent.                     *)
(*                                                                         *)
(* KeptInv: every unresolved trade, also one the wallet has not been asked *)
(* for yet, has its wallet's record or a cause for the loss of it. Of a    *)
(* record that is written over or cleared it therefore has to be shown     *)
(* that it is of no unresolved trade, or that the step names its cause.    *)
(*                                                                         *)
(* LoneInv, while one tab with one wallet has acted: its panel has at most *)
(* one operation or recovery, which is about the record's own trade, and   *)
(* what the panel knows of that trade is what the record says. Writing and *)
(* clearing the record then never concerns another trade.                  *)
(***************************************************************************)
EXTENDS TradePanel, FiniteSetTheorems, TLAPS

-----------------------------------------------------------------------------
(* Parts that several actions share. *)

LEMMA HashTyped ==
  /\ \A t \in Trades : Sent(t) \in Shown /\ Approval(t) \in Shown
  /\ \A t \in Trades, side \in {"buy", "sell"} : Hashless(t, side) \in Record
  /\ \A h \in Shown, side \in {"buy", "sell"}, from \in Trades \cup {None} :
       WithHash(h, side, from) \in Record
BY DEF Shown, Record, Hashes, Sent, Approval, Hashless, WithHash

\* What the panel's setters do to the fields they do not set.
LEMMA ApprovalSet ==
  ASSUME NEW u \in PanelStates, NEW h \in Shown \cup {None}
  PROVE  LET s == [u EXCEPT !.approval = h]
         IN  /\ s \in PanelStates /\ s.wallet = u.wallet /\ s.shown = u.shown
             /\ s.submitted = u.submitted /\ s.recovery = u.recovery /\ s.approval = h
BY DEF PanelStates

LEMMA AskedSet ==
  ASSUME NEW u \in PanelStates
  PROVE  LET s == [u EXCEPT !.asked = TRUE]
         IN  /\ s \in PanelStates /\ s.wallet = u.wallet /\ s.shown = u.shown
             /\ s.submitted = u.submitted /\ s.recovery = u.recovery /\ s.approval = u.approval
BY DEF PanelStates

LEMMA SideSet ==
  ASSUME NEW u \in PanelStates, NEW side \in {"buy", "sell"}
  PROVE  LET s == [u EXCEPT !.side = side, !.quote = FALSE, !.shown = None]
         IN  /\ s \in PanelStates /\ s.lock = u.lock /\ s.wallet = u.wallet
             /\ s.approval = u.approval /\ s.submitted = u.submitted /\ s.shown = None
BY DEF PanelStates

LEMMA BusySet ==
  ASSUME NEW u \in PanelStates, NEW h \in Shown \cup {None}
  PROVE  LET s == [u EXCEPT !.lock = "busy", !.shown = h]
         IN  /\ s \in PanelStates /\ s.wallet = u.wallet /\ s.lock = "busy" /\ s.shown = h
             /\ s.submitted = u.submitted /\ s.approval = u.approval
BY DEF PanelStates

LEMMA FinishedSet ==
  ASSUME NEW u \in PanelStates, NEW h \in Shown \cup {None}
  PROVE  LET s == Finished([u EXCEPT !.lock = "unknown", !.shown = h], TRUE)
         IN  /\ s \in PanelStates /\ s.wallet = u.wallet /\ s.lock = "unknown" /\ s.shown = h
             /\ s.submitted = u.submitted /\ s.approval = u.approval
BY DEF Finished, PanelStates

\* What a reload makes of an operation.
LEMMA OperationDropped ==
  ASSUME NEW o \in Operations
  PROVE  LET d == [o EXCEPT !.phase = IF @ = "unused" THEN @ ELSE "done",
                            !.current = FALSE, !.from = None]
         IN  /\ d \in Operations /\ (d.phase = "unused" <=> o.phase = "unused")
             /\ d.wallet = o.wallet /\ d.panel = o.panel /\ ~d.current
BY DEF Operations, Phases

LEMMA WriteTyped ==
  ASSUME TypeOK, NEW w \in Wallets, NEW r \in Record, NEW cause \in Causes, Write(w, r, cause)
  PROVE  /\ record' \in [Wallets -> Record \cup {None}]
         /\ lost' \in [Trades -> Causes] /\ captured' \subseteq Trades
BY DEF Write, TypeOK, Record

LEMMA ClearTyped ==
  ASSUME TypeOK, NEW w \in Wallets, NEW t, NEW cause \in Causes, Clear(w, t, cause)
  PROVE  /\ record' \in [Wallets -> Record \cup {None}]
         /\ lost' \in [Trades -> Causes] /\ captured' \subseteq Trades
BY DEF Clear, TypeOK, Causes

LEMMA KeepTyped ==
  ASSUME TypeOK, Keep
  PROVE  /\ record' \in [Wallets -> Record \cup {None}]
         /\ lost' \in [Trades -> Causes] /\ captured' \subseteq Trades
BY DEF Keep, TypeOK

LEMMA ReadTyped ==
  ASSUME TypeOK, NEW w \in Wallets
  PROVE  ReadBy(w) \in PanelStates /\ ReadBy(w).lock # "busy" /\ ReadBy(w).wallet = w
<1> DEFINE r == readPendingTrade(w)
<1>1. r \in Record \cup {None}
  BY DEF readPendingTrade, TypeOK
<1>2. HashOf(r) \in Shown \cup {None}
  BY <1>1 DEF HashOf, Record, Hashes, Shown
<1>3. (IF r = None THEN "buy" ELSE r.side) \in {"buy", "sell"}
  BY <1>1 DEF Record
<1>4. (IF r = None THEN None ELSE r.from) \in Trades \cup {None}
  BY <1>1 DEF Record
<1> HIDE DEF r
<1> QED BY <1>2, <1>3, <1>4 DEF ReadBy, PanelStates, r

\* The hashes a panel reads were sent by the wallet it reads for.
LEMMA ReadSentBy ==
  ASSUME TypeOK, NEW w \in Wallets, record[w] # None => SentBy(w, record[w].about)
  PROVE  OwnHashes(ReadBy(w))
BY DEF ReadBy, readPendingTrade, HashOf, OwnHashes

\* Bound: the turns of the user.
LEMMA TurnsTyped ==
  ASSUME TypeOK, Turns < MaxTurns
  PROVE  switches + 1 \in 0..MaxTurns /\ reloads + 1 \in 0..MaxTurns
<1>1. Cardinality(acted) \in Nat
  BY FS_Subset, FS_CardinalityType, PanelAssumption DEF TypeOK
<1> QED BY <1>1, PanelAssumption DEF Turns, TypeOK

\* How a step keeps the hashes' wallets: what is not as it was belongs to its wallet.
LEMMA HashesKept ==
  ASSUME TypeOK, TypeOK', HashesOfTheirWallet, late => late',
         \A w \in Wallets, t \in Trades : SentBy(w, t) => SentBy(w, t)',
         ~late' => \A w \in Wallets : record'[w] = None \/ record'[w] = record[w]
                                    \/ SentBy(w, record[w].about)',
         ~late' => \A p \in Panels : ui'[p] = ui[p] \/ OwnHashes(ui[p])',
         ~late' => \A p \in Panels :
           \/ rec'[p] = None
           \/ /\ rec[p] # None
              /\ rec'[p].wallet = rec[p].wallet /\ rec'[p].hash = rec[p].hash
           \/ SentBy(rec[p].wallet, rec[p].hash.about)'
  PROVE  HashesOfTheirWallet'
<1> SUFFICES ASSUME ~late' PROVE HashesOfTheirWallet'
  BY DEF HashesOfTheirWallet
<1>1. \A w \in Wallets : record'[w] # None => SentBy(w, record[w].about)'
  <2> SUFFICES ASSUME NEW w \in Wallets, record'[w] # None, record'[w] = record[w]
               PROVE  SentBy(w, record[w].about)'
    OBVIOUS
  <2>1. record[w].about \in Trades /\ SentBy(w, record[w].about)
    BY DEF TypeOK, Record, HashesOfTheirWallet
  <2>2. SentBy(w, record[w].about)'
    BY <2>1 DEF SentBy
  <2> QED BY <2>2 DEF SentBy
<1>2. \A p \in Panels : OwnHashes(ui[p])'
  <2> SUFFICES ASSUME NEW p \in Panels, ui'[p] = ui[p] PROVE OwnHashes(ui[p])'
    OBVIOUS
  <2>1. OwnHashes(ui[p]) /\ ui[p] \in PanelStates
    BY DEF HashesOfTheirWallet, TypeOK
  <2> QED BY <2>1 DEF OwnHashes, PanelStates, Shown, SentBy
<1>3. \A p \in Panels : rec'[p] # None => SentBy(rec[p].wallet, rec[p].hash.about)'
  <2> SUFFICES ASSUME NEW p \in Panels, rec[p] # None,
                      rec'[p].wallet = rec[p].wallet, rec'[p].hash = rec[p].hash
               PROVE  SentBy(rec[p].wallet, rec[p].hash.about)'
    OBVIOUS
  <2>1. /\ SentBy(rec[p].wallet, rec[p].hash.about)
        /\ rec[p].wallet \in Wallets /\ rec[p].hash.about \in Trades
    BY DEF HashesOfTheirWallet, TypeOK, Recoveries, Shown
  <2> QED BY <2>1 DEF SentBy
<1> QED BY <1>1, <1>2, <1>3 DEF HashesOfTheirWallet

\* How a step keeps busy panels and current operations: those it ends are of a
\* panel that is no longer busy.
LEMMA BusyKept ==
  ASSUME BusyHasOperation,
         \A p \in Panels :
           \/ ui'[p].lock # "busy"
           \/ \E t \in Trades : op'[t].panel = p /\ op'[t].current /\ Running(t)'
           \/ rec'[p] # None /\ rec'[p].current
           \/ /\ ui'[p].lock = ui[p].lock
              /\ \A t \in Trades : op[t].panel = p /\ op[t].current /\ Running(t) =>
                    op'[t].panel = p /\ op'[t].current /\ Running(t)'
              /\ rec[p] # None /\ rec[p].current => rec'[p] # None /\ rec'[p].current
  PROVE  BusyHasOperation'
BY DEF BusyHasOperation

LEMMA InitIInv == Init => IInv
<1> SUFFICES ASSUME Init PROVE IInv
  OBVIOUS
<1>1. PICK w \in Wallets : ui = [p \in Panels |-> ReadBy(w)]
  BY DEF Init
<1>2. ReadBy(w) = [wallet |-> w, side |-> "buy", lock |-> "open", shown |-> None,
                   submitted |-> None, recovery |-> None, approval |-> None, asked |-> FALSE,
                   operation |-> FALSE, quote |-> FALSE]
  BY DEF Init, ReadBy, readPendingTrade, HashOf
<1>3. ui \in [Panels -> PanelStates]
  BY <1>1, <1>2 DEF PanelStates
<1>4. op \in [Trades -> Operations]
  BY DEF Init, Operations, Phases
<1>5. TypeOK
  <2>1. switches \in 0..MaxTurns /\ reloads \in 0..MaxTurns
    BY PanelAssumption DEF Init
  <2>2. fate \in [Trades -> Fates] /\ lost \in [Trades -> Causes]
    BY DEF Init, Fates, Causes
  <2>3. record \in [Wallets -> Record \cup {None}] /\ rec \in [Panels -> Recoveries \cup {None}]
    BY DEF Init
  <2>4. late \in BOOLEAN /\ captured \subseteq Trades /\ acted \subseteq Panels
    BY DEF Init
  <2> QED BY <1>3, <1>4, <2>1, <2>2, <2>3, <2>4 DEF TypeOK
<1>6. CurrentIsHere /\ BusyHasOperation /\ HashesOfTheirWallet
  BY <1>1, <1>2 DEF Init, CurrentIsHere, BusyHasOperation, HashesOfTheirWallet, OwnHashes
<1> QED BY <1>5, <1>6 DEF IInv

-----------------------------------------------------------------------------
(* The user. *)

LEMMA QuoteKeeps ==
  ASSUME IInv, NEW p \in Panels, getQuote(p) \/ invalidateQuote(p) \/ changeSide(p)
  PROVE  IInv'
<1>1. /\ TypeOK /\ ui[p].lock = "open"
      /\ UNCHANGED <<record, op, rec, fate, history, switches, reloads>>
  BY DEF IInv, getQuote, invalidateQuote, changeSide, SetQuote
<1>2. PICK s \in PanelStates :
        /\ ui' = [ui EXCEPT ![p] = s]
        /\ s.lock = "open" /\ s.wallet = ui[p].wallet /\ s.approval = ui[p].approval
        /\ s.submitted = ui[p].submitted /\ s.shown \in {ui[p].shown, None}
  <2>1. CASE changeSide(p)
    <3>1. PICK side \in {"buy", "sell"} :
            ui' = [ui EXCEPT ![p].side = side, ![p].quote = FALSE, ![p].shown = None]
      BY <2>1 DEF changeSide
    <3> DEFINE s == [ui[p] EXCEPT !.side = side, !.quote = FALSE, !.shown = None]
    <3>2. ui[p] \in PanelStates
      BY <1>1 DEF TypeOK
    <3>3. /\ s \in PanelStates /\ s.lock = ui[p].lock /\ s.wallet = ui[p].wallet
          /\ s.approval = ui[p].approval /\ s.submitted = ui[p].submitted /\ s.shown = None
      BY ONLY <3>2, SideSet
    <3>4. ui' = [ui EXCEPT ![p] = s]
      BY <1>1, <3>1 DEF TypeOK
    <3> HIDE DEF s
    <3> QED BY <1>1, <3>3, <3>4
  <2>2. CASE \E ready \in BOOLEAN : SetQuote(p, ready)
    <3>1. PICK ready \in BOOLEAN : ui' = [ui EXCEPT ![p].quote = ready]
      BY <2>2 DEF SetQuote
    <3>2. [ui[p] EXCEPT !.quote = ready] \in PanelStates
      BY <1>1 DEF TypeOK, PanelStates
    <3> QED BY <1>1, <3>1, <3>2 DEF TypeOK, PanelStates
  <2> QED BY <2>1, <2>2 DEF getQuote, invalidateQuote
<1>3. TypeOK'
  BY <1>1, <1>2 DEF TypeOK, history
<1>4. CurrentIsHere' /\ BusyHasOperation'
  BY <1>1, <1>2 DEF IInv, TypeOK, CurrentIsHere, BusyHasOperation, Running
<1>5. HashesOfTheirWallet'
  <2>1. \A q \in Panels : OwnHashes(ui[q]) => OwnHashes(ui[q])'
    BY <1>1, <1>2 DEF TypeOK, OwnHashes, SentBy
  <2> QED BY <1>1, <2>1 DEF IInv, HashesOfTheirWallet, SentBy, history
<1> QED BY <1>3, <1>4, <1>5 DEF IInv

LEMMA SwitchKeeps ==
  ASSUME IInv, NEW p \in Panels, SwitchWallet(p)
  PROVE  IInv'
<1>1. TypeOK /\ UNCHANGED <<record, fate, history, reloads>>
  BY DEF IInv, SwitchWallet
<1>2. PICK w \in Wallets : ui' = [ui EXCEPT ![p] = ReadBy(w)]
  BY DEF SwitchWallet
<1>3. ReadBy(w) \in PanelStates /\ ReadBy(w).lock # "busy" /\ ReadBy(w).wallet = w
  BY <1>1, ReadTyped
<1>4. ui'[p] = ReadBy(w) /\ \A q \in Panels \ {p} : ui'[q] = ui[q]
  BY <1>1, <1>2 DEF TypeOK
<1>5. /\ op' \in [Trades -> Operations]
      /\ \A t \in Trades :
           /\ op'[t].phase = op[t].phase /\ op'[t].wallet = op[t].wallet
           /\ op'[t].panel = op[t].panel
           /\ op[t].panel = p => ~op'[t].current
           /\ op[t].panel # p => op'[t] = op[t]
  <2>1. op' = [t \in Trades |-> IF op[t].panel = p THEN [op[t] EXCEPT !.current = FALSE]
                               ELSE op[t]]
    BY DEF SwitchWallet, Outdated
  <2>2. \A t \in Trades : op[t] \in Operations
    BY <1>1 DEF TypeOK
  <2>3. \A t \in Trades : op'[t] \in Operations
    BY <2>1, <2>2 DEF Operations
  <2> QED BY <2>1, <2>2, <2>3 DEF Operations
<1>6. /\ rec' \in [Panels -> Recoveries \cup {None}]
      /\ \A q \in Panels \ {p} : rec'[q] = rec[q]
      /\ \/ rec'[p] = None
         \/ /\ rec[p] # None /\ rec'[p].hash = rec[p].hash
            /\ rec'[p].wallet = rec[p].wallet /\ ~rec'[p].current
  <2>1. rec' = [rec EXCEPT ![p] = IF @ = None THEN None ELSE [@ EXCEPT !.current = FALSE]]
    BY DEF SwitchWallet, Outdated
  <2>2. CASE rec[p] = None
    BY <1>1, <2>1, <2>2 DEF TypeOK
  <2>3. CASE rec[p] # None
    <3>1. rec[p] \in Recoveries
      BY <1>1, <2>3 DEF TypeOK
    <3>2. rec' = [rec EXCEPT ![p] = [rec[p] EXCEPT !.current = FALSE]]
      BY <2>1, <2>3
    <3>3. /\ [rec[p] EXCEPT !.current = FALSE] \in Recoveries
          /\ [rec[p] EXCEPT !.current = FALSE].hash = rec[p].hash
          /\ [rec[p] EXCEPT !.current = FALSE].wallet = rec[p].wallet
          /\ ~[rec[p] EXCEPT !.current = FALSE].current
      BY <3>1 DEF Recoveries
    <3> QED BY <1>1, <2>3, <3>2, <3>3 DEF TypeOK
  <2> QED BY <2>2, <2>3
<1>7. TypeOK'
  BY <1>1, <1>2, <1>3, <1>5, <1>6, TurnsTyped DEF SwitchWallet, MayTurn, TypeOK, history
<1>8. CurrentIsHere'
  <2>1. \A t \in Trades : op'[t].phase # "unused" => op'[t].panel \in Panels /\ op'[t].wallet \in Wallets
    BY <1>5 DEF IInv, CurrentIsHere
  <2>2. \A t \in Trades : op'[t].current =>
          Running(t)' /\ op'[t].wallet = ui'[op'[t].panel].wallet
    BY <1>4, <1>5 DEF IInv, CurrentIsHere, Running
  <2>3. \A q \in Panels : rec'[q] # None /\ rec'[q].current => rec'[q].wallet = ui'[q].wallet
    BY <1>4, <1>6 DEF IInv, CurrentIsHere
  <2> QED BY <2>1, <2>2, <2>3 DEF CurrentIsHere
<1>9. BusyHasOperation'
  <2>1. \A q \in Panels \ {p} : /\ ui'[q].lock = ui[q].lock /\ rec'[q] = rec[q]
                               /\ \A t \in Trades : op[t].panel = q => op'[t] = op[t]
    BY <1>4, <1>5, <1>6
  <2>2. ui'[p].lock # "busy"
    BY <1>3, <1>4
  <2> QED BY <2>1, <2>2, BusyKept DEF IInv, Running
<1>10. HashesOfTheirWallet'
  <2>1. \A v \in Wallets, t \in Trades : SentBy(v, t) => SentBy(v, t)'
    BY <1>5 DEF SentBy
  <2>2. ~late => OwnHashes(ReadBy(w))
    BY <1>1, ReadSentBy DEF IInv, HashesOfTheirWallet
  <2>3. OwnHashes(ReadBy(w)) => OwnHashes(ui[p])'
    BY <1>3, <1>4, <2>1 DEF OwnHashes, PanelStates, Shown
  <2> QED BY <1>1, <1>4, <1>6, <1>7, <2>1, <2>2, <2>3, HashesKept DEF IInv, history
<1> QED BY <1>7, <1>8, <1>9, <1>10 DEF IInv

LEMMA ReloadKeeps ==
  ASSUME IInv, NEW p \in Panels, Reload(p)
  PROVE  IInv'
<1>1. TypeOK /\ UNCHANGED <<record, fate, history, switches>>
  BY DEF IInv, Reload
<1> DEFINE w == ui[p].wallet
<1>2. w \in Wallets
  BY <1>1 DEF TypeOK, PanelStates
<1>3. ReadBy(w) \in PanelStates /\ ReadBy(w).lock # "busy" /\ ReadBy(w).wallet = w
  BY <1>1, <1>2, ReadTyped
<1>4. /\ ui'[p] = ReadBy(w) /\ \A q \in Panels \ {p} : ui'[q] = ui[q]
      /\ ui' \in [Panels -> PanelStates]
  BY <1>1, <1>3 DEF Reload, TypeOK
<1>5. /\ op' \in [Trades -> Operations]
      /\ \A t \in Trades :
           /\ op'[t].phase = "unused" <=> op[t].phase = "unused"
           /\ op'[t].wallet = op[t].wallet /\ op'[t].panel = op[t].panel
           /\ op[t].panel = p => ~op'[t].current
           /\ op[t].panel # p => op'[t] = op[t]
  <2>1. op' = [t \in Trades |->
                 IF op[t].panel = p
                   THEN [op[t] EXCEPT !.phase = IF @ = "unused" THEN @ ELSE "done",
                                      !.current = FALSE, !.from = None]
                   ELSE op[t]]
    BY DEF Reload
  <2>2. \A t \in Trades : op[t] \in Operations
    BY <1>1 DEF TypeOK
  <2> DEFINE d(t) == [op[t] EXCEPT !.phase = IF @ = "unused" THEN @ ELSE "done",
                                   !.current = FALSE, !.from = None]
  <2>3. \A t \in Trades :
          /\ d(t) \in Operations /\ (d(t).phase = "unused" <=> op[t].phase = "unused")
          /\ d(t).wallet = op[t].wallet /\ d(t).panel = op[t].panel /\ ~d(t).current
    BY ONLY <2>2, OperationDropped
  <2>4. op' = [t \in Trades |-> IF op[t].panel = p THEN d(t) ELSE op[t]]
    BY <2>1
  <2> HIDE DEF d
  <2> QED BY ONLY <2>2, <2>3, <2>4
<1>6. /\ rec' \in [Panels -> Recoveries \cup {None}]
      /\ rec'[p] = None /\ \A q \in Panels \ {p} : rec'[q] = rec[q]
  BY <1>1 DEF Reload, TypeOK
<1>7. TypeOK'
  BY <1>1, <1>4, <1>5, <1>6, TurnsTyped DEF Reload, MayTurn, TypeOK, history
<1>8. CurrentIsHere'
  <2>1. \A t \in Trades : op'[t].phase # "unused" => op'[t].panel \in Panels /\ op'[t].wallet \in Wallets
    BY <1>5 DEF IInv, CurrentIsHere
  <2>2. \A t \in Trades : op'[t].current =>
          Running(t)' /\ op'[t].wallet = ui'[op'[t].panel].wallet
    BY <1>4, <1>5 DEF IInv, CurrentIsHere, Running
  <2>3. \A q \in Panels : rec'[q] # None /\ rec'[q].current => rec'[q].wallet = ui'[q].wallet
    BY <1>4, <1>6 DEF IInv, CurrentIsHere
  <2> QED BY <2>1, <2>2, <2>3 DEF CurrentIsHere
<1>9. BusyHasOperation'
  <2>1. \A q \in Panels \ {p} : /\ ui'[q].lock = ui[q].lock /\ rec'[q] = rec[q]
                               /\ \A t \in Trades : op[t].panel = q => op'[t] = op[t]
    BY <1>4, <1>5, <1>6
  <2>2. ui'[p].lock # "busy"
    BY <1>3, <1>4
  <2> QED BY <2>1, <2>2, BusyKept DEF IInv, Running
<1>10. HashesOfTheirWallet'
  <2>1. \A v \in Wallets, t \in Trades : SentBy(v, t) => SentBy(v, t)'
    BY <1>5 DEF SentBy
  <2>2. ~late => OwnHashes(ReadBy(w))
    BY <1>1, <1>2, ReadSentBy DEF IInv, HashesOfTheirWallet
  <2>3. OwnHashes(ReadBy(w)) => OwnHashes(ui[p])'
    BY <1>2, <1>3, <1>4, <2>1 DEF OwnHashes, PanelStates, Shown
  <2> QED BY <1>1, <1>4, <1>6, <1>7, <2>1, <2>2, <2>3, HashesKept DEF IInv, history
<1> QED BY <1>7, <1>8, <1>9, <1>10 DEF IInv

-----------------------------------------------------------------------------
(* Submission. *)

\* A submission without the record of an earlier one.
LEMMA BeginKeeps ==
  ASSUME IInv, NEW p \in Panels, NEW t \in Trades, Begin(p, t)
  PROVE  IInv'
<1>1. /\ TypeOK /\ UNCHANGED <<rec, fate, late, switches, reloads>>
      /\ op[t].phase = "unused" /\ ui[p] \in PanelStates
      /\ ui[p].wallet \in Wallets /\ ui[p].side \in {"buy", "sell"}
  BY DEF IInv, Begin, TypeOK, PanelStates
<1> DEFINE w == ui[p].wallet
           r == Hashless(t, ui[p].side)
           o == [phase |-> "prepare", panel |-> p, wallet |-> w,
                 side |-> ui[p].side, current |-> TRUE, from |-> None]
<1>2. r \in Record /\ r.about = t /\ record' = [record EXCEPT ![w] = r]
  BY <1>1, HashTyped DEF Begin, Write, Hashless
<1>3. /\ record' \in [Wallets -> Record \cup {None}]
      /\ lost' \in [Trades -> Causes] /\ captured' \subseteq Trades
  BY <1>1, <1>2, WriteTyped DEF Begin, Causes
<1>4. PICK s \in PanelStates :
        /\ ui' = [ui EXCEPT ![p] = s]
        /\ s.wallet = w /\ s.shown = ui[p].shown /\ s.submitted = ui[p].submitted
        /\ s.approval = None
  <2>1. ui' = [ui EXCEPT ![p] = [ui[p] EXCEPT !.lock = "busy", !.operation = TRUE,
                                   !.approval = None, !.asked = (ui[p].side = "buy")]]
    BY DEF Begin
  <2>2. [ui[p] EXCEPT !.lock = "busy", !.operation = TRUE,
                      !.approval = None, !.asked = (ui[p].side = "buy")] \in PanelStates
    BY <1>1 DEF PanelStates
  <2> QED BY <1>1, <2>1, <2>2 DEF PanelStates
<1>5. o \in Operations
  BY <1>1 DEF Operations, Phases
<1>6. op' = [op EXCEPT ![t] = o]
  BY DEF Begin
<1> HIDE DEF r
<1>7. /\ ui'[p] = s /\ \A q \in Panels \ {p} : ui'[q] = ui[q]
      /\ ui' \in [Panels -> PanelStates]
      /\ op'[t] = o /\ \A u \in Trades \ {t} : op'[u] = op[u]
      /\ op' \in [Trades -> Operations]
  BY <1>1, <1>4, <1>5, <1>6 DEF TypeOK
<1>8. TypeOK'
  BY <1>1, <1>3, <1>7 DEF Begin, Acts, TypeOK
<1>9. CurrentIsHere'
  <2>1. \A u \in Trades : op'[u].phase # "unused" => op'[u].panel \in Panels /\ op'[u].wallet \in Wallets
    BY <1>1, <1>7 DEF IInv, CurrentIsHere
  <2>2. \A u \in Trades : op'[u].current =>
          Running(u)' /\ op'[u].wallet = ui'[op'[u].panel].wallet
    BY <1>1, <1>4, <1>7 DEF IInv, CurrentIsHere, Running
  <2>3. \A q \in Panels : rec'[q] # None /\ rec'[q].current => rec'[q].wallet = ui'[q].wallet
    BY <1>1, <1>4, <1>7 DEF IInv, CurrentIsHere
  <2> QED BY <2>1, <2>2, <2>3 DEF CurrentIsHere
<1>10. BusyHasOperation'
  <2>1. op'[t].panel = p /\ op'[t].current /\ Running(t)'
    BY <1>7 DEF Running
  <2>2. \A q \in Panels \ {p} :
          /\ ui'[q].lock = ui[q].lock /\ rec'[q] = rec[q]
          /\ \A u \in Trades : op[u].panel = q /\ op[u].current /\ Running(u) =>
                op'[u].panel = q /\ op'[u].current /\ Running(u)'
    BY <1>1, <1>7 DEF Running
  <2> QED BY <2>1, <2>2, BusyKept DEF IInv
<1>11. HashesOfTheirWallet'
  <2>1. \A v \in Wallets, u \in Trades : SentBy(v, u) => SentBy(v, u)'
    BY <1>1, <1>7 DEF SentBy
  <2>2. /\ op'[t].phase # "unused" /\ op'[t].wallet = w
        /\ record'[w].about = t /\ \A v \in Wallets \ {w} : record'[v] = record[v]
    BY <1>1, <1>2, <1>7 DEF TypeOK
  <2>3. OwnHashes(ui[p]) => OwnHashes(ui[p])'
    BY <1>1, <1>4, <1>7, <2>1 DEF OwnHashes, PanelStates, Shown
  <2>4. \A v \in Wallets : record'[v] = record[v] \/ SentBy(v, record[v].about)'
    BY <2>2 DEF SentBy
  <2> QED BY <1>1, <1>7, <1>8, <2>1, <2>3, <2>4, HashesKept DEF IInv, HashesOfTheirWallet
<1> QED BY <1>8, <1>9, <1>10, <1>11 DEF IInv

-----------------------------------------------------------------------------
(* What the steps of operations have in common. *)

RecordsTyped == /\ record' \in [Wallets -> Record \cup {None}]
                /\ lost' \in [Trades -> Causes] /\ captured' \subseteq Trades

\* A written record is of a trade its wallet has sent.
RecordsOwn ==
  late \/ \A w \in Wallets : \/ record'[w] = None \/ record'[w] = record[w]
                             \/ record'[w] \in Record /\ SentBy(w, record'[w].about)

\* A panel has a new state, no longer busy, or, if it may, the old one.
Settled(p, unless) ==
  \E s \in PanelStates :
    /\ ui' = [ui EXCEPT ![p] = s]
    /\ s.wallet = ui[p].wallet
    /\ late \/ OwnHashes(s)
    /\ s.lock # "busy" \/ (s = ui[p] /\ unless)

LEMMA WriteOwn ==
  ASSUME TypeOK, NEW w \in Wallets, NEW r \in Record, NEW cause, Write(w, r, cause),
         late \/ SentBy(w, r.about)
  PROVE  RecordsOwn
BY DEF RecordsOwn, Write, TypeOK

LEMMA ClearOwn ==
  ASSUME TypeOK, NEW w \in Wallets, NEW t, NEW cause, Clear(w, t, cause)
  PROVE  RecordsOwn
BY DEF RecordsOwn, Clear, TypeOK

LEMMA KeepOwn ==
  ASSUME Keep PROVE RecordsOwn
BY DEF RecordsOwn, Keep

LEMMA OwnKept ==
  ASSUME \A w \in Wallets, t \in Trades : SentBy(w, t) => SentBy(w, t)'
  PROVE  /\ \A s \in PanelStates : OwnHashes(s) => OwnHashes(s)'
         /\ RecordsOwn => late \/ \A w \in Wallets :
              record'[w] = None \/ record'[w] = record[w] \/ SentBy(w, record[w].about)'
<1>1. \A s \in PanelStates : OwnHashes(s) => OwnHashes(s)'
  BY DEF OwnHashes, PanelStates, Shown
<1>2. ASSUME NEW w \in Wallets, record'[w] \in Record, SentBy(w, record'[w].about)
      PROVE  SentBy(w, record[w].about)'
  <2>1. record'[w].about \in Trades
    BY <1>2 DEF Record
  <2> QED BY <1>2, <2>1 DEF SentBy
<1> QED BY <1>1, <1>2 DEF RecordsOwn

\* A step in which one panel's state changes, and its recovery, and no operation.
LEMMA PanelStep ==
  ASSUME IInv, NEW p \in Panels, NEW s \in PanelStates, NEW r \in Recoveries \cup {None},
         UNCHANGED <<op, fate, late, switches, reloads>>, acted' \subseteq Panels,
         RecordsTyped, RecordsOwn,
         ui' = [ui EXCEPT ![p] = s], s.wallet = ui[p].wallet, late \/ OwnHashes(s),
         rec' = [rec EXCEPT ![p] = r],
         \/ r \in {rec[p], None}
         \/ r.wallet = ui[p].wallet /\ (late \/ SentBy(r.wallet, r.hash.about)),
         \/ s.lock # "busy"
         \/ r # None /\ r.current
         \/ s = ui[p] /\ ~(rec[p] # None /\ rec[p].current)
  PROVE  IInv'
<1>1. TypeOK
  BY DEF IInv
<1>2. /\ ui'[p] = s /\ \A q \in Panels \ {p} : ui'[q] = ui[q]
      /\ rec'[p] = r /\ \A q \in Panels \ {p} : rec'[q] = rec[q]
      /\ ui' \in [Panels -> PanelStates] /\ rec' \in [Panels -> Recoveries \cup {None}]
  BY <1>1 DEF TypeOK
<1>3. TypeOK'
  BY <1>1, <1>2 DEF TypeOK, RecordsTyped
<1>4. CurrentIsHere'
  <2>1. \A q \in Panels : ui'[q].wallet = ui[q].wallet
    BY <1>2
  <2>2. \A t \in Trades : op[t].current => op[t].panel \in Panels
    BY DEF IInv, CurrentIsHere, Running
  <2> QED BY <1>2, <2>1, <2>2 DEF IInv, CurrentIsHere, Running
<1>5. BusyHasOperation'
  BY <1>2, BusyKept DEF IInv, Running
<1>6. \A w \in Wallets, t \in Trades : SentBy(w, t) => SentBy(w, t)'
  BY DEF SentBy
<1>7. late \/ OwnHashes(ui[p])'
  <2>1. OwnHashes(s) => OwnHashes(s)'
    BY <1>6, OwnKept
  <2> QED BY <1>2, <2>1 DEF OwnHashes
<1>8. late \/ \A q \in Panels :
        \/ rec'[q] = None
        \/ /\ rec[q] # None
           /\ rec'[q].wallet = rec[q].wallet /\ rec'[q].hash = rec[q].hash
        \/ SentBy(rec[q].wallet, rec[q].hash.about)'
  BY <1>2 DEF SentBy
<1>9. HashesOfTheirWallet'
  BY <1>1, <1>2, <1>3, <1>6, <1>7, <1>8, OwnKept, HashesKept DEF IInv
<1> QED BY <1>3, <1>4, <1>5, <1>9 DEF IInv

\* A step of an operation: its panel has a new state, busy only if the operation is
\* current and goes on, or if the state is the old one.
GoesOn(t, o, s) ==
  /\ Running(t) /\ op' = [op EXCEPT ![t] = o]
  /\ o.panel = op[t].panel /\ o.wallet = op[t].wallet /\ o.phase # "unused"
  /\ o.current => op[t].current /\ o.phase # "done"
  /\ ui' = [ui EXCEPT ![op[t].panel] = s]
  /\ s.wallet = ui[op[t].panel].wallet /\ (late' \/ OwnHashes(s))
  /\ \/ s.lock # "busy"
     \/ o.current
     \/ s.lock = ui[op[t].panel].lock /\ ~op[t].current
  /\ UNCHANGED <<rec, acted, switches, reloads>> /\ fate' \in [Trades -> Fates]
  /\ late' \in BOOLEAN /\ (late => late')

LEMMA OperationKeeps ==
  ASSUME IInv, NEW t \in Trades, NEW o \in Operations, NEW s \in PanelStates, GoesOn(t, o, s),
         RecordsTyped, RecordsOwn
  PROVE  IInv'
<1> USE DEF GoesOn
<1> DEFINE p == op[t].panel
<1>1. TypeOK
  BY DEF IInv
<1>2. p \in Panels /\ op[t].wallet \in Wallets
  BY DEF IInv, CurrentIsHere, Running
<1>3. /\ ui'[p] = s /\ \A q \in Panels \ {p} : ui'[q] = ui[q]
      /\ op'[t] = o /\ \A u \in Trades \ {t} : op'[u] = op[u]
      /\ ui' \in [Panels -> PanelStates] /\ op' \in [Trades -> Operations]
  BY <1>1, <1>2 DEF TypeOK
<1>4. TypeOK'
  BY <1>1, <1>3 DEF TypeOK, RecordsTyped
<1>5. \A q \in Panels : ui'[q].wallet = ui[q].wallet
  BY <1>3
<1>6. CurrentIsHere'
  <2>1. \A u \in Trades : op'[u].phase # "unused" => op'[u].panel \in Panels /\ op'[u].wallet \in Wallets
    BY <1>2, <1>3 DEF IInv, CurrentIsHere
  <2>2. \A u \in Trades : op'[u].current =>
          Running(u)' /\ op'[u].wallet = ui'[op'[u].panel].wallet
    <3>1. \A u \in Trades : op[u].current =>
            Running(u) /\ op[u].panel \in Panels /\ op[u].wallet = ui[op[u].panel].wallet
      BY DEF IInv, CurrentIsHere, Running
    <3> QED BY <1>3, <1>5, <3>1 DEF Running
  <2>3. \A q \in Panels : rec'[q] # None /\ rec'[q].current => rec'[q].wallet = ui'[q].wallet
    BY <1>5 DEF IInv, CurrentIsHere
  <2> QED BY <2>1, <2>2, <2>3 DEF CurrentIsHere
<1>7. BusyHasOperation'
  <2>1. \A q \in Panels \ {p} :
          /\ ui'[q].lock = ui[q].lock /\ rec'[q] = rec[q]
          /\ \A u \in Trades : op[u].panel = q /\ op[u].current /\ Running(u) =>
                op'[u].panel = q /\ op'[u].current /\ Running(u)'
    BY <1>3 DEF Running
  <2>2. \/ ui'[p].lock # "busy"
        \/ op'[t].panel = op[t].panel /\ op'[t].current /\ Running(t)'
        \/ /\ ui'[p].lock = ui[p].lock /\ rec'[p] = rec[p]
           /\ \A u \in Trades : op[u].panel = op[t].panel /\ op[u].current /\ Running(u) =>
                 op'[u].panel = op[t].panel /\ op'[u].current /\ Running(u)'
    BY <1>3 DEF Running
  <2> QED BY <1>2, <2>1, <2>2, BusyKept DEF IInv
<1>8. \A w \in Wallets, u \in Trades : SentBy(w, u) => SentBy(w, u)'
  BY <1>3 DEF SentBy, Running
<1>9. ~late' => \A q \in Panels : ui'[q] = ui[q] \/ OwnHashes(ui[q])'
  <2>1. OwnHashes(s) => OwnHashes(s)'
    BY <1>8, OwnKept
  <2>2. OwnHashes(s)' => OwnHashes(ui[op[t].panel])'
    BY <1>3 DEF OwnHashes
  <2>3. op'[t].panel = op[t].panel
    BY <1>3
  <2> QED BY <1>3, <2>1, <2>2, <2>3 DEF OwnHashes
<1>10. HashesOfTheirWallet'
  BY <1>1, <1>4, <1>8, <1>9, OwnKept, HashesKept DEF IInv
<1> QED BY <1>4, <1>6, <1>7, <1>10 DEF IInv

\* A running operation knows a panel and a wallet, and has sent its own hash.
LEMMA RunningKnown ==
  ASSUME IInv, NEW t \in Trades, Running(t)
  PROVE  /\ op[t] \in Operations /\ op[t].panel \in Panels /\ op[t].wallet \in Wallets
         /\ ui[op[t].panel] \in PanelStates
         /\ SentBy(op[t].wallet, t)
         /\ op[t].current => op[t].wallet = ui[op[t].panel].wallet
         /\ late \/ OwnHashes(ui[op[t].panel])
BY DEF IInv, TypeOK, CurrentIsHere, Running, SentBy, HashesOfTheirWallet

LEMMA ReportKeeps ==
  ASSUME IInv, NEW t \in Trades, Running(t), NEW o \in Operations, op' = [op EXCEPT ![t] = o],
         o.panel = op[t].panel, o.wallet = op[t].wallet, o.current = op[t].current,
         o.phase \notin {"unused", "done"},
         NEW refs \in PanelStates, refs.wallet = Refs(t).wallet, refs.lock = Refs(t).lock,
         \A h \in {refs.shown, refs.submitted, refs.approval} :
           \/ h \in {Refs(t).shown, Refs(t).submitted, Refs(t).approval}
           \/ h.about = t,
         NEW hash \in Shown \cup {None}, hash # None => hash.about = t,
         report(t, refs, hash), fate' \in [Trades -> Fates], RecordsTyped, RecordsOwn
  PROVE  IInv'
<1> DEFINE shown == IF hash = None THEN refs.shown ELSE hash
           s == IF op[t].current THEN [refs EXCEPT !.lock = "busy", !.shown = shown] ELSE refs
<1>1. /\ op[t].current \in BOOLEAN /\ late \in BOOLEAN
      /\ ui[op[t].panel] \in PanelStates /\ Refs(t) = ui[op[t].panel]
      /\ op[t].current => SentBy(Refs(t).wallet, t)
      /\ late \/ OwnHashes(Refs(t))
  BY RunningKnown DEF Refs, Operations, IInv, TypeOK
<1>2. shown \in Shown \cup {None}
  BY DEF PanelStates
<1>3. /\ s \in PanelStates /\ s.wallet = refs.wallet
      /\ s.submitted = refs.submitted /\ s.approval = refs.approval
      /\ s.shown = IF op[t].current THEN shown ELSE refs.shown
      /\ s.lock = IF op[t].current THEN "busy" ELSE refs.lock
  <2>1. CASE op[t].current
    <3> DEFINE b == [refs EXCEPT !.lock = "busy", !.shown = shown]
    <3> HIDE DEF shown
    <3>1. /\ b \in PanelStates /\ b.wallet = refs.wallet /\ b.lock = "busy" /\ b.shown = shown
          /\ b.submitted = refs.submitted /\ b.approval = refs.approval
      BY <1>2, BusySet
    <3>2. s = b
      BY <2>1
    <3> HIDE DEF s, b
    <3> QED BY <2>1, <3>1, <3>2
  <2>2. CASE ~op[t].current
    BY <2>2
  <2> QED BY <1>1, <2>1, <2>2
<1>4. ui' = [ui EXCEPT ![op[t].panel] = s]
  BY DEF report
<1>5. /\ late' \in BOOLEAN /\ (late => late')
      /\ ~late' => ~late /\ (refs = Refs(t) \/ op[t].current)
  BY <1>1 DEF report
<1>6. late' \/ OwnHashes(s)
  <2> SUFFICES ASSUME ~late' PROVE OwnHashes(s)
    OBVIOUS
  <2>1. CASE op[t].current
    BY <1>1, <1>3, <1>5, <2>1 DEF OwnHashes
  <2>2. CASE ~op[t].current
    BY <1>1, <1>5, <2>2
  <2> QED BY <2>1, <2>2
<1>7. /\ s.wallet = ui[op[t].panel].wallet
      /\ \/ s.lock # "busy"
         \/ o.current
         \/ s.lock = ui[op[t].panel].lock /\ ~op[t].current
      /\ o.current => op[t].current /\ o.phase # "done"
      /\ o.phase # "unused"
  BY <1>1, <1>3
<1>8. UNCHANGED <<rec, acted, switches, reloads>>
  BY DEF report
<1>9. s \in PanelStates
  BY <1>3
<1> HIDE DEF s
<1>10. GoesOn(t, o, s)
  BY <1>4, <1>5, <1>6, <1>7, <1>8 DEF GoesOn
<1> QED BY <1>9, <1>10, OperationKeeps

-----------------------------------------------------------------------------
(* The ends of operations and recoveries. *)

LEMMA KeepSettles ==
  ASSUME IInv, NEW p \in Panels, Keep, UNCHANGED ui, NEW unless, unless
  PROVE  RecordsTyped /\ RecordsOwn /\ Settled(p, unless)
<1>1. ui[p] \in PanelStates /\ ui' = [ui EXCEPT ![p] = ui[p]] /\ (late \/ OwnHashes(ui[p]))
  BY DEF IInv, TypeOK, HashesOfTheirWallet
<1> QED BY <1>1, KeepTyped, KeepOwn DEF IInv, RecordsTyped, Settled

LEMMA ResolutionSettles ==
  ASSUME IInv, NEW p \in Panels, NEW w \in Wallets, NEW h \in Shown, NEW side \in {"buy", "sell"},
         NEW from \in Trades \cup {None}, NEW answer, NEW current \in BOOLEAN,
         late \/ SentBy(w, h.about), applyResolution(p, w, h, side, from, answer, current)
  PROVE  RecordsTyped /\ RecordsOwn /\ Settled(p, ui[p].wallet # w)
<1>1. TypeOK /\ ui[p] \in PanelStates /\ (late \/ OwnHashes(ui[p]))
  BY DEF IInv, TypeOK, HashesOfTheirWallet
<1>2. CASE ui[p].wallet # w
  BY <1>2, KeepSettles DEF applyResolution
<1>3. CASE ui[p].wallet = w /\ answer = "pending"
  <2>1. PICK next \in Provenance(h, from) :
          /\ Persist(w, WithHash(h, side, next))
          /\ ui' = [ui EXCEPT ![p] =
               Finished([@ EXCEPT !.lock = "unknown", !.shown = h, !.submitted = h,
                                  !.recovery = next], current)]
    BY <1>3 DEF applyResolution
  <2>2. next \in Trades \cup {None}
    BY DEF Provenance, Shown
  <2> DEFINE s == Finished([ui[p] EXCEPT !.lock = "unknown", !.shown = h, !.submitted = h,
                                         !.recovery = next], current)
  <2>3. /\ s \in PanelStates /\ s.wallet = w /\ s.lock = "unknown"
        /\ s.shown = h /\ s.submitted = h /\ s.approval = ui[p].approval
    BY <1>1, <1>3, <2>2 DEF Finished, PanelStates
  <2>4. late \/ OwnHashes(s)
    BY <1>1, <1>3, <2>3 DEF OwnHashes
  <2>5. ui' = [ui EXCEPT ![p] = s]
    BY <2>1
  <2> HIDE DEF s
  <2>6. Settled(p, ui[p].wallet # w)
    BY <1>3, <2>3, <2>4, <2>5 DEF Settled
  <2>7. WithHash(h, side, next) \in Record /\ WithHash(h, side, next).about = h.about
    BY <2>2, HashTyped DEF WithHash
  <2>8. RecordsTyped
    BY <1>1, <2>1, <2>7, WriteTyped DEF Persist, RecordsTyped, Causes
  <2>9. RecordsOwn
    BY <1>1, <2>1, <2>7, WriteOwn DEF Persist
  <2> QED BY <2>6, <2>8, <2>9
<1>4. CASE ui[p].wallet = w /\ answer # "pending"
  <2>1. /\ Clear(w, h.about, IF from \in {h.about, None} THEN "no" ELSE "crossed")
        /\ ui' = [ui EXCEPT ![p] =
             Finished([@ EXCEPT !.lock = "open", !.shown = h, !.submitted = None,
                                !.recovery = None, !.quote = FALSE], current)]
    BY <1>4 DEF applyResolution
  <2> DEFINE s == Finished([ui[p] EXCEPT !.lock = "open", !.shown = h, !.submitted = None,
                                         !.recovery = None, !.quote = FALSE], current)
  <2>2. /\ s \in PanelStates /\ s.wallet = w /\ s.lock = "open"
        /\ s.shown = h /\ s.submitted = None /\ s.approval = ui[p].approval
    BY <1>1, <1>4 DEF Finished, PanelStates
  <2>3. late \/ OwnHashes(s)
    BY <1>1, <1>4, <2>2 DEF OwnHashes
  <2>4. ui' = [ui EXCEPT ![p] = s]
    BY <2>1
  <2> HIDE DEF s
  <2>5. Settled(p, ui[p].wallet # w)
    BY <1>4, <2>2, <2>3, <2>4 DEF Settled
  <2>6. (IF from \in {h.about, None} THEN "no" ELSE "crossed") \in Causes
    BY DEF Causes
  <2>7. RecordsTyped
    BY <1>1, <2>1, <2>6, ClearTyped DEF RecordsTyped
  <2>8. RecordsOwn
    BY <1>1, <2>1, ClearOwn
  <2> QED BY <2>5, <2>7, <2>8
<1> QED BY <1>2, <1>3, <1>4

LEMMA CatchSettles ==
  ASSUME IInv, NEW t \in Trades, Running(t), NEW definitive \in BOOLEAN, catch(t, definitive)
  PROVE  RecordsTyped /\ RecordsOwn /\ Settled(op[t].panel, ~op[t].current)
<1> DEFINE p == op[t].panel
           w == op[t].wallet
           u == ui[p]
<1>1. /\ TypeOK /\ p \in Panels /\ w \in Wallets /\ u \in PanelStates
      /\ op[t].side \in {"buy", "sell"} /\ op[t].current \in BOOLEAN /\ SentBy(w, t)
      /\ op[t].current => w = u.wallet
      /\ late \/ OwnHashes(u)
  BY RunningKnown DEF IInv, Operations
<1>2. CASE ~op[t].current
  BY <1>1, <1>2, KeepSettles DEF catch
<1>3. CASE op[t].current /\ u.submitted # None
  <2> DEFINE s == Finished([u EXCEPT !.lock = "unknown", !.shown = u.submitted], TRUE)
             r == WithHash(u.submitted, op[t].side, u.recovery)
  <2>1. Persist(w, r) /\ ui' = [ui EXCEPT ![p] = s]
    BY <1>3 DEF catch
  <2>2. u.submitted \in Shown /\ u.recovery \in Trades \cup {None}
    BY <1>1, <1>3 DEF PanelStates
  <2>3. /\ s \in PanelStates /\ s.wallet = u.wallet /\ s.lock = "unknown"
        /\ s.shown = u.submitted /\ s.submitted = u.submitted /\ s.approval = u.approval
    BY <1>1, <2>2 DEF Finished, PanelStates
  <2>4. (late \/ OwnHashes(s)) /\ (late \/ SentBy(w, u.submitted.about))
    BY <1>1, <1>3, <2>3 DEF OwnHashes
  <2>5. r \in Record /\ r.about = u.submitted.about
    BY <1>1, <2>2, HashTyped DEF WithHash
  <2> HIDE DEF s, r
  <2>6. RecordsTyped
    BY <1>1, <2>1, <2>5, WriteTyped DEF Persist, RecordsTyped, Causes
  <2>7. RecordsOwn
    BY <1>1, <2>1, <2>4, <2>5, WriteOwn DEF Persist
  <2> QED BY <2>1, <2>3, <2>4, <2>6, <2>7 DEF Settled
<1>4. CASE /\ op[t].current /\ u.submitted = None
           /\ ~definitive /\ (u.approval # None \/ u.asked)
  <2> DEFINE s == Finished([u EXCEPT !.lock = "unknown",
                              !.shown = IF u.approval = None THEN @ ELSE u.approval], TRUE)
             r == Hashless(t, op[t].side)
  <2>1. Persist(w, r) /\ ui' = [ui EXCEPT ![p] = s]
    BY <1>4 DEF catch
  <2>2. u.shown \in Shown \cup {None} /\ u.approval \in Shown \cup {None}
    BY <1>1 DEF PanelStates
  <2>3. /\ s \in PanelStates /\ s.wallet = u.wallet /\ s.lock = "unknown"
        /\ s.shown \in {u.shown, u.approval} /\ s.submitted = u.submitted /\ s.approval = u.approval
    <3> DEFINE h == IF u.approval = None THEN u.shown ELSE u.approval
               f == Finished([u EXCEPT !.lock = "unknown", !.shown = h], TRUE)
    <3>1. u \in PanelStates /\ h \in Shown \cup {None} /\ h \in {u.shown, u.approval}
      BY <1>1, <2>2
    <3>2. s = f
      OBVIOUS
    <3> HIDE DEF h
    <3>3. /\ f \in PanelStates /\ f.wallet = u.wallet /\ f.lock = "unknown" /\ f.shown = h
          /\ f.submitted = u.submitted /\ f.approval = u.approval
      BY <3>1, FinishedSet
    <3> HIDE DEF s, f
    <3> QED BY <3>1, <3>2, <3>3
  <2>4. late \/ OwnHashes(s)
    <3> HIDE DEF s, r
    <3>1. {s.shown, s.submitted, s.approval} \subseteq {u.shown, u.submitted, u.approval}
      BY <2>3
    <3>2. OwnHashes(u) => OwnHashes(s)
      BY <2>3, <3>1 DEF OwnHashes
    <3> QED BY <1>1, <3>2
  <2>5. r \in Record /\ r.about = t
    BY <1>1, HashTyped DEF Hashless
  <2> HIDE DEF s, r
  <2>6. RecordsTyped
    BY <1>1, <2>1, <2>5, WriteTyped DEF Persist, RecordsTyped, Causes
  <2>7. RecordsOwn
    BY <1>1, <2>1, <2>5, WriteOwn DEF Persist
  <2> QED BY <2>1, <2>3, <2>4, <2>6, <2>7 DEF Settled
<1>5. CASE /\ op[t].current /\ u.submitted = None
           /\ ~(~definitive /\ (u.approval # None \/ u.asked))
  <2> DEFINE s == Finished([u EXCEPT !.lock = "open"], TRUE)
             cause == IF definitive THEN "no" ELSE "unseen"
  <2>1. Clear(w, t, cause) /\ ui' = [ui EXCEPT ![p] = s]
    BY <1>5 DEF catch
  <2>2. /\ s \in PanelStates /\ s.wallet = u.wallet /\ s.lock = "open"
        /\ s.shown = u.shown /\ s.submitted = u.submitted /\ s.approval = u.approval
    BY <1>1 DEF Finished, PanelStates
  <2>3. late \/ OwnHashes(s)
    <3> HIDE DEF s, cause
    <3>1. OwnHashes(u) => OwnHashes(s)
      BY <2>2 DEF OwnHashes
    <3> QED BY <1>1, <3>1
  <2>4. cause \in Causes
    BY DEF Causes
  <2> HIDE DEF s, cause
  <2>5. RecordsTyped
    BY <1>1, <2>1, <2>4, ClearTyped DEF RecordsTyped
  <2>6. RecordsOwn
    BY <1>1, <2>1, ClearOwn
  <2> QED BY <2>1, <2>2, <2>3, <2>5, <2>6 DEF Settled
<1>6. \/ ~op[t].current
      \/ op[t].current /\ u.submitted # None
      \/ op[t].current /\ u.submitted = None /\ ~definitive /\ (u.approval # None \/ u.asked)
      \/ op[t].current /\ u.submitted = None /\ ~(~definitive /\ (u.approval # None \/ u.asked))
  OBVIOUS
<1> HIDE DEF u
<1> QED BY <1>2, <1>3, <1>4, <1>5, <1>6

LEMMA EndKeeps ==
  ASSUME IInv, NEW t \in Trades, Running(t), End(t),
         Settled(op[t].panel, ~op[t].current), RecordsTyped, RecordsOwn,
         UNCHANGED <<rec, fate, late, acted, switches, reloads>>
  PROVE  IInv'
<1> DEFINE o == [op[t] EXCEPT !.phase = "done", !.current = FALSE, !.from = None]
<1>1. op[t] \in Operations
  BY DEF IInv, TypeOK
<1>2. /\ o \in Operations /\ o.panel = op[t].panel /\ o.wallet = op[t].wallet
      /\ o.phase = "done" /\ ~o.current
  BY <1>1 DEF Operations, Phases
<1>3. op' = [op EXCEPT ![t] = o]
  BY DEF End
<1>4. PICK s \in PanelStates :
        /\ ui' = [ui EXCEPT ![op[t].panel] = s]
        /\ s.wallet = ui[op[t].panel].wallet
        /\ late \/ OwnHashes(s)
        /\ s.lock # "busy" \/ (s = ui[op[t].panel] /\ ~op[t].current)
  BY DEF Settled
<1>5. /\ fate' \in [Trades -> Fates] /\ late' \in BOOLEAN /\ (late => late')
      /\ UNCHANGED <<rec, acted, switches, reloads>>
  BY DEF IInv, TypeOK
<1>6. late' \/ OwnHashes(s)
  BY <1>4
<1>7. /\ \/ s.lock # "busy"
         \/ o.current
         \/ s.lock = ui[op[t].panel].lock /\ ~op[t].current
      /\ o.current => op[t].current /\ o.phase # "done"
      /\ o.phase # "unused"
  BY <1>2, <1>4
<1> HIDE DEF o
<1>8. GoesOn(t, o, s)
  BY <1>2, <1>3, <1>4, <1>5, <1>6, <1>7 DEF GoesOn
<1> QED BY <1>2, <1>8, OperationKeeps

-----------------------------------------------------------------------------
(* Steps of operations. *)

\* The refs a report writes: those of the panel but for what is of trade t.
LEMMA RefsKnown ==
  ASSUME IInv, NEW t \in Trades, Running(t)
  PROVE  /\ Refs(t) \in PanelStates /\ Refs(t) = ui[op[t].panel]
         /\ Sent(t) \in Shown /\ Sent(t).about = t
         /\ Approval(t) \in Shown /\ Approval(t).about = t
BY RunningKnown, HashTyped DEF Refs, Sent, Approval

LEMMA GotoKeeps ==
  ASSUME IInv, NEW t \in Trades, Running(t),
         NEW phase \in Phases \ {"unused", "done"}, Goto(t, phase),
         NEW refs \in PanelStates, refs.wallet = Refs(t).wallet, refs.lock = Refs(t).lock,
         \A h \in {refs.shown, refs.submitted, refs.approval} :
           \/ h \in {Refs(t).shown, Refs(t).submitted, Refs(t).approval}
           \/ h.about = t,
         NEW hash \in Shown \cup {None}, hash # None => hash.about = t,
         report(t, refs, hash), fate' \in [Trades -> Fates], RecordsTyped, RecordsOwn
  PROVE  IInv'
<1> DEFINE o == [op[t] EXCEPT !.phase = phase]
<1>1. op[t] \in Operations
  BY RunningKnown
<1>2. /\ o \in Operations /\ o.panel = op[t].panel /\ o.wallet = op[t].wallet
      /\ o.current = op[t].current /\ o.phase \notin {"unused", "done"}
  BY <1>1 DEF Operations
<1>3. op' = [op EXCEPT ![t] = o]
  BY DEF Goto
<1> HIDE DEF o
<1> QED BY <1>2, <1>3, ReportKeeps

LEMMA AskKeeps ==
  ASSUME IInv, NEW t \in Trades,
         AskApproval(t) \/ ApprovalSubmitted(t) \/ ApprovalConfirmed(t) \/ AskWallet(t)
  PROVE  IInv'
<1>1. Running(t) /\ Keep
  BY DEF AskApproval, ApprovalSubmitted, ApprovalConfirmed, AskWallet, At, Running
<1>2. RecordsTyped /\ RecordsOwn
  BY <1>1, KeepTyped, KeepOwn DEF RecordsTyped, IInv
<1>3. fate' \in [Trades -> Fates]
  BY DEF AskApproval, ApprovalSubmitted, ApprovalConfirmed, AskWallet, IInv, TypeOK, Fates
<1>4. Refs(t) \in PanelStates
  BY <1>1, RefsKnown
<1>5. CASE AskApproval(t)
  <2> DEFINE refs == [Refs(t) EXCEPT !.asked = TRUE]
  <2>1. Goto(t, "approve") /\ report(t, refs, None)
    BY <1>5 DEF AskApproval
  <2>2. /\ refs \in PanelStates /\ refs.wallet = Refs(t).wallet /\ refs.lock = Refs(t).lock
        /\ refs.shown = Refs(t).shown /\ refs.submitted = Refs(t).submitted
        /\ refs.approval = Refs(t).approval
    BY <1>4 DEF PanelStates
  <2>3. "approve" \in Phases \ {"unused", "done"}
    BY DEF Phases
  <2> HIDE DEF refs
  <2> QED BY <1>1, <1>2, <1>3, <2>1, <2>2, <2>3, GotoKeeps
<1>6. CASE ApprovalSubmitted(t)
  <2> DEFINE refs == [Refs(t) EXCEPT !.approval = Approval(t)]
  <2>1. Goto(t, "approving") /\ report(t, refs, Approval(t))
    BY <1>6 DEF ApprovalSubmitted
  <2>2. Approval(t) \in Shown /\ Approval(t).about = t
    BY <1>1, RefsKnown
  <2>3. /\ refs \in PanelStates /\ refs.wallet = Refs(t).wallet /\ refs.lock = Refs(t).lock
        /\ refs.shown = Refs(t).shown /\ refs.submitted = Refs(t).submitted
        /\ refs.approval = Approval(t)
    BY <1>4, <2>2 DEF PanelStates
  <2>4. "approving" \in Phases \ {"unused", "done"}
    BY DEF Phases
  <2>5. \A h \in {refs.shown, refs.submitted, refs.approval} :
          \/ h \in {Refs(t).shown, Refs(t).submitted, Refs(t).approval}
          \/ h.about = t
    BY <2>2, <2>3
  <2> HIDE DEF refs
  <2> QED BY <1>1, <1>2, <1>3, <2>1, <2>2, <2>3, <2>4, <2>5, GotoKeeps
<1>7. CASE ApprovalConfirmed(t) \/ AskWallet(t)
  <2>1. PICK phase \in {"sell", "wallet"} : Goto(t, phase)
    BY <1>7 DEF ApprovalConfirmed, AskWallet
  <2>2. report(t, Refs(t), None)
    BY <1>7 DEF ApprovalConfirmed, AskWallet
  <2>3. phase \in Phases \ {"unused", "done"}
    BY DEF Phases
  <2> QED BY <1>1, <1>2, <1>3, <1>4, <2>1, <2>2, <2>3, GotoKeeps
<1> QED BY <1>5, <1>6, <1>7

LEMMA SubmittedKeeps ==
  ASSUME IInv, NEW t \in Trades, Submitted(t)
  PROVE  IInv'
<1> DEFINE refs == [Refs(t) EXCEPT !.submitted = Sent(t)]
           r == WithHash(Sent(t), op[t].side, Refs(t).recovery)
<1>1. Running(t) /\ Goto(t, "sent") /\ report(t, refs, Sent(t)) /\ Write(op[t].wallet, r, "crossed")
  BY DEF Submitted, At, Running, Persist
<1>2. /\ Refs(t) \in PanelStates /\ Sent(t) \in Shown /\ Sent(t).about = t
      /\ TypeOK /\ op[t] \in Operations /\ op[t].wallet \in Wallets /\ SentBy(op[t].wallet, t)
  BY <1>1, RefsKnown, RunningKnown DEF IInv
<1>3. /\ refs \in PanelStates /\ refs.wallet = Refs(t).wallet /\ refs.lock = Refs(t).lock
      /\ refs.shown = Refs(t).shown /\ refs.submitted = Sent(t)
      /\ refs.approval = Refs(t).approval
  BY <1>2 DEF PanelStates
<1>4. r \in Record /\ r.about = t
  BY <1>2, HashTyped DEF WithHash, PanelStates, Operations
<1>5. "sent" \in Phases \ {"unused", "done"} /\ "crossed" \in Causes
  BY DEF Phases, Causes
<1>6. fate' \in [Trades -> Fates]
  BY <1>2 DEF Submitted, TypeOK
<1> HIDE DEF refs, r
<1>7. RecordsTyped /\ RecordsOwn
  BY <1>1, <1>2, <1>4, <1>5, WriteTyped, WriteOwn DEF RecordsTyped
<1>8. \A h \in {refs.shown, refs.submitted, refs.approval} :
        \/ h \in {Refs(t).shown, Refs(t).submitted, Refs(t).approval}
        \/ h.about = t
  BY <1>2, <1>3
<1> QED BY <1>1, <1>2, <1>3, <1>5, <1>6, <1>7, <1>8, GotoKeeps

LEMMA ConfirmingKeeps ==
  ASSUME IInv, NEW t \in Trades, Confirming(t)
  PROVE  IInv'
<1>1. PICK from \in {t, None} :
        LET known == IF from = None THEN Refs(t).recovery ELSE from IN
        /\ op' = [op EXCEPT ![t].phase = "confirm", ![t].from = from]
        /\ Persist(op[t].wallet, WithHash(Sent(t), op[t].side, known))
        /\ report(t, [Refs(t) EXCEPT !.submitted = Sent(t), !.recovery = known], Sent(t))
  BY DEF Confirming
<1>2. Running(t)
  BY DEF Confirming, At, Running
<1>3. /\ Refs(t) \in PanelStates /\ Sent(t) \in Shown /\ Sent(t).about = t
      /\ TypeOK /\ op[t] \in Operations /\ op[t].wallet \in Wallets /\ SentBy(op[t].wallet, t)
  BY <1>2, RefsKnown, RunningKnown DEF IInv
<1> DEFINE known == IF from = None THEN Refs(t).recovery ELSE from
           refs == [Refs(t) EXCEPT !.submitted = Sent(t), !.recovery = known]
           r == WithHash(Sent(t), op[t].side, known)
           o == [op[t] EXCEPT !.phase = "confirm", !.from = from]
<1>4. known \in Trades \cup {None}
  BY <1>3 DEF PanelStates
<1>5. /\ refs \in PanelStates /\ refs.wallet = Refs(t).wallet /\ refs.lock = Refs(t).lock
      /\ refs.shown = Refs(t).shown /\ refs.submitted = Sent(t)
      /\ refs.approval = Refs(t).approval
  BY <1>3, <1>4 DEF PanelStates
<1>6. r \in Record /\ r.about = t
  BY <1>3, <1>4, HashTyped DEF WithHash, Operations
<1>7. /\ o \in Operations /\ o.panel = op[t].panel /\ o.wallet = op[t].wallet
      /\ o.current = op[t].current /\ o.phase \notin {"unused", "done"}
  BY <1>3 DEF Operations, Phases
<1>8. op' = [op EXCEPT ![t] = o]
  BY <1>1, <1>3 DEF TypeOK
<1>9. Write(op[t].wallet, r, "crossed") /\ report(t, refs, Sent(t)) /\ "crossed" \in Causes
  BY <1>1 DEF Persist, Causes
<1>10. fate' \in [Trades -> Fates]
  BY <1>3 DEF Confirming, TypeOK
<1> HIDE DEF refs, r, o
<1>11. RecordsTyped /\ RecordsOwn
  BY <1>3, <1>6, <1>9, WriteTyped, WriteOwn DEF RecordsTyped
<1>12. \A h \in {refs.shown, refs.submitted, refs.approval} :
         \/ h \in {Refs(t).shown, Refs(t).submitted, Refs(t).approval}
         \/ h.about = t
  BY <1>3, <1>5
<1> QED BY <1>2, <1>3, <1>5, <1>7, <1>8, <1>9, <1>10, <1>11, <1>12, ReportKeeps

LEMMA EndingKeeps ==
  ASSUME IInv, NEW t \in Trades, Fails(t) \/ Resolves(t)
  PROVE  IInv'
<1>1. /\ Running(t) /\ End(t)
      /\ UNCHANGED <<rec, fate, late, acted, switches, reloads>>
  BY DEF Fails, Resolves, At, Running
<1>2. CASE \E definitive \in BOOLEAN : catch(t, definitive)
  BY <1>1, <1>2, CatchSettles, EndKeeps
<1>3. CASE \E answer \in Answers(Sent(t), op[t].from, op[t].side, op[t].wallet) :
             applyResolution(op[t].panel, op[t].wallet, Sent(t), op[t].side, op[t].from,
                             answer, op[t].current)
  <2>1. /\ op[t].panel \in Panels /\ op[t].wallet \in Wallets /\ op[t].side \in {"buy", "sell"}
        /\ op[t].from \in Trades \cup {None} /\ op[t].current \in BOOLEAN
        /\ SentBy(op[t].wallet, t) /\ Sent(t) \in Shown /\ Sent(t).about = t
        /\ op[t].current => op[t].wallet = ui[op[t].panel].wallet
    BY <1>1, RunningKnown, RefsKnown DEF Operations
  <2>2. RecordsTyped /\ RecordsOwn /\ Settled(op[t].panel, ui[op[t].panel].wallet # op[t].wallet)
    BY <1>3, <2>1, ResolutionSettles
  <2>3. Settled(op[t].panel, ~op[t].current)
    BY <2>1, <2>2 DEF Settled
  <2> QED BY <1>1, <2>2, <2>3, EndKeeps
<1> QED BY <1>2, <1>3 DEF Fails, Resolves

-----------------------------------------------------------------------------
(* Steps of panels. *)

LEMMA PanelKnown ==
  ASSUME IInv, NEW p \in Panels
  PROVE  /\ TypeOK /\ ui[p] \in PanelStates /\ ui[p].wallet \in Wallets
         /\ rec[p] \in Recoveries \cup {None}
         /\ late \/ OwnHashes(ui[p])
         /\ late \/ \A w \in Wallets : record[w] # None => SentBy(w, record[w].about)
         /\ late \/ (rec[p] # None => SentBy(rec[p].wallet, rec[p].hash.about))
BY DEF IInv, TypeOK, PanelStates, HashesOfTheirWallet

LEMMA SubmitKeeps ==
  ASSUME IInv, NEW p \in Panels, submit(p)
  PROVE  IInv'
<1> DEFINE w == ui[p].wallet
           a == readPendingTrade(w)
           s == [ui[p] EXCEPT !.lock = "unknown", !.side = a.side,
                              !.shown = HashOf(a), !.submitted = HashOf(a)]
<1>1. CASE \E t \in Trades : Begin(p, t)
  BY <1>1, BeginKeeps
<1>2. CASE /\ a # None /\ ui' = [ui EXCEPT ![p] = s] /\ Acts(p)
           /\ UNCHANGED <<record, op, rec, fate, lost, late, captured, switches, reloads>>
  <2>1. /\ TypeOK /\ ui[p] \in PanelStates /\ w \in Wallets /\ rec[p] \in Recoveries \cup {None}
        /\ late \/ OwnHashes(ui[p])
        /\ late \/ (record[w] # None => SentBy(w, record[w].about))
    BY PanelKnown
  <2>2. a = record[w] /\ a \in Record /\ a # None
    BY <1>2, <2>1 DEF readPendingTrade
  <2>3. HashOf(a) \in Shown \cup {None} /\ (HashOf(a) # None => HashOf(a).about = a.about)
    BY <2>2 DEF HashOf, Shown, Record, Hashes
  <2>4. /\ s \in PanelStates /\ s.wallet = w /\ s.lock = "unknown"
        /\ s.shown = HashOf(a) /\ s.submitted = HashOf(a) /\ s.approval = ui[p].approval
    BY <2>1, <2>2, <2>3 DEF PanelStates, Record
  <2> HIDE DEF s, a
  <2>5. late \/ OwnHashes(s)
    BY <2>1, <2>2, <2>3, <2>4 DEF OwnHashes
  <2>6. RecordsTyped /\ RecordsOwn
    BY <1>2, <2>1, KeepTyped, KeepOwn DEF Keep, RecordsTyped
  <2>7. acted' \subseteq Panels /\ rec' = [rec EXCEPT ![p] = rec[p]]
    BY <1>2, <2>1 DEF Acts, TypeOK
  <2> QED BY <1>2, <2>1, <2>4, <2>5, <2>6, <2>7, PanelStep
<1> QED BY <1>1, <1>2 DEF submit

LEMMA RecoverKeeps ==
  ASSUME IInv, NEW p \in Panels, recover(p)
  PROVE  IInv'
<1> DEFINE u == ui[p]
           s == [u EXCEPT !.lock = "busy", !.operation = TRUE]
           r == [hash |-> u.shown, side |-> u.side, wallet |-> u.wallet,
                 from |-> u.recovery, current |-> TRUE]
           n == WithHash(u.shown, u.side, u.recovery)
<1>1. TypeOK /\ u \in PanelStates /\ u.wallet \in Wallets /\ (late \/ OwnHashes(u))
  BY PanelKnown
<1>2. /\ Write(u.wallet, n, "mistaken") /\ ui' = [ui EXCEPT ![p] = s]
      /\ rec' = [rec EXCEPT ![p] = r] /\ Acts(p)
      /\ UNCHANGED <<op, fate, late, switches, reloads>>
  BY DEF recover
<1>3. /\ u.shown \in Shown /\ u.side \in {"buy", "sell"} /\ u.recovery \in Trades \cup {None}
      /\ u.shown # None
  BY <1>1 DEF recover, PanelStates
<1>4. n \in Record /\ n.about = u.shown.about
  BY <1>3, HashTyped DEF WithHash
<1>5. /\ s \in PanelStates /\ s.wallet = u.wallet
      /\ s.shown = u.shown /\ s.submitted = u.submitted /\ s.approval = u.approval
  BY <1>1 DEF PanelStates
<1>6. r \in Recoveries /\ r.current /\ r.wallet = u.wallet /\ r.hash = u.shown
  BY <1>1, <1>3 DEF Recoveries
<1>7. r # None
  BY <1>6, NoneAssumption
<1>8. late \/ SentBy(u.wallet, u.shown.about)
  BY <1>1, <1>3 DEF OwnHashes
<1> HIDE DEF s, r, n
<1>9. late \/ OwnHashes(s)
  BY <1>1, <1>5 DEF OwnHashes
<1>10. RecordsTyped /\ RecordsOwn
  BY <1>1, <1>2, <1>4, <1>8, WriteTyped, WriteOwn DEF RecordsTyped, Causes
<1>11. acted' \subseteq Panels
  BY <1>1, <1>2 DEF Acts, TypeOK
<1> QED BY <1>2, <1>5, <1>6, <1>7, <1>8, <1>9, <1>10, <1>11, PanelStep

LEMMA AbandonKeeps ==
  ASSUME IInv, NEW p \in Panels, abandon(p)
  PROVE  IInv'
<1> DEFINE u == ui[p]
           s == [u EXCEPT !.lock = "open", !.operation = FALSE,
                   !.asked = FALSE, !.approval = None, !.submitted = None,
                   !.recovery = None, !.shown = None, !.quote = FALSE]
           t == IF record[u.wallet] = None THEN None ELSE record[u.wallet].about
<1>1. TypeOK /\ u \in PanelStates /\ u.wallet \in Wallets /\ rec[p] \in Recoveries \cup {None}
  BY PanelKnown
<1>2. /\ Clear(u.wallet, t, "abandoned") /\ ui' = [ui EXCEPT ![p] = s] /\ Acts(p)
      /\ UNCHANGED <<op, rec, fate, late, switches, reloads>>
  BY DEF abandon
<1>3. /\ s \in PanelStates /\ s.wallet = u.wallet /\ s.lock = "open"
      /\ s.shown = None /\ s.submitted = None /\ s.approval = None
  BY <1>1 DEF PanelStates
<1> HIDE DEF s, t
<1>4. OwnHashes(s)
  BY <1>3 DEF OwnHashes
<1>5. RecordsTyped /\ RecordsOwn
  BY <1>1, <1>2, ClearTyped, ClearOwn DEF RecordsTyped, Causes
<1>6. acted' \subseteq Panels /\ rec' = [rec EXCEPT ![p] = rec[p]]
  BY <1>1, <1>2 DEF Acts, TypeOK
<1> QED BY <1>1, <1>2, <1>3, <1>4, <1>5, <1>6, PanelStep

LEMMA RecoverEndsKeeps ==
  ASSUME IInv, NEW p \in Panels, RecoverEnds(p)
  PROVE  IInv'
<1> DEFINE r == rec[p]
<1>1. /\ TypeOK /\ ui[p] \in PanelStates /\ r \in Recoveries /\ r # None
      /\ late \/ OwnHashes(ui[p])
      /\ late \/ SentBy(r.wallet, r.hash.about)
      /\ r.current => r.wallet = ui[p].wallet
  BY PanelKnown DEF RecoverEnds, IInv, CurrentIsHere
<1>2. /\ r.wallet \in Wallets /\ r.hash \in Shown /\ r.side \in {"buy", "sell"}
      /\ r.from \in Trades \cup {None} /\ r.current \in BOOLEAN
      /\ ui[p].recovery \in Trades \cup {None}
  BY <1>1 DEF Recoveries, PanelStates
<1>3. /\ rec' = [rec EXCEPT ![p] = None]
      /\ UNCHANGED <<op, fate, late, acted, switches, reloads>>
  BY DEF RecoverEnds
<1>4. CASE \E answer \in check(r) :
             applyResolution(p, r.wallet, r.hash, r.side, r.from, answer, r.current)
  <2>1. RecordsTyped /\ RecordsOwn /\ Settled(p, ui[p].wallet # r.wallet)
    <3>1. PICK answer \in check(r) :
            applyResolution(p, r.wallet, r.hash, r.side, r.from, answer, r.current)
      BY <1>4
    <3>2. late \/ SentBy(r.wallet, r.hash.about)
      BY <1>1
    <3> HIDE DEF r
    <3> QED BY <1>2, <3>1, <3>2, ResolutionSettles
  <2>2. PICK s \in PanelStates :
          /\ ui' = [ui EXCEPT ![p] = s]
          /\ s.wallet = ui[p].wallet
          /\ late \/ OwnHashes(s)
          /\ s.lock # "busy" \/ (s = ui[p] /\ ui[p].wallet # r.wallet)
    BY <2>1 DEF Settled
  <2>3. s.lock # "busy" \/ (s = ui[p] /\ ~(r # None /\ r.current))
    BY <1>1, <2>2
  <2>4. acted' \subseteq Panels
    BY <1>1, <1>3 DEF TypeOK
  <2> HIDE DEF r
  <2> QED BY <1>3, <2>1, <2>2, <2>3, <2>4, PanelStep DEF r
<1>5. CASE ~r.current /\ Keep /\ UNCHANGED ui
  <2>1. RecordsTyped /\ RecordsOwn
    BY <1>1, <1>5, KeepTyped, KeepOwn DEF RecordsTyped
  <2>2. ui' = [ui EXCEPT ![p] = ui[p]] /\ acted' \subseteq Panels
    BY <1>1, <1>3, <1>5 DEF TypeOK
  <2> QED BY <1>1, <1>3, <1>5, <2>1, <2>2, PanelStep
<1>6. CASE /\ r.current
           /\ Persist(r.wallet, WithHash(r.hash, r.side, ui[p].recovery))
           /\ ui' = [ui EXCEPT ![p] = Finished([@ EXCEPT !.lock = "unknown"], TRUE)]
  <2> DEFINE n == WithHash(r.hash, r.side, ui[p].recovery)
             s == Finished([ui[p] EXCEPT !.lock = "unknown"], TRUE)
  <2>1. n \in Record /\ n.about = r.hash.about
    BY <1>2, HashTyped DEF WithHash
  <2>2. /\ s \in PanelStates /\ s.wallet = ui[p].wallet /\ s.lock = "unknown"
        /\ s.shown = ui[p].shown /\ s.submitted = ui[p].submitted /\ s.approval = ui[p].approval
    BY <1>1 DEF Finished, PanelStates
  <2>3. Write(r.wallet, n, "crossed") /\ ui' = [ui EXCEPT ![p] = s] /\ "crossed" \in Causes
    BY <1>6 DEF Persist, Causes
  <2> HIDE DEF s, n
  <2>4. late \/ OwnHashes(s)
    BY <1>1, <2>2 DEF OwnHashes
  <2>5. RecordsTyped /\ RecordsOwn
    BY <1>1, <1>2, <2>1, <2>3, WriteTyped, WriteOwn DEF RecordsTyped
  <2>6. acted' \subseteq Panels
    BY <1>1, <1>3 DEF TypeOK
  <2> QED BY <1>3, <2>2, <2>3, <2>4, <2>5, <2>6, PanelStep
<1> QED BY <1>4, <1>5, <1>6 DEF RecoverEnds

LEMMA OutsideKeeps ==
  ASSUME IInv, NEW t \in Trades, Sign(t) \/ Refuse(t) \/ Include(t)
  PROVE  IInv'
<1>1. /\ UNCHANGED <<record, ui, op, rec, late, acted, switches, reloads>>
      /\ \E outcome \in Fates : fate' = [fate EXCEPT ![t] = outcome]
      /\ \/ UNCHANGED <<lost, captured>>
         \/ lost' = [lost EXCEPT ![t] = "no"] /\ captured' = captured \ {t}
  BY DEF Sign, Refuse, Include, Becomes, Settles, Fates, Ended
<1>2. TypeOK'
  BY <1>1 DEF IInv, TypeOK, Causes
<1>3. CurrentIsHere' /\ BusyHasOperation'
  BY <1>1 DEF IInv, CurrentIsHere, BusyHasOperation, Running
<1>4. HashesOfTheirWallet'
  BY <1>1 DEF IInv, HashesOfTheirWallet, OwnHashes, SentBy
<1> QED BY <1>2, <1>3, <1>4 DEF IInv

-----------------------------------------------------------------------------

LEMMA StepIInv == IInv /\ [Next]_vars => IInv'
<1> SUFFICES ASSUME IInv, [Next]_vars PROVE IInv'
  OBVIOUS
<1>1. ASSUME NEW p \in Panels, UserStep(p) PROVE IInv'
  BY <1>1, QuoteKeeps, SubmitKeeps, RecoverKeeps, AbandonKeeps, SwitchKeeps, ReloadKeeps
     DEF UserStep
<1>2. ASSUME NEW p \in Panels, RecoverEnds(p) PROVE IInv'
  BY <1>2, RecoverEndsKeeps
<1>3. ASSUME NEW t \in Trades, OperationStep(t) PROVE IInv'
  BY <1>3, AskKeeps, SubmittedKeeps, ConfirmingKeeps, EndingKeeps DEF OperationStep
<1>4. ASSUME NEW t \in Trades, Sign(t) \/ Refuse(t) \/ Include(t) PROVE IInv'
  BY <1>4, OutsideKeeps
<1>5. CASE UNCHANGED vars
  <2>1. TypeOK'
    BY <1>5 DEF IInv, TypeOK, vars, history
  <2>2. CurrentIsHere' /\ BusyHasOperation'
    BY <1>5 DEF IInv, CurrentIsHere, BusyHasOperation, Running, vars
  <2>3. HashesOfTheirWallet'
    BY <1>5 DEF IInv, HashesOfTheirWallet, OwnHashes, SentBy, vars, history
  <2> QED BY <2>1, <2>2, <2>3 DEF IInv
<1> QED BY <1>1, <1>2, <1>3, <1>4, <1>5 DEF Next

\* Through every step of every panel, operation and recovery IInv holds.
THEOREM IInvHolds == Spec => []IInv
BY InitIInv, StepIInv, PTL DEF Spec

\* Every variable keeps its shape; in particular readPendingTrade discards no
\* record that persist has written, and no lock with it.
THEOREM TypeOKHolds == Spec => []TypeOK
<1>1. IInv => TypeOK
  BY DEF IInv
<1> QED BY <1>1, IInvHolds, PTL

\* A panel that shows a running step has a current operation or recovery, whose end
\* unlocks it: no change of wallet, adoption or late answer leaves it locked for good.
THEOREM BusyHasOperationHolds == Spec => []BusyHasOperation
<1>1. IInv => BusyHasOperation
  BY DEF IInv
<1> QED BY <1>1, IInvHolds, PTL

\* The trade that a record is about was submitted for the record's wallet, unless
\* an outdated operation's report had reached the panel's refs.
THEOREM RecordOfItsWalletHolds == Spec => []RecordOfItsWallet
<1>1. IInv => RecordOfItsWallet
  BY DEF IInv, HashesOfTheirWallet, RecordOfItsWallet, SentBy
<1> QED BY <1>1, IInvHolds, PTL

-----------------------------------------------------------------------------
(* The record is kept.  What is inductive is that every unresolved trade,    *)
(* also one that the wallet has not been asked for yet, has its record or a  *)
(* cause for its loss.  An approval whose trade was not sent counts as       *)
(* reverted, and its check clears the record: no panel of the trade's wallet *)
(* may be able to check the approval of a trade that still runs.             *)

Unresolved(t) == (Running(t) /\ fate[t] = "none") \/ Outstanding(t)

Kept ==
  \A t \in Trades : Unresolved(t) /\ lost[t] = "no" =>
    record[op[t].wallet] # None /\ record[op[t].wallet].about = t

\* Before the wallet is asked nothing can have become of a trade, and then it has.
NotAskedYet ==
  \A t \in Trades :
    /\ op[t].phase \in {"unused", "prepare", "approve", "approving", "sell"} => fate[t] = "none"
    /\ op[t].phase \in {"wallet", "sent", "confirm"} => fate[t] # "none"

\* A hash is of a trade that was begun, and of one that was signed if it is not an
\* approval's.
Known(h) == op[h.about].phase # "unused" /\ (h.hash = "sent" => fate[h.about] # "none")

HashesKnown ==
  /\ \A w \in Wallets : record[w] # None => Known(record[w])
  /\ \A p \in Panels : \A h \in {ui[p].shown, ui[p].submitted, ui[p].approval} : h # None => Known(h)
  /\ \A p \in Panels : rec[p] # None => Known(rec[p].hash)

Fresh(t) == Running(t) /\ fate[t] = "none" /\ lost[t] = "no"

\* A panel in state s with recovery c does not check the approval of t for wallet w.
Hides(t, w, s, c) ==
  /\ s.wallet = w => /\ s.submitted # Approval(t)
                     /\ s.lock = "unknown" => s.shown # Approval(t)
  /\ c # None /\ c.wallet = w => c.hash # Approval(t)

ApprovalsHidden ==
  \A t \in Trades : Fresh(t) =>
    /\ record[op[t].wallet].hash # "approval"
    /\ \A p \in Panels : Hides(t, op[t].wallet, ui[p], rec[p])

KeptInv == Kept /\ NotAskedYet /\ HashesKnown /\ ApprovalsHidden

-----------------------------------------------------------------------------
(* How a step keeps it. *)

\* An operation may end but not start again, and a fate only becomes more definite.
Advances ==
  \A t \in Trades :
    /\ op[t].phase # "unused" => op'[t].phase # "unused" /\ op'[t].wallet = op[t].wallet
    /\ fate[t] # "none" => fate'[t] # "none"
    /\ Running(t)' => Running(t)
    /\ Outstanding(t)' => Unresolved(t)

\* Every trade that is still unresolved has the record it had, or a cause.
StillRecorded ==
  \A t \in Trades : Unresolved(t)' /\ lost'[t] = "no" =>
    lost[t] = "no" /\ record'[op[t].wallet] # None /\ record'[op[t].wallet].about = t

KnownNext(h) == op'[h.about].phase # "unused" /\ (h.hash = "sent" => fate'[h.about] # "none")

LEMMA UnresolvedBefore ==
  ASSUME Advances, NEW t \in Trades, Unresolved(t)'
  PROVE  Unresolved(t)
BY DEF Advances, Unresolved

\* An unresolved trade was begun.
LEMMA UnresolvedKnown ==
  ASSUME IInv, KeptInv, NEW t \in Trades, Unresolved(t)
  PROVE  op[t].phase # "unused" /\ op[t].wallet \in Wallets
<1>1. op[t].phase # "unused"
  BY DEF KeptInv, NotAskedYet, Unresolved, Outstanding, Running
<1> QED BY <1>1 DEF IInv, CurrentIsHere

LEMMA FreshBefore ==
  ASSUME IInv, KeptInv, Advances, StillRecorded, NEW t \in Trades, Fresh(t)'
  PROVE  /\ Fresh(t) /\ op'[t].wallet = op[t].wallet /\ op[t].wallet \in Wallets
         /\ record'[op[t].wallet] # None /\ record'[op[t].wallet].about = t
<1>1. Running(t) /\ op'[t].wallet = op[t].wallet
  BY DEF Advances, Fresh, Running
<1>2. fate[t] = "none" /\ Unresolved(t)'
  BY DEF Advances, Fresh, Unresolved
<1>3. /\ lost[t] = "no"
      /\ record'[op[t].wallet] # None /\ record'[op[t].wallet].about = t
  BY <1>2 DEF StillRecorded, Fresh
<1> QED BY <1>1, <1>2, <1>3, RunningKnown DEF Fresh

LEMMA WriteStill ==
  ASSUME IInv, KeptInv, Advances, NEW w \in Wallets, NEW r \in Record, NEW cause,
         cause # "no" \/ record[w] = None, Write(w, r, cause)
  PROVE  StillRecorded
<1> SUFFICES ASSUME NEW t \in Trades, Unresolved(t)', lost'[t] = "no"
             PROVE  /\ lost[t] = "no"
                    /\ record'[op[t].wallet] # None /\ record'[op[t].wallet].about = t
  BY DEF StillRecorded
<1>1. Unresolved(t) /\ op[t].wallet \in Wallets
  BY UnresolvedBefore, UnresolvedKnown
<1>2. /\ record \in [Wallets -> Record \cup {None}]
      /\ record' = [record EXCEPT ![w] = r] /\ r # None
  BY NoneAssumption DEF IInv, TypeOK, Write
<1>3. lost[t] = "no" /\ ~(t \in Recorded(w) \ {r.about} /\ cause # "no")
  BY DEF Write
<1>4. record[op[t].wallet] # None /\ record[op[t].wallet].about = t
  BY <1>1, <1>3 DEF KeptInv, Kept
<1>5. CASE op[t].wallet # w
  BY <1>1, <1>2, <1>3, <1>4, <1>5
<1>6. CASE op[t].wallet = w
  <2>1. t \in Recorded(w) /\ cause # "no"
    BY <1>1, <1>4, <1>6 DEF Recorded, Unresolved
  <2>2. r.about = t
    BY <1>3, <2>1
  <2> QED BY <1>2, <1>3, <1>6, <2>2
<1> QED BY <1>5, <1>6

LEMMA ClearStill ==
  ASSUME IInv, KeptInv, Advances, NEW w \in Wallets, NEW u, NEW cause, Clear(w, u, cause),
         u \in Trades /\ cause = "no" /\ lost[u] = "no" /\ op[u].wallet = w => ~Unresolved(u)'
  PROVE  StillRecorded
<1> SUFFICES ASSUME NEW t \in Trades, Unresolved(t)', lost'[t] = "no"
             PROVE  /\ lost[t] = "no"
                    /\ record'[op[t].wallet] # None /\ record'[op[t].wallet].about = t
  BY DEF StillRecorded
<1>1. Unresolved(t) /\ op[t].wallet \in Wallets
  BY UnresolvedBefore, UnresolvedKnown
<1>2. /\ record \in [Wallets -> Record \cup {None}]
      /\ record' = [record EXCEPT ![w] = None]
  BY DEF IInv, TypeOK, Clear
<1>3. lost'[t] = IF lost[t] # "no" \/ t \notin Recorded(w) THEN lost[t]
                 ELSE IF t = u THEN cause ELSE "crossed"
  BY DEF Clear
<1>4. CASE op[t].wallet = w /\ lost[t] = "no"
  <2>1. t \in Recorded(w)
    BY <1>1, <1>4 DEF KeptInv, Kept, Recorded, Unresolved
  <2> QED BY <1>3, <1>4, <2>1
<1>5. CASE op[t].wallet # w \/ lost[t] # "no"
  <2>1. t \notin Recorded(w) \/ lost[t] # "no"
    BY <1>5 DEF Recorded
  <2>2. lost[t] = "no"
    BY <1>3, <2>1
  <2> QED BY <1>1, <1>2, <1>5, <2>2 DEF KeptInv, Kept
<1> QED BY <1>4, <1>5

LEMMA KeepStill ==
  ASSUME IInv, KeptInv, Advances, Keep
  PROVE  StillRecorded
BY UnresolvedBefore DEF StillRecorded, Keep, KeptInv, Kept

LEMMA KeptNext ==
  ASSUME IInv, KeptInv, Advances, StillRecorded
  PROVE  Kept'
<1> SUFFICES ASSUME NEW t \in Trades, Unresolved(t)', lost'[t] = "no"
             PROVE  (record[op[t].wallet] # None /\ record[op[t].wallet].about = t)'
  BY DEF Kept
<1>1. op[t].phase # "unused"
  BY UnresolvedBefore, UnresolvedKnown
<1>2. op'[t].wallet = op[t].wallet
  BY <1>1 DEF Advances
<1> QED BY <1>2 DEF StillRecorded

LEMMA KnownAdvances ==
  ASSUME Advances, NEW h \in Record \cup Shown, Known(h)
  PROVE  KnownNext(h)
<1>1. h.about \in Trades
  BY DEF Record, Shown
<1> QED BY <1>1 DEF Advances, Known, KnownNext

\* The records that a step leaves are of known trades.
RecordsKnown ==
  \A w \in Wallets : record'[w] \in {record[w], None} \/ KnownNext(record'[w])

\* A step that changes one panel and its recovery.
LEMMA PanelMoves ==
  ASSUME IInv, KeptInv, Advances, StillRecorded, RecordsKnown, NotAskedYet',
         NEW p \in Panels, NEW s \in PanelStates, NEW c \in Recoveries \cup {None},
         ui' = [ui EXCEPT ![p] = s], rec' = [rec EXCEPT ![p] = c],
         \A h \in {s.shown, s.submitted, s.approval} : h = None \/ KnownNext(h),
         c = None \/ KnownNext(c.hash),
         \A t \in Trades : Fresh(t)' =>
           record'[op[t].wallet].hash # "approval" /\ Hides(t, op[t].wallet, s, c)
  PROVE  KeptInv'
<1>1. /\ TypeOK
      /\ ui'[p] = s /\ \A q \in Panels \ {p} : ui'[q] = ui[q]
      /\ rec'[p] = c /\ \A q \in Panels \ {p} : rec'[q] = rec[q]
  BY DEF IInv, TypeOK
<1>2. HashesKnown'
  <2>1. \A w \in Wallets : record'[w] # None => KnownNext(record'[w])
    <3>1. \A w \in Wallets : record[w] # None => KnownNext(record[w])
      BY <1>1, KnownAdvances DEF KeptInv, HashesKnown, TypeOK
    <3> QED BY <3>1 DEF RecordsKnown
  <2>2. \A q \in Panels : \A h \in {ui'[q].shown, ui'[q].submitted, ui'[q].approval} :
          h # None => KnownNext(h)
    <3>1. \A q \in Panels : \A h \in {ui[q].shown, ui[q].submitted, ui[q].approval} :
            h # None => KnownNext(h)
      <4>1. \A q \in Panels : \A h \in {ui[q].shown, ui[q].submitted, ui[q].approval} :
              h # None => h \in Shown
        BY <1>1 DEF TypeOK, PanelStates
      <4> QED BY <4>1, KnownAdvances DEF KeptInv, HashesKnown
    <3> QED BY <1>1, <3>1
  <2>3. \A q \in Panels : rec'[q] # None => KnownNext(rec'[q].hash)
    <3>1. \A q \in Panels : rec[q] # None => rec[q].hash \in Shown
      BY <1>1 DEF TypeOK, Recoveries
    <3>2. \A q \in Panels : rec[q] # None => KnownNext(rec[q].hash)
      BY <3>1, KnownAdvances DEF KeptInv, HashesKnown
    <3> QED BY <1>1, <3>2
  <2> QED BY <2>1, <2>2, <2>3 DEF HashesKnown, Known, KnownNext
<1>3. ApprovalsHidden'
  <2> SUFFICES ASSUME NEW t \in Trades, Fresh(t)'
               PROVE  /\ record'[op'[t].wallet].hash # "approval"
                      /\ \A q \in Panels : Hides(t, op'[t].wallet, ui'[q], rec'[q])
    BY DEF ApprovalsHidden, Hides, Approval
  <2>1. Fresh(t) /\ op'[t].wallet = op[t].wallet
    BY FreshBefore
  <2>2. \A q \in Panels : Hides(t, op[t].wallet, ui[q], rec[q])
    BY <2>1 DEF KeptInv, ApprovalsHidden
  <2> QED BY <1>1, <2>1, <2>2
<1> QED BY <1>2, <1>3, KeptNext DEF KeptInv

\* If the panel's wallet has no fresh trade left, nothing is to be hidden from it.
LEMMA WalletSettled ==
  ASSUME IInv, KeptInv, Advances, StillRecorded,
         NEW p \in Panels, NEW w \in Wallets, \A v \in Wallets \ {w} : record'[v] = record[v],
         NEW s \in PanelStates, s.wallet = w,
         NEW c \in Recoveries \cup {None}, c \in {rec[p], None} \/ c.wallet = w,
         \A t \in Trades : Fresh(t)' => op[t].wallet # w,
         NEW t \in Trades, Fresh(t)'
  PROVE  record'[op[t].wallet].hash # "approval" /\ Hides(t, op[t].wallet, s, c)
<1>1. Fresh(t) /\ op[t].wallet \in Wallets /\ op[t].wallet # w
  BY FreshBefore
<1>2. record'[op[t].wallet].hash # "approval" /\ Hides(t, op[t].wallet, ui[p], rec[p])
  BY <1>1 DEF KeptInv, ApprovalsHidden
<1> QED BY <1>1, <1>2 DEF Hides

\* A hash that a panel or a recovery of wallet w may check is not of a fresh trade
\* of that wallet.
Checkable(w, h) ==
  \E p \in Panels :
    \/ /\ ui[p].wallet = w
       /\ h = ui[p].submitted \/ (ui[p].lock = "unknown" /\ h = ui[p].shown)
    \/ rec[p] # None /\ rec[p].wallet = w /\ rec[p].hash = h

LEMMA CheckableNotFresh ==
  ASSUME KeptInv, NEW w, NEW h \in Shown, Checkable(w, h), Fresh(h.about)
  PROVE  op[h.about].wallet # w
<1>1. h.about \in Trades /\ h \in {Sent(h.about), Approval(h.about)}
  BY DEF Shown, Sent, Approval
<1>2. CASE h = Sent(h.about)
  <2>1. h # None /\ h.hash = "sent"
    BY <1>2, NoneAssumption DEF Sent
  <2>2. Known(h)
    BY <2>1 DEF KeptInv, HashesKnown, Checkable
  <2> QED BY <2>1, <2>2 DEF Known, Fresh
<1>3. CASE h = Approval(h.about)
  BY <1>1, <1>3 DEF KeptInv, ApprovalsHidden, Hides, Checkable
<1> QED BY <1>1, <1>2, <1>3

\* Writing such a hash leaves its wallet without a fresh trade; so does clearing.
LEMMA WriteSettles ==
  ASSUME IInv, KeptInv, Advances, StillRecorded,
         NEW w \in Wallets, NEW h \in Shown, Checkable(w, h), record'[w].about = h.about,
         NEW t \in Trades, Fresh(t)'
  PROVE  op[t].wallet # w
<1>1. Fresh(t) /\ (op[t].wallet = w => t = h.about)
  BY FreshBefore
<1> QED BY <1>1, CheckableNotFresh

LEMMA ClearSettles ==
  ASSUME IInv, KeptInv, Advances, StillRecorded,
         NEW w \in Wallets, record'[w] = None, NEW t \in Trades, Fresh(t)'
  PROVE  op[t].wallet # w
BY FreshBefore

LEMMA CheckableKnown ==
  ASSUME KeptInv, NEW w, NEW h \in Shown, h # None, Checkable(w, h)
  PROVE  Known(h)
BY DEF KeptInv, HashesKnown, Checkable

-----------------------------------------------------------------------------
(* The steps of operations, as far as the record's keeping sees them. *)

LEMMA OperationsStay ==
  ASSUME KeptInv, UNCHANGED <<op, fate>>
  PROVE  Advances /\ NotAskedYet'
<1>1. NotAskedYet'
  BY DEF KeptInv, NotAskedYet
<1>2. Advances
  BY DEF Advances, Running, Outstanding, Unresolved
<1> QED BY <1>1, <1>2

\* One operation goes on to a later await, or ends.
LEMMA OperationAdvances ==
  ASSUME IInv, KeptInv, NEW t \in Trades, Running(t), NEW o, op' = [op EXCEPT ![t] = o],
         o.wallet = op[t].wallet, o.phase # "unused",
         \/ fate' = fate
         \/ fate[t] = "none" /\ fate' = [fate EXCEPT ![t] = "open"],
         \/ o.phase = "done"
         \/ o.phase \in {"approve", "approving", "sell"} /\ fate'[t] = "none"
         \/ o.phase \in {"wallet", "sent", "confirm"} /\ fate'[t] # "none"
  PROVE  Advances /\ NotAskedYet' /\ op'[t] = o
<1>1. /\ op'[t] = o /\ \A u \in Trades \ {t} : op'[u] = op[u] /\ fate'[u] = fate[u]
      /\ fate'[t] = fate[t] \/ (fate[t] = "none" /\ fate'[t] = "open")
  BY DEF IInv, TypeOK
<1>2. NotAskedYet'
  BY <1>1 DEF KeptInv, NotAskedYet
<1>3. \A u \in Trades \ {t} :
        /\ Running(u)' => Running(u)
        /\ Outstanding(u)' => Unresolved(u)
  BY <1>1 DEF Running, Outstanding, Unresolved
<1>4. Outstanding(t)' => Unresolved(t)
  BY <1>1 DEF Outstanding, Unresolved
<1> QED BY <1>1, <1>2, <1>3, <1>4 DEF Advances

\* The hashes a panel reads from the storage.
LEMMA ReadHides ==
  ASSUME IInv, KeptInv, NEW w \in Wallets
  PROVE  /\ \A h \in {ReadBy(w).shown, ReadBy(w).submitted, ReadBy(w).approval} :
              h = None \/ (h \in Shown /\ Known(h))
         /\ \A t \in Trades : Fresh(t) /\ op[t].wallet = w =>
              ReadBy(w).submitted # Approval(t) /\ ReadBy(w).shown # Approval(t)
<1> DEFINE r == readPendingTrade(w)
<1>1. r \in Record \cup {None} /\ (r # None => r = record[w])
  BY DEF readPendingTrade, IInv, TypeOK
<1>2. ReadBy(w).shown = HashOf(r) /\ ReadBy(w).submitted = HashOf(r) /\ ReadBy(w).approval = None
  BY DEF ReadBy
<1>3. HashOf(r) = None \/ (/\ r # None /\ HashOf(r) \in Shown
                           /\ HashOf(r).about = r.about /\ HashOf(r).hash = r.hash)
  BY <1>1 DEF HashOf, Record, Hashes, Shown
<1> HIDE DEF r
<1>4. HashOf(r) = None \/ Known(HashOf(r))
  BY <1>1, <1>3 DEF KeptInv, HashesKnown, Known
<1>5. ASSUME NEW t \in Trades, Fresh(t), op[t].wallet = w
      PROVE  HashOf(r) # Approval(t)
  <2>1. record[w].hash # "approval"
    BY <1>5 DEF KeptInv, ApprovalsHidden
  <2>2. Approval(t) \in Shown /\ Approval(t).hash = "approval"
    BY HashTyped DEF Approval
  <2> QED BY <1>1, <1>3, <2>1, <2>2, NoneAssumption
<1> QED BY <1>2, <1>3, <1>4, <1>5

LEMMA QuoteKept ==
  ASSUME IInv, KeptInv, NEW p \in Panels, getQuote(p) \/ invalidateQuote(p) \/ changeSide(p)
  PROVE  KeptInv'
<1>1. /\ TypeOK /\ ui[p].lock = "open" /\ ui[p] \in PanelStates
      /\ UNCHANGED <<record, op, rec, fate, history, switches, reloads>>
  BY DEF IInv, TypeOK, getQuote, invalidateQuote, changeSide, SetQuote
<1>2. PICK s \in PanelStates :
        /\ ui' = [ui EXCEPT ![p] = s]
        /\ s.lock = "open" /\ s.wallet = ui[p].wallet /\ s.approval = ui[p].approval
        /\ s.submitted = ui[p].submitted /\ s.shown \in {ui[p].shown, None}
  <2>1. CASE changeSide(p)
    <3>1. PICK side \in {"buy", "sell"} :
            ui' = [ui EXCEPT ![p].side = side, ![p].quote = FALSE, ![p].shown = None]
      BY <2>1 DEF changeSide
    <3>2. [ui[p] EXCEPT !.side = side, !.quote = FALSE, !.shown = None] \in PanelStates
      BY <1>1 DEF PanelStates
    <3> QED BY <1>1, <3>1, <3>2 DEF TypeOK, PanelStates
  <2>2. CASE \E ready \in BOOLEAN : SetQuote(p, ready)
    <3>1. PICK ready \in BOOLEAN : ui' = [ui EXCEPT ![p].quote = ready]
      BY <2>2 DEF SetQuote
    <3>2. [ui[p] EXCEPT !.quote = ready] \in PanelStates
      BY <1>1 DEF PanelStates
    <3> QED BY <1>1, <3>1, <3>2 DEF TypeOK, PanelStates
  <2> QED BY <2>1, <2>2 DEF getQuote, invalidateQuote
<1>3. Advances /\ NotAskedYet'
  BY <1>1, OperationsStay
<1>4. StillRecorded /\ RecordsKnown
  BY <1>1, <1>3, KeepStill DEF Keep, history, RecordsKnown
<1>5. \A h \in {s.shown, s.submitted, s.approval} : h = None \/ KnownNext(h)
  <2>1. \A h \in {s.shown, s.submitted, s.approval} : h = None \/ (Known(h) /\ h \in Shown)
    BY <1>1, <1>2 DEF KeptInv, HashesKnown, PanelStates
  <2> QED BY <1>3, <2>1, KnownAdvances
<1>6. rec[p] \in Recoveries \cup {None} /\ (rec[p] = None \/ KnownNext(rec[p].hash))
  <2>1. rec[p] \in Recoveries \cup {None} /\ (rec[p] # None => rec[p].hash \in Shown /\ Known(rec[p].hash))
    BY <1>1 DEF TypeOK, KeptInv, HashesKnown, Recoveries
  <2> QED BY <1>3, <2>1, KnownAdvances
<1>7. ASSUME NEW t \in Trades, Fresh(t)'
      PROVE  record'[op[t].wallet].hash # "approval" /\ Hides(t, op[t].wallet, s, rec[p])
  <2>1. Fresh(t)
    BY <1>3, <1>4, <1>7, FreshBefore
  <2>2. record[op[t].wallet].hash # "approval" /\ Hides(t, op[t].wallet, ui[p], rec[p])
    BY <2>1 DEF KeptInv, ApprovalsHidden
  <2> QED BY <1>1, <1>2, <2>2 DEF Hides
<1>8. rec' = [rec EXCEPT ![p] = rec[p]]
  BY <1>1 DEF TypeOK
<1> QED BY <1>2, <1>3, <1>4, <1>5, <1>6, <1>7, <1>8, PanelMoves

\* A change of wallet and a reload read what the storage says.
LEMMA IdentityKept ==
  ASSUME IInv, KeptInv, NEW p \in Panels, SwitchWallet(p) \/ Reload(p)
  PROVE  KeptInv'
<1>1. /\ TypeOK /\ ui[p] \in PanelStates /\ ui[p].wallet \in Wallets
      /\ rec[p] \in Recoveries \cup {None}
      /\ UNCHANGED <<record, fate, history>>
  BY PanelKnown DEF SwitchWallet, Reload
<1>2. PICK w \in Wallets : ui' = [ui EXCEPT ![p] = ReadBy(w)]
  BY <1>1 DEF SwitchWallet, Reload
<1>3. \A t \in Trades :
        /\ op'[t].phase = op[t].phase \/ (op[t].phase # "unused" /\ op'[t].phase = "done")
        /\ op'[t].wallet = op[t].wallet
  <2>1. \A t \in Trades : op[t] \in Operations
    BY <1>1 DEF TypeOK
  <2>2. CASE SwitchWallet(p)
    BY <2>1, <2>2 DEF SwitchWallet, Outdated, Operations
  <2>3. CASE Reload(p)
    BY <2>1, <2>3 DEF Reload, Operations
  <2> QED BY <2>2, <2>3
<1>4. Advances /\ NotAskedYet'
  <2>1. NotAskedYet'
    BY <1>1, <1>3 DEF KeptInv, NotAskedYet
  <2>2. Advances
    BY <1>1, <1>3 DEF Advances, Running, Outstanding, Unresolved
  <2> QED BY <2>1, <2>2
<1>5. StillRecorded /\ RecordsKnown
  BY <1>1, <1>4, KeepStill DEF Keep, history, RecordsKnown
<1>6. PICK c \in Recoveries \cup {None} :
        /\ rec' = [rec EXCEPT ![p] = c]
        /\ c = None \/ (rec[p] # None /\ c.hash = rec[p].hash /\ c.wallet = rec[p].wallet)
  <2>1. CASE rec' = [rec EXCEPT ![p] = None]
    BY <2>1
  <2>2. CASE rec[p] # None /\ rec' = [rec EXCEPT ![p] = [rec[p] EXCEPT !.current = FALSE]]
    <3>1. rec[p] \in Recoveries
      BY <1>1, <2>2
    <3>2. /\ [rec[p] EXCEPT !.current = FALSE] \in Recoveries
          /\ [rec[p] EXCEPT !.current = FALSE].hash = rec[p].hash
          /\ [rec[p] EXCEPT !.current = FALSE].wallet = rec[p].wallet
      BY <3>1 DEF Recoveries
    <3> QED BY <2>2, <3>2
  <2> QED BY <1>1, <2>1, <2>2 DEF SwitchWallet, Outdated, Reload, TypeOK
<1>7. c = None \/ KnownNext(c.hash)
  <2>1. c # None => c.hash \in Shown /\ Known(c.hash)
    BY <1>1, <1>6 DEF KeptInv, HashesKnown, Recoveries
  <2> QED BY <1>4, <2>1, KnownAdvances
<1>8. ReadBy(w) \in PanelStates /\ ReadBy(w).wallet = w
  BY <1>1, ReadTyped
<1>9. \A h \in {ReadBy(w).shown, ReadBy(w).submitted, ReadBy(w).approval} :
        h = None \/ KnownNext(h)
  BY <1>4, ReadHides, KnownAdvances
<1>10. ASSUME NEW t \in Trades, Fresh(t)'
       PROVE  record'[op[t].wallet].hash # "approval" /\ Hides(t, op[t].wallet, ReadBy(w), c)
  <2>1. Fresh(t)
    BY <1>4, <1>5, <1>10, FreshBefore
  <2>2. record[op[t].wallet].hash # "approval" /\ Hides(t, op[t].wallet, ui[p], rec[p])
    BY <2>1 DEF KeptInv, ApprovalsHidden
  <2>3. op[t].wallet = w => ReadBy(w).submitted # Approval(t) /\ ReadBy(w).shown # Approval(t)
    BY <2>1, ReadHides
  <2> QED BY <1>1, <1>6, <1>8, <2>2, <2>3 DEF Hides
<1> QED BY <1>2, <1>4, <1>5, <1>6, <1>7, <1>8, <1>9, <1>10, PanelMoves

\* A panel's old hashes are still known after a step.
LEMMA OldKnown ==
  ASSUME IInv, KeptInv, Advances, NEW p \in Panels
  PROVE  /\ \A h \in {ui[p].shown, ui[p].submitted, ui[p].approval} :
              h = None \/ (h \in Shown /\ KnownNext(h))
         /\ rec[p] = None \/ (rec[p].hash \in Shown /\ KnownNext(rec[p].hash))
<1>1. \A h \in {ui[p].shown, ui[p].submitted, ui[p].approval} :
        h = None \/ (h \in Shown /\ Known(h))
  BY DEF IInv, TypeOK, PanelStates, KeptInv, HashesKnown
<1>2. rec[p] = None \/ (rec[p].hash \in Shown /\ Known(rec[p].hash))
  BY DEF IInv, TypeOK, Recoveries, KeptInv, HashesKnown
<1> QED BY <1>1, <1>2, KnownAdvances

\* The submission that finds a record adopts it.
LEMMA AdoptKept ==
  ASSUME IInv, KeptInv, NEW p \in Panels,
         NEW r, r = readPendingTrade(ui[p].wallet), r # None,
         ui' = [ui EXCEPT ![p].lock = "unknown", ![p].side = r.side,
                          ![p].shown = HashOf(r), ![p].submitted = HashOf(r)],
         UNCHANGED <<record, op, rec, fate, lost, late, captured, switches, reloads>>
  PROVE  KeptInv'
<1> DEFINE w == ui[p].wallet
           s == [ui[p] EXCEPT !.lock = "unknown", !.side = r.side,
                              !.shown = HashOf(r), !.submitted = HashOf(r)]
<1>1. /\ TypeOK /\ ui[p] \in PanelStates /\ w \in Wallets
      /\ rec[p] \in Recoveries \cup {None}
  BY PanelKnown
<1>2. r = record[w] /\ r \in Record
  BY <1>1 DEF readPendingTrade
<1>3. ReadBy(w).shown = HashOf(r) /\ ReadBy(w) \in PanelStates
  BY <1>1, ReadTyped DEF ReadBy
<1>4. /\ s \in PanelStates /\ s.wallet = w /\ s.lock = "unknown"
      /\ s.shown = HashOf(r) /\ s.submitted = HashOf(r) /\ s.approval = ui[p].approval
  BY <1>1, <1>2, <1>3 DEF PanelStates, Record
<1>5. ui' = [ui EXCEPT ![p] = s] /\ rec' = [rec EXCEPT ![p] = rec[p]]
  BY <1>1 DEF TypeOK
<1> HIDE DEF s
<1>6. Advances /\ NotAskedYet'
  BY OperationsStay
<1>7. StillRecorded /\ RecordsKnown
  BY <1>6, KeepStill DEF Keep, RecordsKnown
<1>8. /\ \A h \in {s.shown, s.submitted, s.approval} : h = None \/ KnownNext(h)
      /\ rec[p] = None \/ KnownNext(rec[p].hash)
  <2>1. HashOf(r) = None \/ KnownNext(HashOf(r))
    BY <1>1, <1>3, <1>6, ReadHides, KnownAdvances
  <2> QED BY <1>4, <1>6, <2>1, OldKnown
<1>9. ASSUME NEW t \in Trades, Fresh(t)'
      PROVE  record'[op[t].wallet].hash # "approval" /\ Hides(t, op[t].wallet, s, rec[p])
  <2>1. Fresh(t)
    BY <1>6, <1>7, <1>9, FreshBefore
  <2>2. record[op[t].wallet].hash # "approval" /\ Hides(t, op[t].wallet, ui[p], rec[p])
    BY <2>1 DEF KeptInv, ApprovalsHidden
  <2>3. op[t].wallet = w => HashOf(r) # Approval(t)
    BY <1>1, <1>3, <2>1, ReadHides
  <2> QED BY <1>4, <2>2, <2>3 DEF Hides
<1> QED BY <1>1, <1>4, <1>5, <1>6, <1>7, <1>8, <1>9, PanelMoves

\* A submission begins: no panel knows a hash of it yet.
LEMMA BeginKept ==
  ASSUME IInv, KeptInv, NEW p \in Panels, NEW t \in Trades,
         record[ui[p].wallet] = None, Begin(p, t)
  PROVE  KeptInv'
<1> DEFINE w == ui[p].wallet
           o == [phase |-> "prepare", panel |-> p, wallet |-> w,
                 side |-> ui[p].side, current |-> TRUE, from |-> None]
<1>1. /\ TypeOK /\ ui[p] \in PanelStates /\ w \in Wallets
      /\ op[t].phase = "unused" /\ fate[t] = "none" /\ UNCHANGED <<rec, fate>>
      /\ op \in [Trades -> Operations]
  BY PanelKnown DEF Begin, KeptInv, NotAskedYet, TypeOK
<1>2. PICK r \in Record : /\ r.about = t /\ r.hash = "none" /\ r # None
                          /\ Write(w, r, "no") /\ record' = [record EXCEPT ![w] = r]
  <2>1. ui[p].side \in {"buy", "sell"}
    BY <1>1 DEF PanelStates
  <2>2. /\ Hashless(t, ui[p].side) \in Record /\ Hashless(t, ui[p].side).about = t
        /\ Hashless(t, ui[p].side).hash = "none"
    BY <2>1, HashTyped DEF Hashless
  <2>3. Write(w, Hashless(t, ui[p].side), "no")
    BY DEF Begin
  <2> QED BY <2>2, <2>3, NoneAssumption DEF Write
<1>3. /\ op'[t] = o /\ \A u \in Trades \ {t} : op'[u] = op[u]
  BY <1>1 DEF Begin
<1>4. /\ ui' = [ui EXCEPT ![p] = [ui[p] EXCEPT !.lock = "busy", !.operation = TRUE,
                                     !.approval = None, !.asked = (ui[p].side = "buy")]]
  BY DEF Begin
<1>5. /\ \A q \in Panels : /\ ui'[q].wallet = ui[q].wallet
                           /\ ui'[q].lock \in {ui[q].lock, "busy"}
                           /\ ui'[q].shown = ui[q].shown /\ ui'[q].submitted = ui[q].submitted
                           /\ ui'[q].approval \in {ui[q].approval, None}
  BY <1>1, <1>4 DEF TypeOK, PanelStates
<1>6. /\ record'[w] = r /\ \A v \in Wallets \ {w} : record'[v] = record[v]
  BY <1>1, <1>2 DEF TypeOK
<1>7. lost' = lost
  <2>1. lost' = [u \in Trades |-> IF lost[u] = "no" /\ u \in Recorded(w) \ {r.about} THEN "no"
                                  ELSE lost[u]]
    BY <1>2 DEF Write
  <2> QED BY <1>1, <2>1 DEF TypeOK
<1>8. \A u \in Trades \ {t} : /\ Unresolved(u)' => Unresolved(u)
                              /\ Fresh(u)' => Fresh(u)
  BY <1>1, <1>3, <1>7 DEF Unresolved, Fresh, Running, Outstanding
<1>9. Kept'
  <2> SUFFICES ASSUME NEW u \in Trades, Unresolved(u)', lost'[u] = "no"
               PROVE  (record[op[u].wallet] # None /\ record[op[u].wallet].about = u)'
    BY DEF Kept
  <2>1. CASE u = t
    BY <1>2, <1>3, <1>6, <2>1
  <2>2. CASE u # t
    <3>1. Unresolved(u) /\ op'[u] = op[u] /\ lost[u] = "no"
      BY <1>3, <1>7, <1>8, <2>2
    <3>2. record[op[u].wallet] # None /\ record[op[u].wallet].about = u /\ op[u].wallet \in Wallets
      BY <3>1, UnresolvedKnown DEF KeptInv, Kept
    <3> QED BY <1>6, <3>1, <3>2
  <2> QED BY <2>1, <2>2
<1>10. NotAskedYet'
  BY <1>1, <1>3 DEF KeptInv, NotAskedYet
<1>11. HashesKnown'
  <2>1. \A h \in Record \cup Shown : Known(h) => Known(h)'
    BY <1>1, <1>3 DEF Known, Record, Shown
  <2>2. \A v \in Wallets : record'[v] # None => Known(record[v])'
    <3>1. Known(r)'
      BY <1>2, <1>3 DEF Known
    <3>2. \A v \in Wallets \ {w} : record[v] # None => Known(record[v]) /\ record[v] \in Record
      BY <1>1 DEF KeptInv, HashesKnown, TypeOK
    <3> QED BY <1>6, <2>1, <3>1, <3>2 DEF Known
  <2>3. \A q \in Panels : \A h \in {ui'[q].shown, ui'[q].submitted, ui'[q].approval} :
          h # None => Known(h)'
    <3>1. \A q \in Panels : \A h \in {ui[q].shown, ui[q].submitted, ui[q].approval} :
            h # None => Known(h) /\ h \in Shown
      BY <1>1 DEF KeptInv, HashesKnown, TypeOK, PanelStates
    <3> QED BY <1>5, <2>1, <3>1
  <2>4. \A q \in Panels : rec[q] # None => Known(rec[q].hash) /\ rec[q].hash \in Shown
    BY <1>1 DEF KeptInv, HashesKnown, TypeOK, Recoveries
  <2>5. \A q \in Panels : rec'[q] # None => Known(rec[q].hash)'
    BY <1>1, <2>1, <2>4 DEF Known
  <2> QED BY <2>2, <2>3, <2>5 DEF HashesKnown, Known
<1>12. ApprovalsHidden'
  <2> SUFFICES ASSUME NEW u \in Trades, Fresh(u)'
               PROVE  /\ record'[op'[u].wallet].hash # "approval"
                      /\ \A q \in Panels : Hides(u, op'[u].wallet, ui'[q], rec'[q])
    BY DEF ApprovalsHidden, Hides, Approval
  <2>1. CASE u = t
    <3>1. Approval(t) # None /\ ~Known(Approval(t))
      BY <1>1, HashTyped, NoneAssumption DEF Known, Approval
    <3>2. \A q \in Panels : /\ ui[q].shown # Approval(t) /\ ui[q].submitted # Approval(t)
                            /\ rec[q] # None => rec[q].hash # Approval(t)
      BY <3>1 DEF KeptInv, HashesKnown
    <3> QED BY <1>1, <1>2, <1>3, <1>5, <1>6, <2>1, <3>2 DEF Hides
  <2>2. CASE u # t
    <3>1. Fresh(u) /\ op'[u] = op[u]
      BY <1>3, <1>8, <2>2
    <3>2. /\ record[op[u].wallet].hash # "approval"
          /\ \A q \in Panels : Hides(u, op[u].wallet, ui[q], rec[q])
      BY <3>1 DEF KeptInv, ApprovalsHidden
    <3>3. op[u].wallet # w
      <4>1. record[op[u].wallet] # None
        BY <3>1 DEF KeptInv, Kept, Fresh, Unresolved
      <4> QED BY <4>1
    <3>4. op[u].wallet \in Wallets
      BY <3>1, RunningKnown DEF Fresh
    <3> QED BY <1>1, <1>5, <1>6, <3>1, <3>2, <3>3, <3>4 DEF Hides
  <2> QED BY <2>1, <2>2
<1> QED BY <1>9, <1>10, <1>11, <1>12 DEF KeptInv

LEMMA SubmitKept ==
  ASSUME IInv, KeptInv, NEW p \in Panels, submit(p)
  PROVE  KeptInv'
<1> DEFINE r == readPendingTrade(ui[p].wallet)
<1>1. CASE r = None /\ \E t \in Trades : Begin(p, t)
  <2>1. record[ui[p].wallet] = None
    BY <1>1, PanelKnown DEF readPendingTrade, TypeOK
  <2> QED BY <1>1, <2>1, BeginKept
<1>2. CASE /\ r # None
           /\ ui' = [ui EXCEPT ![p].lock = "unknown", ![p].side = r.side,
                               ![p].shown = HashOf(r), ![p].submitted = HashOf(r)]
           /\ UNCHANGED <<record, op, rec, fate, lost, late, captured, switches, reloads>>
  BY <1>2, AdoptKept
<1> HIDE DEF r
<1> QED BY <1>1, <1>2 DEF submit, r

\* A report adds hashes of its own trade; under a busy lock none can be checked.
LEMMA ReportKept ==
  ASSUME IInv, KeptInv, NEW t \in Trades, Running(t),
         Advances, NotAskedYet', StillRecorded, RecordsKnown,
         NEW refs \in PanelStates, refs.wallet = Refs(t).wallet, refs.lock = Refs(t).lock,
         refs.shown = Refs(t).shown, refs.submitted \in {Refs(t).submitted, Sent(t)},
         NEW hash \in Shown \cup {None}, report(t, refs, hash),
         \A h \in {refs.submitted, refs.approval, hash} :
           h \in {None, Refs(t).submitted, Refs(t).approval} \/ KnownNext(h),
         \A u \in Trades : Fresh(u)' => record'[op[u].wallet].hash # "approval"
  PROVE  KeptInv'
<1> DEFINE p == op[t].panel
           shown == IF hash = None THEN refs.shown ELSE hash
           s == IF op[t].current THEN [refs EXCEPT !.lock = "busy", !.shown = shown] ELSE refs
<1>1. /\ TypeOK /\ p \in Panels /\ Refs(t) = ui[p] /\ op[t].current \in BOOLEAN
      /\ rec[p] \in Recoveries \cup {None}
  BY RunningKnown DEF Refs, Operations, IInv, TypeOK
<1>2. shown \in Shown \cup {None} /\ shown \in {refs.shown, hash}
  BY DEF PanelStates
<1>3. /\ s \in PanelStates /\ s.wallet = refs.wallet
      /\ s.submitted = refs.submitted /\ s.approval = refs.approval
      /\ s.shown \in {refs.shown, shown}
      /\ s.lock = "busy" \/ (s.lock = refs.lock /\ s.shown = refs.shown)
  BY <1>1, <1>2 DEF PanelStates
<1>4. ui' = [ui EXCEPT ![p] = s] /\ rec' = [rec EXCEPT ![p] = rec[p]]
  BY <1>1 DEF report, TypeOK
<1> HIDE DEF s, shown
<1>5. /\ \A h \in {s.shown, s.submitted, s.approval} : h = None \/ KnownNext(h)
      /\ rec[p] = None \/ KnownNext(rec[p].hash)
  <2>1. \A h \in {ui[p].shown, ui[p].submitted, ui[p].approval} : h = None \/ KnownNext(h)
    BY <1>1, OldKnown
  <2> QED BY <1>1, <1>2, <1>3, <2>1, OldKnown
<1>6. ASSUME NEW u \in Trades, Fresh(u)'
      PROVE  record'[op[u].wallet].hash # "approval" /\ Hides(u, op[u].wallet, s, rec[p])
  <2>1. Fresh(u)
    BY <1>6, FreshBefore
  <2>2. Hides(u, op[u].wallet, ui[p], rec[p])
    BY <1>1, <2>1 DEF KeptInv, ApprovalsHidden
  <2>3. Sent(t) # Approval(u)
    BY DEF Sent, Approval
  <2> QED BY <1>1, <1>3, <1>6, <2>2, <2>3 DEF Hides
<1> QED BY <1>1, <1>3, <1>4, <1>5, <1>6, PanelMoves

LEMMA AskKept ==
  ASSUME IInv, KeptInv, NEW t \in Trades,
         AskApproval(t) \/ ApprovalSubmitted(t) \/ ApprovalConfirmed(t) \/ AskWallet(t)
  PROVE  KeptInv'
<1>1. Running(t) /\ Keep
  BY DEF AskApproval, ApprovalSubmitted, ApprovalConfirmed, AskWallet, At, Running
<1>2. Refs(t) \in PanelStates /\ op[t] \in Operations /\ fate[t] = "none" /\ TypeOK
  BY <1>1, RefsKnown, RunningKnown
     DEF AskApproval, ApprovalSubmitted, ApprovalConfirmed, AskWallet, At, KeptInv, NotAskedYet, IInv
<1>3. PICK phase \in {"approve", "approving", "sell", "wallet"} :
        /\ Goto(t, phase)
        /\ IF phase = "wallet" THEN fate' = [fate EXCEPT ![t] = "open"] ELSE fate' = fate
  BY DEF AskApproval, ApprovalSubmitted, ApprovalConfirmed, AskWallet
<1> DEFINE o == [op[t] EXCEPT !.phase = phase]
<1>4. op' = [op EXCEPT ![t] = o] /\ o.phase = phase /\ o.wallet = op[t].wallet
  BY <1>2, <1>3 DEF Goto, Operations
<1>5. fate'[t] = IF phase = "wallet" THEN "open" ELSE "none"
  BY <1>2, <1>3 DEF TypeOK
<1> HIDE DEF o
<1>6. Advances /\ NotAskedYet' /\ op'[t] = o
  BY <1>1, <1>2, <1>3, <1>4, <1>5, OperationAdvances
<1>7. StillRecorded /\ RecordsKnown
  BY <1>1, <1>6, KeepStill DEF Keep, RecordsKnown
<1>8. \A u \in Trades : Fresh(u)' => record'[op[u].wallet].hash # "approval"
  <2>1. \A u \in Trades : Fresh(u)' => Fresh(u)
    BY <1>6, <1>7, FreshBefore
  <2> QED BY <1>1, <2>1 DEF Keep, KeptInv, ApprovalsHidden
<1>9. CASE AskApproval(t)
  <2> DEFINE refs == [Refs(t) EXCEPT !.asked = TRUE]
  <2>1. report(t, refs, None)
    BY <1>9 DEF AskApproval
  <2>2. /\ refs \in PanelStates /\ refs.wallet = Refs(t).wallet /\ refs.lock = Refs(t).lock
        /\ refs.shown = Refs(t).shown /\ refs.submitted = Refs(t).submitted
        /\ refs.approval = Refs(t).approval
    BY <1>2 DEF PanelStates
  <2> HIDE DEF refs
  <2> QED BY <1>1, <1>6, <1>7, <1>8, <2>1, <2>2, ReportKept
<1>10. CASE ApprovalSubmitted(t)
  <2> DEFINE refs == [Refs(t) EXCEPT !.approval = Approval(t)]
  <2>1. report(t, refs, Approval(t))
    BY <1>10 DEF ApprovalSubmitted
  <2>2. Approval(t) \in Shown /\ KnownNext(Approval(t))
    BY <1>3, <1>4, <1>6, HashTyped DEF KnownNext, Approval
  <2>3. /\ refs \in PanelStates /\ refs.wallet = Refs(t).wallet /\ refs.lock = Refs(t).lock
        /\ refs.shown = Refs(t).shown /\ refs.submitted = Refs(t).submitted
        /\ refs.approval = Approval(t)
    BY <1>2, <2>2 DEF PanelStates
  <2> HIDE DEF refs
  <2> QED BY <1>1, <1>6, <1>7, <1>8, <2>1, <2>2, <2>3, ReportKept
<1>11. CASE report(t, Refs(t), None)
  BY <1>1, <1>2, <1>6, <1>7, <1>8, <1>11, ReportKept
<1> QED BY <1>9, <1>10, <1>11 DEF ApprovalConfirmed, AskWallet

\* The hash is known: the record is written with it, and again with its provenance.
LEMMA PersistKept ==
  ASSUME IInv, KeptInv, NEW t \in Trades, Running(t),
         NEW o, op' = [op EXCEPT ![t] = o], o.wallet = op[t].wallet, o.phase \in {"sent", "confirm"},
         UNCHANGED fate, fate[t] # "none",
         NEW from \in Trades \cup {None},
         Persist(op[t].wallet, WithHash(Sent(t), op[t].side, from)),
         NEW refs \in PanelStates, refs.wallet = Refs(t).wallet, refs.lock = Refs(t).lock,
         refs.shown = Refs(t).shown, refs.submitted = Sent(t), refs.approval = Refs(t).approval,
         report(t, refs, Sent(t))
  PROVE  KeptInv'
<1> DEFINE w == op[t].wallet
           r == WithHash(Sent(t), op[t].side, from)
<1>1. /\ TypeOK /\ op[t].side \in {"buy", "sell"} /\ w \in Wallets /\ Sent(t) \in Shown
  BY RunningKnown, RefsKnown DEF IInv, Operations
<1>2. r \in Record /\ r.about = t /\ r.hash = "sent"
  BY <1>1, HashTyped DEF WithHash, Sent
<1>3. Write(w, r, "crossed") /\ record' = [record EXCEPT ![w] = r]
  BY DEF Persist, Write
<1> HIDE DEF r
<1>4. Advances /\ NotAskedYet' /\ op'[t] = o
  BY OperationAdvances
<1>5. StillRecorded
  BY <1>1, <1>2, <1>3, <1>4, WriteStill
<1>6. KnownNext(r) /\ KnownNext(Sent(t))
  BY <1>2, <1>4 DEF KnownNext, Sent
<1>7. RecordsKnown
  BY <1>1, <1>3, <1>6 DEF RecordsKnown, TypeOK
<1>8. ASSUME NEW u \in Trades, Fresh(u)'
      PROVE  record'[op[u].wallet].hash # "approval"
  <2>1. Fresh(u) /\ op[u].wallet \in Wallets
    BY <1>4, <1>5, <1>8, FreshBefore
  <2>2. record[op[u].wallet].hash # "approval"
    BY <2>1 DEF KeptInv, ApprovalsHidden
  <2> QED BY <1>1, <1>2, <1>3, <2>1, <2>2 DEF TypeOK
<1> QED BY <1>1, <1>4, <1>5, <1>6, <1>7, <1>8, ReportKept

LEMMA HashKept ==
  ASSUME IInv, KeptInv, NEW t \in Trades, Submitted(t) \/ Confirming(t)
  PROVE  KeptInv'
<1>1. Running(t) /\ UNCHANGED fate /\ fate[t] # "none"
  BY DEF Submitted, Confirming, At, Running, Ended, KeptInv, NotAskedYet
<1>2. /\ Refs(t) \in PanelStates /\ Sent(t) \in Shown /\ op[t] \in Operations /\ TypeOK
      /\ Refs(t).recovery \in Trades \cup {None}
  BY <1>1, RefsKnown, RunningKnown DEF IInv, PanelStates
<1>3. CASE Submitted(t)
  <2> DEFINE refs == [Refs(t) EXCEPT !.submitted = Sent(t)]
             o == [op[t] EXCEPT !.phase = "sent"]
  <2>1. /\ op' = [op EXCEPT ![t] = o] /\ report(t, refs, Sent(t))
        /\ Persist(op[t].wallet, WithHash(Sent(t), op[t].side, Refs(t).recovery))
    BY <1>3 DEF Submitted, Goto
  <2>2. o.wallet = op[t].wallet /\ o.phase \in {"sent", "confirm"}
    BY <1>2 DEF Operations
  <2>3. /\ refs \in PanelStates /\ refs.wallet = Refs(t).wallet /\ refs.lock = Refs(t).lock
        /\ refs.shown = Refs(t).shown /\ refs.submitted = Sent(t)
        /\ refs.approval = Refs(t).approval
    BY <1>2 DEF PanelStates
  <2> HIDE DEF refs, o
  <2> QED BY <1>1, <1>2, <2>1, <2>2, <2>3, PersistKept
<1>4. CASE Confirming(t)
  <2>1. PICK from \in {t, None} :
          LET known == IF from = None THEN Refs(t).recovery ELSE from IN
          /\ op' = [op EXCEPT ![t].phase = "confirm", ![t].from = from]
          /\ Persist(op[t].wallet, WithHash(Sent(t), op[t].side, known))
          /\ report(t, [Refs(t) EXCEPT !.submitted = Sent(t), !.recovery = known], Sent(t))
    BY <1>4 DEF Confirming
  <2> DEFINE known == IF from = None THEN Refs(t).recovery ELSE from
             refs == [Refs(t) EXCEPT !.submitted = Sent(t), !.recovery = known]
             o == [op[t] EXCEPT !.phase = "confirm", !.from = from]
  <2>2. /\ op' = [op EXCEPT ![t] = o] /\ report(t, refs, Sent(t))
        /\ Persist(op[t].wallet, WithHash(Sent(t), op[t].side, known))
    BY <1>2, <2>1 DEF TypeOK
  <2>3. o.wallet = op[t].wallet /\ o.phase \in {"sent", "confirm"}
    BY <1>2 DEF Operations
  <2>4. known \in Trades \cup {None}
    BY <1>2
  <2>5. /\ refs \in PanelStates /\ refs.wallet = Refs(t).wallet /\ refs.lock = Refs(t).lock
        /\ refs.shown = Refs(t).shown /\ refs.submitted = Sent(t)
        /\ refs.approval = Refs(t).approval
    BY <1>2, <2>4 DEF PanelStates
  <2> HIDE DEF refs, o, known
  <2> QED BY <1>1, <1>2, <2>2, <2>3, <2>4, <2>5, PersistKept
<1> QED BY <1>3, <1>4

-----------------------------------------------------------------------------
(* Ends and recoveries: they leave their wallet without a fresh trade, or    *)
(* everything as it was.                                                     *)

Leaves(p) ==
  /\ StillRecorded /\ RecordsKnown
  /\ \E s \in PanelStates :
       /\ ui' = [ui EXCEPT ![p] = s]
       /\ \A h \in {s.shown, s.submitted, s.approval} : h = None \/ KnownNext(h)
       /\ \A t \in Trades : Fresh(t)' =>
            record'[op[t].wallet].hash # "approval" /\ Hides(t, op[t].wallet, s, rec[p])

LEMMA LeavesKept ==
  ASSUME IInv, KeptInv, Advances, NotAskedYet', NEW p \in Panels, Leaves(p),
         NEW c \in {rec[p], None}, rec' = [rec EXCEPT ![p] = c]
  PROVE  KeptInv'
<1>1. PICK s \in PanelStates :
        /\ ui' = [ui EXCEPT ![p] = s]
        /\ \A h \in {s.shown, s.submitted, s.approval} : h = None \/ KnownNext(h)
        /\ \A t \in Trades : Fresh(t)' =>
             record'[op[t].wallet].hash # "approval" /\ Hides(t, op[t].wallet, s, rec[p])
  BY DEF Leaves
<1>2. c \in Recoveries \cup {None} /\ (c = None \/ KnownNext(c.hash))
  BY OldKnown, PanelKnown
<1>3. \A t \in Trades : Fresh(t)' =>
        record'[op[t].wallet].hash # "approval" /\ Hides(t, op[t].wallet, s, c)
  BY <1>1 DEF Hides
<1> QED BY <1>1, <1>2, <1>3, PanelMoves DEF Leaves

LEMMA KeepLeaves ==
  ASSUME IInv, KeptInv, Advances, NEW p \in Panels, Keep, UNCHANGED ui
  PROVE  Leaves(p)
<1>1. ui[p] \in PanelStates /\ ui' = [ui EXCEPT ![p] = ui[p]]
  BY DEF IInv, TypeOK
<1>2. StillRecorded /\ RecordsKnown
  BY KeepStill DEF Keep, RecordsKnown
<1>3. \A h \in {ui[p].shown, ui[p].submitted, ui[p].approval} : h = None \/ KnownNext(h)
  BY OldKnown
<1>4. \A t \in Trades : Fresh(t)' =>
        record'[op[t].wallet].hash # "approval" /\ Hides(t, op[t].wallet, ui[p], rec[p])
  BY <1>2, FreshBefore DEF Keep, KeptInv, ApprovalsHidden
<1> QED BY <1>1, <1>2, <1>3, <1>4 DEF Leaves

\* The record of wallet w is written or cleared, and no trade of w is fresh after it.
LEMMA SettledLeaves ==
  ASSUME IInv, KeptInv, Advances, StillRecorded, NEW p \in Panels, NEW w \in Wallets,
         \A v \in Wallets \ {w} : record'[v] = record[v],
         record'[w] = None \/ KnownNext(record'[w]),
         NEW s \in PanelStates, ui' = [ui EXCEPT ![p] = s], s.wallet = w,
         \A h \in {s.shown, s.submitted, s.approval} : h = None \/ KnownNext(h),
         \A t \in Trades : Fresh(t)' => op[t].wallet # w
  PROVE  Leaves(p)
<1>1. RecordsKnown
  BY DEF RecordsKnown
<1>2. \A t \in Trades : Fresh(t)' =>
        record'[op[t].wallet].hash # "approval" /\ Hides(t, op[t].wallet, s, rec[p])
  BY PanelKnown, WalletSettled
<1> QED BY <1>1, <1>2 DEF Leaves

\* A hash that is known, and not of a fresh trade of wallet w.
Checked(w, h) == Known(h) /\ (Fresh(h.about) => op[h.about].wallet # w)

LEMMA WriteLeaves ==
  ASSUME IInv, KeptInv, Advances, NEW p \in Panels, NEW w \in Wallets,
         NEW h \in Shown, Checked(w, h), NEW side \in {"buy", "sell"}, NEW from \in Trades \cup {None},
         NEW cause, cause # "no", Write(w, WithHash(h, side, from), cause),
         NEW s \in PanelStates, ui' = [ui EXCEPT ![p] = s], s.wallet = w,
         \A g \in {s.shown, s.submitted, s.approval} :
           g \in {None, h, ui[p].shown, ui[p].submitted, ui[p].approval}
  PROVE  Leaves(p)
<1> DEFINE r == WithHash(h, side, from)
<1>1. r \in Record /\ r.about = h.about /\ r.hash = h.hash
  BY HashTyped DEF WithHash
<1>2. record' = [record EXCEPT ![w] = r] /\ Write(w, r, cause)
  BY DEF Write
<1> HIDE DEF r
<1>3. StillRecorded
  BY <1>1, <1>2, WriteStill
<1>4. /\ record'[w] = r /\ \A v \in Wallets \ {w} : record'[v] = record[v]
  BY <1>2 DEF IInv, TypeOK
<1>5. KnownNext(h) /\ KnownNext(r)
  <2>1. KnownNext(h)
    BY KnownAdvances DEF Checked
  <2> QED BY <1>1, <2>1 DEF KnownNext
<1>6. \A g \in {s.shown, s.submitted, s.approval} : g = None \/ KnownNext(g)
  BY <1>5, OldKnown
<1>7. \A t \in Trades : Fresh(t)' => op[t].wallet # w
  BY <1>1, <1>3, <1>4, FreshBefore DEF Checked
<1> QED BY <1>3, <1>4, <1>5, <1>6, <1>7, SettledLeaves

LEMMA ClearLeaves ==
  ASSUME IInv, KeptInv, Advances, NEW p \in Panels, NEW w \in Wallets, NEW u, NEW cause,
         Clear(w, u, cause),
         u \in Trades /\ cause = "no" /\ lost[u] = "no" /\ op[u].wallet = w => ~Unresolved(u)',
         NEW s \in PanelStates, ui' = [ui EXCEPT ![p] = s], s.wallet = w,
         \A g \in {s.shown, s.submitted, s.approval} :
           \/ g \in {None, ui[p].shown, ui[p].submitted, ui[p].approval}
           \/ g \in Shown /\ Known(g)
  PROVE  Leaves(p)
<1>1. StillRecorded
  BY ClearStill
<1>2. /\ record'[w] = None /\ \A v \in Wallets \ {w} : record'[v] = record[v]
  BY DEF IInv, TypeOK, Clear
<1>3. \A g \in {s.shown, s.submitted, s.approval} : g = None \/ KnownNext(g)
  BY OldKnown, KnownAdvances
<1>4. \A t \in Trades : Fresh(t)' => op[t].wallet # w
  BY <1>1, <1>2, ClearSettles
<1> QED BY <1>1, <1>2, <1>3, <1>4, SettledLeaves

\* A definite answer about a trade: if it clears the trade's record with no cause
\* named, there was nothing left to resolve.
LEMMA DefiniteAnswer ==
  ASSUME KeptInv, Advances, UNCHANGED fate, NEW h \in Shown, NEW w, Checked(w, h),
         NEW from, NEW side, NEW v, NEW answer \in Answers(h, from, side, v) \ {"error", "pending"},
         from \in {h.about, None}, lost[h.about] = "no", op[h.about].wallet = w
  PROVE  ~Unresolved(h.about)'
<1>1. h.about \in Trades /\ h.hash \in {"approval", "sent"}
  BY DEF Shown
<1>2. CASE h.hash = "approval"
  <2>1. fate[h.about] = "none"
    BY <1>2 DEF Answers
  <2>2. ~Running(h.about)
    BY <2>1 DEF Checked, Fresh
  <2> QED BY <1>1, <2>1, <2>2, UnresolvedBefore DEF Unresolved, Outstanding
<1>3. CASE h.hash = "sent"
  <2>1. fate[h.about] \in Ended
    BY <1>3 DEF Answers, Ended
  <2> QED BY <2>1 DEF Unresolved, Outstanding, Ended
<1> QED BY <1>1, <1>2, <1>3

LEMMA ResolutionLeaves ==
  ASSUME IInv, KeptInv, Advances, UNCHANGED fate, NEW p \in Panels, NEW w \in Wallets,
         NEW h \in Shown, Checked(w, h), NEW side \in {"buy", "sell"},
         NEW from \in Trades \cup {None}, NEW current \in BOOLEAN,
         NEW answer \in Answers(h, from, side, w) \ {"error"},
         applyResolution(p, w, h, side, from, answer, current)
  PROVE  Leaves(p)
<1>1. ui[p] \in PanelStates
  BY PanelKnown
<1>2. CASE ui[p].wallet # w
  BY <1>2, KeepLeaves DEF applyResolution
<1>3. CASE ui[p].wallet = w /\ answer = "pending"
  <2>1. PICK next \in Provenance(h, from) :
          /\ Persist(w, WithHash(h, side, next))
          /\ ui' = [ui EXCEPT ![p] =
               Finished([@ EXCEPT !.lock = "unknown", !.shown = h, !.submitted = h,
                                  !.recovery = next], current)]
    BY <1>3 DEF applyResolution
  <2>2. next \in Trades \cup {None}
    BY DEF Provenance, Shown
  <2> DEFINE s == Finished([ui[p] EXCEPT !.lock = "unknown", !.shown = h, !.submitted = h,
                                         !.recovery = next], current)
  <2>3. /\ s \in PanelStates /\ s.wallet = w
        /\ s.shown = h /\ s.submitted = h /\ s.approval = ui[p].approval
    BY <1>1, <1>3, <2>2 DEF Finished, PanelStates
  <2>4. ui' = [ui EXCEPT ![p] = s] /\ Write(w, WithHash(h, side, next), "crossed")
    BY <2>1 DEF Persist
  <2> HIDE DEF s
  <2> QED BY <2>2, <2>3, <2>4, WriteLeaves
<1>4. CASE ui[p].wallet = w /\ answer # "pending"
  <2> DEFINE cause == IF from \in {h.about, None} THEN "no" ELSE "crossed"
             s == Finished([ui[p] EXCEPT !.lock = "open", !.shown = h, !.submitted = None,
                                         !.recovery = None, !.quote = FALSE], current)
  <2>1. Clear(w, h.about, cause) /\ ui' = [ui EXCEPT ![p] = s]
    BY <1>4 DEF applyResolution
  <2>2. /\ s \in PanelStates /\ s.wallet = w
        /\ s.shown = h /\ s.submitted = None /\ s.approval = ui[p].approval
    BY <1>1, <1>4 DEF Finished, PanelStates
  <2>3. cause = "no" /\ lost[h.about] = "no" /\ op[h.about].wallet = w => ~Unresolved(h.about)'
    BY <1>4, DefiniteAnswer
  <2>4. Known(h)
    BY DEF Checked
  <2> HIDE DEF s, cause
  <2> QED BY <2>1, <2>2, <2>3, <2>4, ClearLeaves
<1> QED BY <1>2, <1>3, <1>4

\* A hash that its wallet's panel holds for the submitted one.
LEMMA SubmittedChecked ==
  ASSUME IInv, KeptInv, NEW p \in Panels, ui[p].submitted # None
  PROVE  ui[p].submitted \in Shown /\ Checked(ui[p].wallet, ui[p].submitted)
<1>1. ui[p].submitted \in Shown /\ Known(ui[p].submitted)
  BY PanelKnown DEF PanelStates, KeptInv, HashesKnown
<1>2. Checkable(ui[p].wallet, ui[p].submitted)
  BY DEF Checkable
<1> QED BY <1>1, <1>2, CheckableNotFresh DEF Checked

LEMMA CatchLeaves ==
  ASSUME IInv, KeptInv, Advances, UNCHANGED fate, NEW t \in Trades, Running(t), ~Running(t)',
         NEW definitive \in BOOLEAN, definitive => fate[t] \in {"none", "refused"},
         catch(t, definitive)
  PROVE  Leaves(op[t].panel)
<1>1. /\ op[t].panel \in Panels /\ op[t].wallet \in Wallets /\ op[t].side \in {"buy", "sell"}
      /\ ui[op[t].panel] \in PanelStates /\ op[t].current \in BOOLEAN
      /\ op[t].current => op[t].wallet = ui[op[t].panel].wallet
  BY RunningKnown DEF Operations
<1>2. PICK p \in Panels : p = op[t].panel
  BY <1>1
<1>3. PICK w \in Wallets : w = op[t].wallet
  BY <1>1
<1>4. PICK u \in PanelStates : u = ui[p]
  BY <1>1, <1>2
<1>5. /\ u.recovery \in Trades \cup {None} /\ u.shown \in Shown \cup {None}
      /\ u.submitted \in Shown \cup {None} /\ u.approval \in Shown \cup {None}
  BY DEF PanelStates
<1>6. CASE ~op[t].current
  BY <1>1, <1>6, KeepLeaves DEF catch
<1>7. CASE op[t].current /\ u.submitted # None
  <2> DEFINE s == Finished([u EXCEPT !.lock = "unknown", !.shown = u.submitted], TRUE)
  <2>1. /\ Write(w, WithHash(u.submitted, op[t].side, u.recovery), "crossed")
        /\ ui' = [ui EXCEPT ![p] = s]
    BY <1>2, <1>3, <1>4, <1>7 DEF catch, Persist
  <2>2. /\ s \in PanelStates /\ s.wallet = u.wallet
        /\ s.shown = u.submitted /\ s.submitted = u.submitted /\ s.approval = u.approval
    BY <1>5, <1>7 DEF Finished, PanelStates
  <2>3. u.submitted \in Shown /\ Checked(w, u.submitted)
    BY <1>1, <1>2, <1>3, <1>4, <1>7, SubmittedChecked
  <2> HIDE DEF s
  <2>4. s.wallet = w /\ \A g \in {s.shown, s.submitted, s.approval} :
          g \in {None, u.submitted, ui[p].shown, ui[p].submitted, ui[p].approval}
    BY <1>1, <1>2, <1>3, <1>4, <1>7, <2>2
  <2>5. Leaves(p)
    BY <1>1, <1>5, <2>1, <2>2, <2>3, <2>4, WriteLeaves
  <2> QED BY <1>2, <2>5
<1>8. CASE /\ op[t].current /\ u.submitted = None
           /\ ~definitive /\ (u.approval # None \/ u.asked)
  <2> DEFINE s == Finished([u EXCEPT !.lock = "unknown",
                              !.shown = IF u.approval = None THEN @ ELSE u.approval], TRUE)
  <2>1. Write(w, Hashless(t, op[t].side), "crossed") /\ ui' = [ui EXCEPT ![p] = s]
    BY <1>2, <1>3, <1>4, <1>8 DEF catch, Persist
  <2>2. /\ s \in PanelStates /\ s.wallet = u.wallet
        /\ s.shown \in {u.shown, u.approval} /\ s.submitted = u.submitted /\ s.approval = u.approval
    BY <1>5 DEF Finished, PanelStates
  <2>3. PICK r \in Record : r = Hashless(t, op[t].side) /\ r.about = t /\ r.hash = "none"
    BY <1>1, HashTyped DEF Hashless
  <2> HIDE DEF s
  <2>4. StillRecorded
    BY <2>1, <2>3, WriteStill
  <2>5. /\ record'[w] = r /\ \A v \in Wallets \ {w} : record'[v] = record[v]
    BY <2>1, <2>3 DEF Write, IInv, TypeOK
  <2>6. KnownNext(r)
    BY <2>3 DEF KnownNext, Advances, Running
  <2>7. \A g \in {s.shown, s.submitted, s.approval} : g = None \/ KnownNext(g)
    BY <1>2, <1>4, <2>2, OldKnown
  <2>8. \A x \in Trades : Fresh(x)' => op[x].wallet # w
    <3>1. \A x \in Trades : Fresh(x)' /\ op[x].wallet = w => x = t
      BY <2>3, <2>4, <2>5, FreshBefore
    <3> QED BY <3>1 DEF Fresh
  <2>9. Leaves(p)
    BY <1>1, <1>2, <1>3, <1>4, <1>8, <2>1, <2>2, <2>4, <2>5, <2>6, <2>7, <2>8, SettledLeaves
  <2> QED BY <1>2, <2>9
<1>9. CASE /\ op[t].current /\ u.submitted = None
           /\ ~(~definitive /\ (u.approval # None \/ u.asked))
  <2> DEFINE s == Finished([u EXCEPT !.lock = "open"], TRUE)
             cause == IF definitive THEN "no" ELSE "unseen"
  <2>1. Clear(w, t, cause) /\ ui' = [ui EXCEPT ![p] = s]
    BY <1>2, <1>3, <1>4, <1>9 DEF catch
  <2>2. /\ s \in PanelStates /\ s.wallet = u.wallet
        /\ s.shown = u.shown /\ s.submitted = u.submitted /\ s.approval = u.approval
    BY DEF Finished, PanelStates
  <2>3. cause = "no" => ~Unresolved(t)'
    BY DEF Unresolved, Outstanding
  <2> HIDE DEF s, cause
  <2>4. s.wallet = w /\ \A g \in {s.shown, s.submitted, s.approval} :
          g \in {None, ui[p].shown, ui[p].submitted, ui[p].approval}
    BY <1>1, <1>2, <1>3, <1>4, <1>9, <2>2
  <2>5. Leaves(p)
    BY <2>1, <2>2, <2>3, <2>4, ClearLeaves
  <2> QED BY <1>2, <2>5
<1>10. \/ ~op[t].current
       \/ op[t].current /\ u.submitted # None
       \/ op[t].current /\ u.submitted = None /\ ~definitive /\ (u.approval # None \/ u.asked)
       \/ op[t].current /\ u.submitted = None /\ ~(~definitive /\ (u.approval # None \/ u.asked))
  OBVIOUS
<1> QED BY <1>6, <1>7, <1>8, <1>9, <1>10

\* Fails and Resolves.
LEMMA EndingKept ==
  ASSUME IInv, KeptInv, NEW t \in Trades, Fails(t) \/ Resolves(t)
  PROVE  KeptInv'
<1>1. /\ Running(t) /\ End(t) /\ UNCHANGED <<rec, fate>>
      /\ op[t] \in Operations /\ op[t].panel \in Panels /\ op[t].wallet \in Wallets
      /\ TypeOK
  BY RunningKnown DEF Fails, Resolves, At, Running, IInv
<1> DEFINE o == [op[t] EXCEPT !.phase = "done", !.current = FALSE, !.from = None]
<1>2. op' = [op EXCEPT ![t] = o] /\ o.wallet = op[t].wallet /\ o.phase = "done"
  BY <1>1 DEF End, Operations
<1> HIDE DEF o
<1>3. Advances /\ NotAskedYet' /\ op'[t] = o
  BY <1>1, <1>2, OperationAdvances
<1>4. ~Running(t)'
  BY <1>2, <1>3 DEF Running
<1>5. Leaves(op[t].panel)
  <2>1. CASE Fails(t)
    <3>1. PICK definitive \in BOOLEAN :
            /\ \/ At(t, {"prepare", "approve", "approving", "sell"})
               \/ At(t, {"wallet"}) /\ (definitive => fate[t] = "refused")
            /\ catch(t, definitive)
      BY <2>1 DEF Fails
    <3>2. definitive => fate[t] \in {"none", "refused"}
      BY <3>1 DEF At, KeptInv, NotAskedYet
    <3> QED BY <1>1, <1>3, <1>4, <3>1, <3>2, CatchLeaves
  <2>2. CASE Resolves(t)
    <3>1. PICK answer \in Answers(Sent(t), op[t].from, op[t].side, op[t].wallet) :
            IF answer = "error" THEN catch(t, FALSE)
            ELSE applyResolution(op[t].panel, op[t].wallet, Sent(t), op[t].side, op[t].from,
                                 answer, op[t].current)
      BY <2>2 DEF Resolves
    <3>2. CASE answer = "error"
      BY <1>1, <1>3, <1>4, <3>1, <3>2, CatchLeaves
    <3>3. CASE answer # "error"
      <4>1. /\ Sent(t) \in Shown /\ op[t].side \in {"buy", "sell"} /\ op[t].current \in BOOLEAN
            /\ op[t].from \in Trades \cup {None}
        BY <1>1, HashTyped DEF Operations
      <4>2. Checked(op[t].wallet, Sent(t))
        BY <1>1, <2>2 DEF Checked, Known, Fresh, Sent, Resolves, At, KeptInv, NotAskedYet
      <4> QED BY <1>1, <1>3, <3>1, <3>3, <4>1, <4>2, ResolutionLeaves
    <3> QED BY <3>2, <3>3
  <2> QED BY <2>1, <2>2
<1>6. rec' = [rec EXCEPT ![op[t].panel] = rec[op[t].panel]]
  BY <1>1 DEF TypeOK
<1> QED BY <1>1, <1>3, <1>5, <1>6, LeavesKept

LEMMA RecoverKept ==
  ASSUME IInv, KeptInv, NEW p \in Panels, recover(p)
  PROVE  KeptInv'
<1>1. PICK u \in PanelStates : u = ui[p]
  BY PanelKnown
<1>2. /\ u.shown \in Shown /\ u.side \in {"buy", "sell"} /\ u.recovery \in Trades \cup {None}
      /\ u.wallet \in Wallets /\ u.lock = "unknown" /\ u.shown # None /\ TypeOK
  BY <1>1 DEF recover, PanelStates, IInv
<1> DEFINE s == [u EXCEPT !.lock = "busy", !.operation = TRUE]
           c == [hash |-> u.shown, side |-> u.side, wallet |-> u.wallet,
                 from |-> u.recovery, current |-> TRUE]
           r == WithHash(u.shown, u.side, u.recovery)
<1>3. /\ Write(u.wallet, r, "mistaken") /\ ui' = [ui EXCEPT ![p] = s]
      /\ rec' = [rec EXCEPT ![p] = c] /\ UNCHANGED <<op, fate>>
  BY <1>1 DEF recover
<1>4. /\ s \in PanelStates /\ s.wallet = u.wallet
      /\ s.shown = u.shown /\ s.submitted = u.submitted /\ s.approval = u.approval
  BY DEF PanelStates
<1>5. c \in Recoveries /\ c.wallet = u.wallet /\ c.hash = u.shown
  BY <1>2 DEF Recoveries
<1>6. r \in Record /\ r.about = u.shown.about /\ r.hash = u.shown.hash
  BY <1>2, HashTyped DEF WithHash
<1> HIDE DEF s, c, r
<1>7. Advances /\ NotAskedYet'
  BY <1>3, OperationsStay
<1>8. StillRecorded
  BY <1>2, <1>3, <1>6, <1>7, WriteStill
<1>9. /\ record'[u.wallet] = r /\ \A v \in Wallets \ {u.wallet} : record'[v] = record[v]
  BY <1>2, <1>3 DEF Write, TypeOK
<1>10. /\ \A h \in {u.shown, u.submitted, u.approval} : h = None \/ KnownNext(h)
       /\ KnownNext(u.shown)
  BY <1>1, <1>2, <1>7, OldKnown
<1>11. RecordsKnown
  BY <1>6, <1>9, <1>10 DEF RecordsKnown, KnownNext
<1>12. \A t \in Trades : Fresh(t)' => op[t].wallet # u.wallet
  <2>1. Checkable(u.wallet, u.shown)
    BY <1>1, <1>2 DEF Checkable
  <2> QED BY <1>2, <1>6, <1>7, <1>8, <1>9, <2>1, WriteSettles
<1>13. \A t \in Trades : Fresh(t)' =>
         record'[op[t].wallet].hash # "approval" /\ Hides(t, op[t].wallet, s, c)
  BY <1>2, <1>4, <1>5, <1>7, <1>8, <1>9, <1>12, WalletSettled
<1> QED BY <1>3, <1>4, <1>5, <1>7, <1>8, <1>10, <1>11, <1>13, PanelMoves

LEMMA AbandonKept ==
  ASSUME IInv, KeptInv, NEW p \in Panels, abandon(p)
  PROVE  KeptInv'
<1>1. PICK u \in PanelStates : u = ui[p] /\ u.wallet \in Wallets /\ TypeOK
  BY PanelKnown
<1> DEFINE s == [u EXCEPT !.lock = "open", !.operation = FALSE,
                   !.asked = FALSE, !.approval = None, !.submitted = None,
                   !.recovery = None, !.shown = None, !.quote = FALSE]
           t == IF record[u.wallet] = None THEN None ELSE record[u.wallet].about
<1>2. /\ Clear(u.wallet, t, "abandoned") /\ ui' = [ui EXCEPT ![p] = s]
      /\ UNCHANGED <<op, rec, fate>>
  BY <1>1 DEF abandon
<1>3. /\ s \in PanelStates /\ s.wallet = u.wallet
      /\ s.shown = None /\ s.submitted = None /\ s.approval = None
  BY DEF PanelStates
<1> HIDE DEF s, t
<1>4. Advances /\ NotAskedYet'
  BY <1>2, OperationsStay
<1>5. Leaves(p)
  BY <1>1, <1>2, <1>3, <1>4, ClearLeaves
<1>6. rec' = [rec EXCEPT ![p] = rec[p]]
  BY <1>1, <1>2 DEF TypeOK
<1> QED BY <1>4, <1>5, <1>6, LeavesKept

LEMMA RecoverEndsKept ==
  ASSUME IInv, KeptInv, NEW p \in Panels, RecoverEnds(p)
  PROVE  KeptInv'
<1>1. PICK r \in Recoveries : r = rec[p] /\ r # None /\ TypeOK /\ ui[p] \in PanelStates
  BY PanelKnown DEF RecoverEnds
<1>2. /\ r.wallet \in Wallets /\ r.hash \in Shown /\ r.side \in {"buy", "sell"}
      /\ r.from \in Trades \cup {None} /\ r.current \in BOOLEAN
      /\ ui[p].recovery \in Trades \cup {None}
  BY <1>1 DEF Recoveries, PanelStates
<1>3. rec' = [rec EXCEPT ![p] = None] /\ UNCHANGED <<op, fate>>
  BY DEF RecoverEnds
<1>4. Advances /\ NotAskedYet'
  BY <1>3, OperationsStay
<1>5. Checked(r.wallet, r.hash)
  <2>1. Known(r.hash) /\ Checkable(r.wallet, r.hash)
    BY <1>1 DEF KeptInv, HashesKnown, Checkable
  <2> QED BY <1>2, <2>1, CheckableNotFresh DEF Checked
<1>6. Leaves(p)
  <2>1. CASE \E answer \in check(r) \ {"error"} :
               applyResolution(p, r.wallet, r.hash, r.side, r.from, answer, r.current)
    BY <1>2, <1>3, <1>4, <1>5, <2>1, ResolutionLeaves DEF check
  <2>2. CASE Keep /\ UNCHANGED ui
    BY <1>4, <2>2, KeepLeaves
  <2>3. CASE /\ r.current
             /\ Persist(r.wallet, WithHash(r.hash, r.side, ui[p].recovery))
             /\ ui' = [ui EXCEPT ![p] = Finished([@ EXCEPT !.lock = "unknown"], TRUE)]
    <3> DEFINE s == Finished([ui[p] EXCEPT !.lock = "unknown"], TRUE)
    <3>1. r.wallet = ui[p].wallet
      BY <1>1, <2>3 DEF IInv, CurrentIsHere
    <3>2. /\ Write(r.wallet, WithHash(r.hash, r.side, ui[p].recovery), "crossed")
          /\ ui' = [ui EXCEPT ![p] = s]
      BY <2>3 DEF Persist
    <3>3. /\ s \in PanelStates /\ s.wallet = r.wallet
          /\ s.shown = ui[p].shown /\ s.submitted = ui[p].submitted /\ s.approval = ui[p].approval
      BY <1>1, <3>1 DEF Finished, PanelStates
    <3> HIDE DEF s
    <3>4. \A g \in {s.shown, s.submitted, s.approval} :
            g \in {None, r.hash, ui[p].shown, ui[p].submitted, ui[p].approval}
      BY <3>3
    <3>5. s \in PanelStates /\ s.wallet = r.wallet
      BY <3>3
    <3> QED BY <1>2, <1>4, <1>5, <3>2, <3>4, <3>5, WriteLeaves
  <2>4. PICK answer \in check(r) :
          IF answer # "error" THEN
            applyResolution(p, r.wallet, r.hash, r.side, r.from, answer, r.current)
          ELSE IF ~r.current THEN Keep /\ UNCHANGED ui
          ELSE /\ Persist(r.wallet, WithHash(r.hash, r.side, ui[p].recovery))
               /\ ui' = [ui EXCEPT ![p] = Finished([@ EXCEPT !.lock = "unknown"], TRUE)]
    BY <1>1 DEF RecoverEnds
  <2> QED BY <2>1, <2>2, <2>3, <2>4
<1> QED BY <1>3, <1>4, <1>6, LeavesKept

LEMMA OutsideKept ==
  ASSUME IInv, KeptInv, NEW t \in Trades, Sign(t) \/ Refuse(t) \/ Include(t)
  PROVE  KeptInv'
<1>1. /\ UNCHANGED <<record, ui, op, rec>> /\ TypeOK
      /\ Outstanding(t) /\ \A u \in Trades \ {t} : fate'[u] = fate[u] /\ lost'[u] = lost[u]
      /\ fate'[t] # "none"
      /\ lost' = lost \/ ~Outstanding(t)'
  BY DEF Sign, Refuse, Include, Becomes, Settles, Ended, Outstanding, IInv, TypeOK
<1>2. \A u \in Trades : (Unresolved(u) /\ lost[u] = "no")' => Unresolved(u) /\ lost[u] = "no"
  <2>1. \A u \in Trades \ {t} : (Unresolved(u) /\ lost[u] = "no")' => Unresolved(u) /\ lost[u] = "no"
    BY <1>1 DEF Unresolved, Outstanding, Running
  <2>2. (Unresolved(t) /\ lost[t] = "no")' => Unresolved(t) /\ lost[t] = "no"
    BY <1>1 DEF Unresolved
  <2> QED BY <2>1, <2>2
<1>3. Kept'
  BY <1>1, <1>2 DEF KeptInv, Kept
<1>4. NotAskedYet'
  BY <1>1 DEF KeptInv, NotAskedYet, Outstanding
<1>5. HashesKnown'
  <2>1. \A h : h.about \in Trades /\ Known(h) => Known(h)'
    BY <1>1 DEF Known
  <2>2. /\ \A w \in Wallets : record[w] # None => record[w].about \in Trades
        /\ \A p \in Panels : \A h \in {ui[p].shown, ui[p].submitted, ui[p].approval} :
             h # None => h.about \in Trades
        /\ \A p \in Panels : rec[p] # None => rec[p].hash.about \in Trades
    BY <1>1 DEF TypeOK, Record, PanelStates, Shown, Recoveries
  <2> QED BY <1>1, <2>1, <2>2 DEF KeptInv, HashesKnown, Known
<1>6. ApprovalsHidden'
  <2>1. \A u \in Trades : Fresh(u)' => Fresh(u)
    BY <1>1 DEF Fresh, Running
  <2> QED BY <1>1, <2>1 DEF KeptInv, ApprovalsHidden, Hides, Approval
<1> QED BY <1>3, <1>4, <1>5, <1>6 DEF KeptInv

-----------------------------------------------------------------------------

LEMMA InitKept == Init => KeptInv
<1> SUFFICES ASSUME Init PROVE KeptInv
  OBVIOUS
<1>1. PICK w \in Wallets : ui = [p \in Panels |-> ReadBy(w)]
  BY DEF Init
<1>2. ReadBy(w).shown = None /\ ReadBy(w).submitted = None /\ ReadBy(w).approval = None
  BY DEF Init, ReadBy, readPendingTrade, HashOf
<1>3. /\ \A t \in Trades : op[t].phase = "unused" /\ fate[t] = "none"
      /\ \A p \in Panels : rec[p] = None
      /\ \A v \in Wallets : record[v] = None
  BY DEF Init
<1>4. Kept /\ NotAskedYet /\ ApprovalsHidden
  BY <1>3 DEF Kept, Unresolved, Running, Outstanding, NotAskedYet, ApprovalsHidden, Fresh
<1>5. HashesKnown
  BY <1>1, <1>2, <1>3 DEF HashesKnown
<1> QED BY <1>4, <1>5 DEF KeptInv

LEMMA StepKept == IInv /\ KeptInv /\ [Next]_vars => KeptInv'
<1> SUFFICES ASSUME IInv, KeptInv, [Next]_vars PROVE KeptInv'
  OBVIOUS
<1>1. ASSUME NEW p \in Panels, UserStep(p) \/ RecoverEnds(p) PROVE KeptInv'
  BY <1>1, QuoteKept, SubmitKept, RecoverKept, AbandonKept, IdentityKept, RecoverEndsKept
     DEF UserStep
<1>2. ASSUME NEW t \in Trades, OperationStep(t) PROVE KeptInv'
  BY <1>2, AskKept, HashKept, EndingKept DEF OperationStep
<1>3. ASSUME NEW t \in Trades, Sign(t) \/ Refuse(t) \/ Include(t) PROVE KeptInv'
  BY <1>3, OutsideKept
<1>4. CASE UNCHANGED vars
  <2>1. Kept'
    BY <1>4 DEF KeptInv, Kept, Unresolved, Running, Outstanding, vars, history
  <2>2. NotAskedYet' /\ HashesKnown'
    BY <1>4 DEF KeptInv, NotAskedYet, HashesKnown, Known, vars
  <2>3. ApprovalsHidden'
    BY <1>4 DEF KeptInv, ApprovalsHidden, Fresh, Running, Hides, Approval, vars, history
  <2> QED BY <2>1, <2>2, <2>3 DEF KeptInv
<1> QED BY <1>1, <1>2, <1>3, <1>4 DEF Next

\* Through every step of every panel, operation and recovery KeptInv holds.
THEOREM KeptInvHolds == Spec => []KeptInv
BY InitKept, StepKept, IInvHolds, PTL DEF Spec

\* For any number of tabs, wallets and trades: as long as a trade the wallet has
\* been asked for may still be mined, its wallet's record is about it and blocks the
\* next one, unless one of the named causes took the record.
THEOREM KeptUntilResolvedHolds == Spec => []KeptUntilResolved
<1>1. KeptInv => KeptUntilResolved
  BY DEF KeptInv, Kept, Unresolved, KeptUntilResolved
<1> QED BY <1>1, KeptInvHolds, PTL

-----------------------------------------------------------------------------
(* One tab with one wallet. *)

Runs(o, t) == o[t].phase \notin {"unused", "done"}

\* The panel the user is in, in state s with its wallet's record r, its recovery c,
\* operations o and the trades whose provenance has been stored.  What it shows as
\* submitted is the record's trade or nothing, what it knows of its provenance is
\* the record's, and a busy panel has one operation or one recovery, on that record.
OnePanel(s, r, c, o, stored) ==
  /\ r # None => r.from = None \/ (r.hash = "sent" /\ r.from = r.about)
  /\ s.lock = "open" => r = None /\ s.submitted = None
  /\ s.lock # "busy" => c = None /\ \A t \in Trades : ~Runs(o, t)
  /\ s.submitted = None => s.recovery = None
  /\ s.submitted # None => s.shown = s.submitted
  /\ s.recovery # None => s.submitted = Sent(s.recovery)
  /\ s.approval # None => s.approval.hash = "approval"
  /\ c # None => /\ c.wallet = s.wallet /\ c.current
                 /\ c.hash = s.shown /\ c.from = s.recovery
                 /\ r # None /\ r.about = c.hash.about
                 /\ \A t \in Trades : ~Runs(o, t)
  /\ \A t \in Trades : Runs(o, t) =>
       /\ r # None /\ r.about = t
       /\ s.submitted \in {None, Sent(t)}
       /\ o[t].phase \notin {"sent", "confirm"} => s.submitted = None
       /\ o[t].phase # "confirm" => s.recovery = None
  /\ \A t \in stored : s.shown = Sent(t) => s.recovery = t
  /\ r # None /\ r.hash = "sent" /\ r.about \in stored => r.from = r.about

Untouched(s, c) ==
  /\ s.lock = "open" /\ s.shown = None /\ s.submitted = None
  /\ s.recovery = None /\ s.approval = None /\ c = None

LoneTab ==
  /\ \A p, q \in Panels : ui[p].wallet = ui[q].wallet
  /\ \A w \in Wallets : record[w] # None => acted # {} /\ \A p \in Panels : ui[p].wallet = w
  /\ \A t \in Trades : op[t].phase # "unused" =>
       op[t].panel \in acted /\ op[t].wallet = ui[op[t].panel].wallet
  /\ \A t \in Trades : (Runs(op, t) => op[t].current) /\ op[t].from \in {t, None}
  /\ \A p \in Panels :
       IF p \in acted THEN OnePanel(ui[p], record[ui[p].wallet], rec[p], op, captured)
                      ELSE Untouched(ui[p], rec[p])
  /\ \A t \in captured : /\ fate[t] \in {"open", "live"} /\ op[t].phase \in {"confirm", "done"}
                         /\ op[t].phase = "confirm" => op[t].from = t
  /\ \A t \in Trades : lost[t] # "crossed"

LoneInv == OneTab => LoneTab

-----------------------------------------------------------------------------

\* A tab that acts in a step after which only one has acted is that one.
LEMMA ActedAlone ==
  ASSUME TypeOK, OneTab', acted' \subseteq Panels, NEW p \in acted'
  PROVE  acted' = {p}
<1>1. IsFiniteSet(acted') /\ Cardinality(acted') <= 1
  BY FS_Subset, PanelAssumption DEF OneTab
<1> SUFFICES ASSUME NEW q \in acted', q # p PROVE FALSE
  OBVIOUS
<1>2. {p, q} \subseteq acted' /\ IsFiniteSet({p, q}) /\ Cardinality({p, q}) = 2
  <2>1. IsFiniteSet({p}) /\ Cardinality({p}) = 1
    BY FS_Singleton
  <2>2. IsFiniteSet({p} \cup {q}) /\ Cardinality({p} \cup {q}) = 2
    BY <2>1, FS_AddElement
  <2>3. {p} \cup {q} = {p, q}
    OBVIOUS
  <2> QED BY <2>2, <2>3
<1>3. Cardinality({p, q}) <= Cardinality(acted')
  BY <1>1, <1>2, FS_Subset
<1>4. Cardinality(acted') \in Nat
  BY <1>1, FS_CardinalityType
<1> QED BY <1>1, <1>2, <1>3, <1>4

\* One tab now was one tab before.
LEMMA OneTabBefore ==
  ASSUME TypeOK, [Next]_vars, OneTab'
  PROVE  OneTab /\ switches' = 0 /\ acted \subseteq acted' /\ acted' \subseteq Panels
<1>1. /\ acted \subseteq acted' /\ acted' \subseteq Panels
      /\ switches' \in {switches, switches + 1}
  <2> USE DEF TypeOK, vars, history
  <2>1. ASSUME NEW p \in Panels, UserStep(p) \/ RecoverEnds(p)
        PROVE  /\ acted \subseteq acted' /\ acted' \subseteq Panels
               /\ switches' \in {switches, switches + 1}
    BY <2>1 DEF UserStep, getQuote, invalidateQuote, changeSide, SetQuote, submit, Begin, Acts,
                recover, abandon, SwitchWallet, Reload, RecoverEnds
  <2>2. ASSUME NEW t \in Trades, OperationStep(t)
        PROVE  acted' = acted /\ switches' = switches
    BY <2>2 DEF OperationStep, AskApproval, ApprovalSubmitted, ApprovalConfirmed, AskWallet,
                Submitted, Confirming, Fails, Resolves, report
  <2>3. ASSUME NEW t \in Trades, Sign(t) \/ Refuse(t) \/ Include(t)
        PROVE  acted' = acted /\ switches' = switches
    BY <2>3 DEF Sign, Refuse, Include, Becomes
  <2>4. CASE UNCHANGED vars
    BY <2>4
  <2> QED BY <2>1, <2>2, <2>3, <2>4 DEF Next
<1>2. switches = 0 /\ switches' = 0
  BY <1>1 DEF OneTab, TypeOK
<1>3. IsFiniteSet(acted') /\ IsFiniteSet(acted) /\ Cardinality(acted) <= Cardinality(acted')
  BY <1>1, FS_Subset, PanelAssumption
<1>4. Cardinality(acted') \in Nat /\ Cardinality(acted) \in Nat
  BY <1>3, FS_CardinalityType
<1> QED BY <1>1, <1>2, <1>3, <1>4 DEF OneTab

LEMMA WriteUncrossed ==
  ASSUME TypeOK, NEW w, NEW r, NEW cause, Write(w, r, cause),
         \A t \in Trades : lost[t] # "crossed",
         cause # "crossed" \/ record[w] = None \/ record[w].about = r.about
  PROVE  \A t \in Trades : lost'[t] # "crossed"
BY DEF Write, Recorded

LEMMA ClearUncrossed ==
  ASSUME TypeOK, NEW w, NEW u, NEW cause, Clear(w, u, cause),
         \A t \in Trades : lost[t] # "crossed",
         cause # "crossed", record[w] = None \/ record[w].about = u
  PROVE  \A t \in Trades : lost'[t] # "crossed"
BY DEF Clear, Recorded

\* The panel that the user is in.
LEMMA LoneKnown ==
  ASSUME IInv, LoneTab, NEW p \in Panels, acted = {p}
  PROVE  /\ TypeOK /\ ui[p] \in PanelStates /\ ui[p].wallet \in Wallets
         /\ rec[p] \in Recoveries \cup {None}
         /\ record[ui[p].wallet] \in Record \cup {None}
         /\ OnePanel(ui[p], record[ui[p].wallet], rec[p], op, captured)
         /\ \A t \in Trades : op[t].phase # "unused" =>
              op[t].panel = p /\ op[t].wallet = ui[p].wallet
BY PanelKnown DEF LoneTab, IInv, TypeOK

\* A step in that panel.
LEMMA LoneStep ==
  ASSUME IInv, LoneTab, NEW p \in Panels, acted \subseteq {p}, acted' = {p},
         NEW w \in Wallets, w = ui[p].wallet,
         NEW s \in PanelStates, ui' = [ui EXCEPT ![p] = s], s.wallet = w,
         NEW c, rec' = [rec EXCEPT ![p] = c],
         NEW r, record' = [record EXCEPT ![w] = r],
         \A t \in Trades : op'[t].phase # "unused" => op'[t].panel = p /\ op'[t].wallet = w,
         \A t \in Trades : (Runs(op', t) => op'[t].current) /\ op'[t].from \in {t, None},
         OnePanel(s, r, c, op', captured'),
         \A t \in captured' : /\ fate'[t] \in {"open", "live"} /\ op'[t].phase \in {"confirm", "done"}
                              /\ op'[t].phase = "confirm" => op'[t].from = t,
         \A t \in Trades : lost'[t] # "crossed"
  PROVE  LoneTab'
<1>1. /\ ui'[p] = s /\ \A q \in Panels \ {p} : ui'[q] = ui[q]
      /\ rec'[p] = c /\ \A q \in Panels \ {p} : rec'[q] = rec[q]
      /\ record'[w] = r /\ \A v \in Wallets \ {w} : record'[v] = record[v]
  BY DEF IInv, TypeOK
<1>2. \A q \in Panels : ui'[q].wallet = w
  BY <1>1 DEF LoneTab
<1>3. \A v \in Wallets : record'[v] # None => \A q \in Panels : ui'[q].wallet = v
  BY <1>1, <1>2 DEF LoneTab
<1>4. \A q \in Panels \ {p} : Untouched(ui'[q], rec'[q])
  BY <1>1 DEF LoneTab
<1>5. OnePanel(ui'[p], record'[ui'[p].wallet], rec'[p], op', captured')
  BY <1>1
<1>6. /\ (\A q, q2 \in Panels : ui[q].wallet = ui[q2].wallet)'
      /\ (\A v \in Wallets : record[v] # None => acted # {} /\ \A q \in Panels : ui[q].wallet = v)'
      /\ (\A t \in Trades : op[t].phase # "unused" =>
            op[t].panel \in acted /\ op[t].wallet = ui[op[t].panel].wallet)'
  BY <1>2, <1>3
<1>7. \A q \in Panels : IF q \in acted' THEN OnePanel(ui'[q], record'[ui'[q].wallet], rec'[q], op', captured')
                        ELSE Untouched(ui'[q], rec'[q])
  BY <1>4, <1>5
<1> QED BY <1>6, <1>7 DEF LoneTab, OnePanel, Untouched, Runs, Sent

-----------------------------------------------------------------------------
(* The user's steps in the one tab. *)

LEMMA QuoteLone ==
  ASSUME IInv, LoneTab, NEW p \in Panels, getQuote(p) \/ invalidateQuote(p) \/ changeSide(p)
  PROVE  LoneTab'
<1>1. /\ TypeOK /\ ui[p].lock = "open" /\ ui[p] \in PanelStates
      /\ UNCHANGED <<record, op, rec, fate, lost, captured, acted>>
  BY DEF IInv, TypeOK, getQuote, invalidateQuote, changeSide, SetQuote, history
<1>2. PICK s \in PanelStates :
        /\ ui' = [ui EXCEPT ![p] = s]
        /\ s.lock = "open" /\ s.wallet = ui[p].wallet /\ s.approval = ui[p].approval
        /\ s.submitted = ui[p].submitted /\ s.recovery = ui[p].recovery
        /\ s.shown \in {ui[p].shown, None}
  <2>1. CASE changeSide(p)
    <3>1. PICK side \in {"buy", "sell"} :
            ui' = [ui EXCEPT ![p].side = side, ![p].quote = FALSE, ![p].shown = None]
      BY <2>1 DEF changeSide
    <3>2. [ui[p] EXCEPT !.side = side, !.quote = FALSE, !.shown = None] \in PanelStates
      BY <1>1 DEF PanelStates
    <3> QED BY <1>1, <3>1, <3>2 DEF TypeOK, PanelStates
  <2>2. CASE \E ready \in BOOLEAN : SetQuote(p, ready)
    <3>1. PICK ready \in BOOLEAN : ui' = [ui EXCEPT ![p].quote = ready]
      BY <2>2 DEF SetQuote
    <3>2. [ui[p] EXCEPT !.quote = ready] \in PanelStates
      BY <1>1 DEF PanelStates
    <3> QED BY <1>1, <3>1, <3>2 DEF TypeOK, PanelStates
  <2> QED BY <2>1, <2>2 DEF getQuote, invalidateQuote
<1>3. ui'[p] = s /\ \A q \in Panels \ {p} : ui'[q] = ui[q]
  BY <1>1, <1>2 DEF TypeOK
<1>4. \A q \in Panels : ui'[q].wallet = ui[q].wallet
  BY <1>2, <1>3
<1>5. \A q \in Panels : IF q \in acted THEN OnePanel(ui'[q], record[ui'[q].wallet], rec[q], op, captured)
                        ELSE Untouched(ui'[q], rec[q])
  <2>1. \A q \in Panels \ {p} : IF q \in acted THEN OnePanel(ui'[q], record[ui'[q].wallet], rec[q], op, captured)
                                ELSE Untouched(ui'[q], rec[q])
    BY <1>3 DEF LoneTab
  <2>2. CASE p \in acted
    <3>1. OnePanel(ui[p], record[ui[p].wallet], rec[p], op, captured)
      BY <2>2 DEF LoneTab
    <3>2. \A t \in Trades : Sent(t) # None
      BY HashTyped, NoneAssumption
    <3>3. OnePanel(s, record[s.wallet], rec[p], op, captured)
      BY <1>1, <1>2, <3>1, <3>2 DEF OnePanel, IInv, TypeOK
    <3> QED BY <1>3, <2>1, <2>2, <3>3
  <2>3. CASE p \notin acted
    <3>1. Untouched(s, rec[p])
      BY <1>1, <1>2, <2>3 DEF LoneTab, Untouched
    <3> QED BY <1>3, <2>1, <2>3, <3>1
  <2> QED BY <2>2, <2>3
<1>6. \A t \in Trades : op[t].phase # "unused" =>
        op[t].panel \in acted /\ op[t].wallet = ui'[op[t].panel].wallet
  BY <1>1, <1>4 DEF LoneTab, TypeOK
<1>7. /\ \A q, q2 \in Panels : ui'[q].wallet = ui'[q2].wallet
      /\ \A w \in Wallets : record[w] # None => acted # {} /\ \A q \in Panels : ui'[q].wallet = w
  BY <1>4 DEF LoneTab
<1> QED BY <1>1, <1>5, <1>6, <1>7 DEF LoneTab, OnePanel, Untouched, Runs, Sent

\* A submission in the one tab finds no record, and no other operation runs.
LEMMA SubmitLone ==
  ASSUME IInv, KeptInv, LoneTab, OneTab', acted' \subseteq Panels, NEW p \in Panels, submit(p)
  PROVE  LoneTab'
<1>1. PICK w \in Wallets : w = ui[p].wallet
  BY PanelKnown
<1>2. PICK u \in PanelStates : u = ui[p] /\ u.lock = "open" /\ TypeOK
  BY PanelKnown DEF submit, Begin
<1>3. acted' = {p} /\ acted \subseteq {p}
  <2>1. acted' = acted \cup {p}
    BY DEF submit, Begin, Acts
  <2> QED BY <1>2, <2>1, ActedAlone
<1>4. /\ record[w] = None /\ u.submitted = None /\ u.recovery = None /\ rec[p] = None
      /\ \A t \in Trades : ~Runs(op, t)
      /\ u.approval # None => u.approval.hash = "approval"
      /\ \A t \in captured : u.shown # Sent(t)
  <2>1. CASE p \in acted
    <3>1. OnePanel(ui[p], record[ui[p].wallet], rec[p], op, captured)
      BY <2>1 DEF LoneTab
    <3>2. captured \subseteq Trades
      BY <1>2 DEF TypeOK
    <3> QED BY <1>1, <1>2, <3>1, <3>2, PanelAssumption DEF OnePanel
  <2>2. CASE p \notin acted
    <3>1. acted = {} /\ Untouched(ui[p], rec[p])
      BY <1>3, <2>2 DEF LoneTab
    <3>2. \A t \in Trades : Sent(t) # None
      BY HashTyped, NoneAssumption
    <3> QED BY <1>1, <1>2, <3>1, <3>2 DEF LoneTab, Untouched, Runs, TypeOK
  <2> QED BY <2>1, <2>2
<1>5. readPendingTrade(ui[p].wallet) = None
  BY <1>1, <1>4 DEF readPendingTrade
<1>6. PICK t \in Trades : Begin(p, t)
  BY <1>5 DEF submit
<1>7. PICK r \in Record : /\ r.about = t /\ r.hash = "none" /\ r.from = None
                          /\ Write(w, r, "no") /\ record' = [record EXCEPT ![w] = r]
  <2>1. u.side \in {"buy", "sell"}
    BY DEF PanelStates
  <2>2. /\ Hashless(t, u.side) \in Record /\ Hashless(t, u.side).about = t
        /\ Hashless(t, u.side).hash = "none" /\ Hashless(t, u.side).from = None
    BY <2>1, HashTyped DEF Hashless
  <2>3. Write(w, Hashless(t, u.side), "no")
    BY <1>1, <1>2, <1>6 DEF Begin
  <2> QED BY <2>2, <2>3 DEF Write
<1>8. PICK s \in PanelStates :
        /\ ui' = [ui EXCEPT ![p] = s] /\ s.wallet = w /\ s.lock = "busy"
        /\ s.shown = u.shown /\ s.submitted = None /\ s.recovery = None /\ s.approval = None
  <2> DEFINE s == [u EXCEPT !.lock = "busy", !.operation = TRUE,
                            !.approval = None, !.asked = (u.side = "buy")]
  <2>1. ui' = [ui EXCEPT ![p] = s]
    BY <1>2, <1>6 DEF Begin
  <2>2. /\ s \in PanelStates /\ s.wallet = u.wallet /\ s.lock = "busy" /\ s.shown = u.shown
        /\ s.submitted = u.submitted /\ s.recovery = u.recovery /\ s.approval = None
    BY DEF PanelStates
  <2> HIDE DEF s
  <2> QED BY <1>1, <1>2, <1>4, <2>1, <2>2
<1>9. /\ op'[t].phase = "prepare" /\ op'[t].panel = p /\ op'[t].wallet = w
      /\ op'[t].current /\ op'[t].from = None
      /\ \A x \in Trades \ {t} : op'[x] = op[x]
      /\ op[t].phase = "unused" /\ UNCHANGED <<rec, fate>>
  BY <1>1, <1>2, <1>6 DEF Begin, TypeOK
<1>10. captured' = captured /\ t \notin captured
  BY <1>6, <1>7, <1>9, PanelAssumption DEF Write, LoneTab
<1>11. OnePanel(s, r, rec[p], op', captured')
  <2>1. \A x \in Trades : Runs(op', x) => x = t
    BY <1>4, <1>9 DEF Runs
  <2>2. \A x \in captured' : s.shown = Sent(x) => s.recovery = x
    BY <1>4, <1>8, <1>10
  <2>3. \A x \in Trades : Runs(op', x) =>
          /\ r.about = x /\ s.submitted \in {None, Sent(x)}
          /\ op'[x].phase \notin {"sent", "confirm"} => s.submitted = None
          /\ op'[x].phase # "confirm" => s.recovery = None
    BY <1>7, <1>8, <1>9, <2>1
  <2>4. r # None
    BY NoneAssumption
  <2> HIDE DEF Runs
  <2> QED BY <1>4, <1>7, <1>8, <2>2, <2>3, <2>4 DEF OnePanel
<1>12. \A x \in Trades : op'[x].phase # "unused" => op'[x].panel = p /\ op'[x].wallet = w
  BY <1>1, <1>3, <1>9 DEF LoneTab
<1>13. \A x \in Trades : (Runs(op', x) => op'[x].current) /\ op'[x].from \in {x, None}
  BY <1>9 DEF LoneTab, Runs
<1>14. \A x \in captured' :
         /\ fate'[x] \in {"open", "live"} /\ op'[x].phase \in {"confirm", "done"}
         /\ op'[x].phase = "confirm" => op'[x].from = x
  BY <1>2, <1>9, <1>10 DEF LoneTab, TypeOK
<1>15. \A x \in Trades : lost'[x] # "crossed"
  BY <1>2, <1>7, WriteUncrossed DEF LoneTab
<1>16. rec' = [rec EXCEPT ![p] = rec[p]]
  BY <1>2, <1>9 DEF TypeOK
<1> QED BY <1>1, <1>3, <1>7, <1>8, <1>11, <1>12, <1>13, <1>14, <1>15, <1>16, LoneStep

\* A reload reads what the record says.
LEMMA ReloadLone ==
  ASSUME IInv, KeptInv, LoneTab, OneTab', acted' \subseteq Panels, NEW p \in Panels, Reload(p)
  PROVE  LoneTab'
<1>1. acted' = acted /\ acted = {p} /\ UNCHANGED <<record, fate, lost, captured>>
  <2>1. p \in acted /\ acted' = acted
    BY DEF Reload, MayTurn, history
  <2> QED BY <2>1, ActedAlone DEF IInv, Reload, history
<1>2. PICK w \in Wallets : w = ui[p].wallet
  BY PanelKnown
<1>3. PICK r \in Record \cup {None} : r = record[w]
  BY DEF IInv, TypeOK
<1>4. OnePanel(ui[p], r, rec[p], op, captured) /\ TypeOK
  BY <1>1, <1>2, <1>3, LoneKnown
<1>5. PICK s \in PanelStates :
        /\ ui' = [ui EXCEPT ![p] = s] /\ s.wallet = w
        /\ s.lock = IF r = None THEN "open" ELSE "unknown"
        /\ s.shown = HashOf(r) /\ s.submitted = HashOf(r)
        /\ s.recovery = (IF r = None THEN None ELSE r.from) /\ s.approval = None
  <2>1. ReadBy(w) \in PanelStates /\ ReadBy(w).wallet = w /\ ui' = [ui EXCEPT ![p] = ReadBy(w)]
    BY <1>2, ReadTyped DEF IInv, Reload
  <2>2. readPendingTrade(w) = r
    BY <1>3 DEF readPendingTrade
  <2> QED BY <2>1, <2>2 DEF ReadBy
<1>6. \A t \in Trades :
        /\ op'[t].wallet = op[t].wallet /\ op'[t].panel = op[t].panel
        /\ op[t].phase = "unused" => op'[t].phase = "unused"
        /\ op[t].phase # "unused" => op'[t].phase = "done"
        /\ op'[t].from \in {op[t].from, None}
  <2>1. \A t \in Trades : op[t].phase # "unused" => op[t].panel = p
    BY <1>1, LoneKnown
  <2>2. \A t \in Trades : op[t] \in Operations
    BY <1>4 DEF TypeOK
  <2> QED BY <2>1, <2>2 DEF Reload, Operations
<1>7. OnePanel(s, r, None, op', captured')
  <2>1. \A t \in Trades : ~Runs(op', t)
    BY <1>6 DEF Runs
  <2>2. HashOf(r) = IF r = None \/ r.hash = "none" THEN None
                    ELSE [about |-> r.about, hash |-> r.hash]
    BY DEF HashOf
  <2>3. r # None => r.from = None \/ (r.hash = "sent" /\ r.from = r.about)
    BY <1>4 DEF OnePanel
  <2>4. r # None /\ r.hash = "sent" /\ r.about \in captured => r.from = r.about
    BY <1>4 DEF OnePanel
  <2>5. s.lock = "open" => r = None /\ s.submitted = None
    BY <1>5, <2>2
  <2>6. s.submitted = None => s.recovery = None
    <3>1. CASE r = None
      BY <1>5, <3>1
    <3>2. CASE r # None /\ r.hash = "none"
      BY <1>5, <2>3, <3>2
    <3>3. CASE r # None /\ r.hash # "none"
      <4>1. [about |-> r.about, hash |-> r.hash] \in Shown
        BY <3>3 DEF Record, Hashes, Shown
      <4> QED BY <1>5, <2>2, <3>3, <4>1, NoneAssumption
    <3> QED BY <3>1, <3>2, <3>3
  <2>7. s.recovery # None => s.submitted = Sent(s.recovery)
    BY <1>5, <2>2, <2>3 DEF Sent
  <2>8. \A t \in captured : s.shown = Sent(t) => s.recovery = t
    <3> SUFFICES ASSUME NEW t \in captured, HashOf(r) = Sent(t) PROVE s.recovery = t
      BY <1>5
    <3>1. t \in Trades /\ Sent(t) # None
      BY <1>4, HashTyped, NoneAssumption DEF TypeOK
    <3>2. r # None /\ r.about = t /\ r.hash = "sent"
      BY <2>2, <3>1 DEF Sent
    <3> QED BY <1>5, <2>4, <3>2
  <2> QED BY <1>1, <1>5, <2>1, <2>3, <2>4, <2>5, <2>6, <2>7, <2>8 DEF OnePanel
<1>8. \A t \in Trades : op'[t].phase # "unused" => op'[t].panel = p /\ op'[t].wallet = w
  BY <1>1, <1>2, <1>6, LoneKnown
<1>9. \A t \in Trades : (Runs(op', t) => op'[t].current) /\ op'[t].from \in {t, None}
  BY <1>6 DEF LoneTab, Runs
<1>10. \A t \in captured' :
         /\ fate'[t] \in {"open", "live"} /\ op'[t].phase \in {"confirm", "done"}
         /\ op'[t].phase = "confirm" => op'[t].from = t
  BY <1>1, <1>4, <1>6 DEF LoneTab, TypeOK
<1>11. /\ rec' = [rec EXCEPT ![p] = None] /\ record' = [record EXCEPT ![w] = r]
       /\ \A t \in Trades : lost'[t] # "crossed"
  BY <1>1, <1>3, <1>4 DEF Reload, TypeOK, LoneTab
<1>12. acted \subseteq {p} /\ acted' = {p}
  BY <1>1
<1> QED BY <1>12, <1>2, <1>5, <1>7, <1>8, <1>9, <1>10, <1>11, LoneStep

\* The record is cleared for good: nothing runs, and nothing is shown.
LEMMA AbandonLone ==
  ASSUME IInv, LoneTab, OneTab', acted' \subseteq Panels, NEW p \in Panels, abandon(p)
  PROVE  LoneTab'
<1>1. PICK u \in PanelStates : u = ui[p] /\ u.wallet \in Wallets /\ u.lock = "unknown" /\ TypeOK
  BY PanelKnown DEF abandon
<1>2. acted' = {p} /\ acted = {p}
  <2>1. p \in acted
    BY <1>1 DEF LoneTab, Untouched
  <2>2. acted' = acted \cup {p}
    BY DEF abandon, Acts
  <2> QED BY <1>1, <2>1, <2>2, ActedAlone
<1>3. OnePanel(u, record[u.wallet], rec[p], op, captured)
  BY <1>1, <1>2, LoneKnown
<1> DEFINE s == [u EXCEPT !.lock = "open", !.operation = FALSE,
                   !.asked = FALSE, !.approval = None, !.submitted = None,
                   !.recovery = None, !.shown = None, !.quote = FALSE]
           t == IF record[u.wallet] = None THEN None ELSE record[u.wallet].about
<1>4. /\ Clear(u.wallet, t, "abandoned") /\ ui' = [ui EXCEPT ![p] = s]
      /\ UNCHANGED <<op, rec, fate>>
  BY <1>1 DEF abandon
<1>5. /\ s \in PanelStates /\ s.wallet = u.wallet /\ s.lock = "open" /\ s.recovery = None
      /\ s.shown = None /\ s.submitted = None /\ s.approval = None
  BY DEF PanelStates
<1>6. \A x \in Trades : lost'[x] # "crossed"
  BY <1>1, <1>4, ClearUncrossed DEF LoneTab
<1>7. captured' = captured /\ record' = [record EXCEPT ![u.wallet] = None]
  BY <1>4 DEF Clear
<1> HIDE DEF s, t
<1>8. OnePanel(s, None, None, op', captured')
  <2>1. \A x \in captured : Sent(x) # None
    BY <1>1, HashTyped, NoneAssumption DEF TypeOK
  <2> QED BY <1>1, <1>3, <1>4, <1>5, <1>7, <2>1 DEF OnePanel
<1>9. rec' = [rec EXCEPT ![p] = None]
  BY <1>1, <1>3, <1>4 DEF OnePanel, TypeOK
<1>10. \A x \in Trades : op'[x].phase # "unused" => op'[x].panel = p /\ op'[x].wallet = u.wallet
  BY <1>1, <1>2, <1>4, LoneKnown
<1>11. /\ \A x \in Trades : (Runs(op', x) => op'[x].current) /\ op'[x].from \in {x, None}
       /\ \A x \in captured' : /\ fate'[x] \in {"open", "live"} /\ op'[x].phase \in {"confirm", "done"}
                               /\ op'[x].phase = "confirm" => op'[x].from = x
  BY <1>4, <1>7 DEF LoneTab, Runs
<1>12. acted \subseteq {p} /\ acted' = {p} /\ u.wallet = ui[p].wallet
  BY <1>1, <1>2
<1> QED BY <1>1, <1>4, <1>5, <1>6, <1>7, <1>8, <1>9, <1>10, <1>11, <1>12, LoneStep

\* A recovery begins on the record that is there.
LEMMA RecoverLone ==
  ASSUME IInv, KeptInv, LoneTab, OneTab', acted' \subseteq Panels, NEW p \in Panels, recover(p)
  PROVE  LoneTab'
<1>1. PICK u \in PanelStates : /\ u = ui[p] /\ u.wallet \in Wallets /\ u.lock = "unknown" /\ TypeOK
                               /\ u.shown # None
  BY PanelKnown DEF recover
<1>2. acted' = {p} /\ acted = {p}
  <2>1. p \in acted
    BY <1>1 DEF LoneTab, Untouched
  <2>2. acted' = acted \cup {p}
    BY DEF recover, Acts
  <2> QED BY <1>1, <2>1, <2>2, ActedAlone
<1>3. OnePanel(u, record[u.wallet], rec[p], op, captured)
  BY <1>1, <1>2, LoneKnown
<1> DEFINE s == [u EXCEPT !.lock = "busy", !.operation = TRUE]
           c == [hash |-> u.shown, side |-> u.side, wallet |-> u.wallet,
                 from |-> u.recovery, current |-> TRUE]
           r == WithHash(u.shown, u.side, u.recovery)
<1>4. /\ Write(u.wallet, r, "mistaken") /\ ui' = [ui EXCEPT ![p] = s]
      /\ rec' = [rec EXCEPT ![p] = c] /\ UNCHANGED <<op, fate>>
  BY <1>1 DEF recover
<1>5. /\ s \in PanelStates /\ s.wallet = u.wallet /\ s.lock = "busy" /\ s.recovery = u.recovery
      /\ s.shown = u.shown /\ s.submitted = u.submitted /\ s.approval = u.approval
  BY DEF PanelStates
<1>6. /\ u.shown \in Shown /\ u.side \in {"buy", "sell"} /\ u.recovery \in Trades \cup {None}
  BY <1>1 DEF PanelStates
<1>7. /\ r \in Record /\ r.about = u.shown.about /\ r.hash = u.shown.hash /\ r.from = u.recovery
      /\ r # None
  BY <1>6, HashTyped, NoneAssumption DEF WithHash
<1>8. c.wallet = u.wallet /\ c.current /\ c.hash = u.shown /\ c.from = u.recovery
  OBVIOUS
<1> HIDE DEF s, c, r
<1>9. \A x \in Trades : lost'[x] # "crossed"
  BY <1>1, <1>4, WriteUncrossed DEF LoneTab
<1>10. /\ record' = [record EXCEPT ![u.wallet] = r]
       /\ captured' = IF u.recovery = u.shown.about /\ Outstanding(u.shown.about)
                      THEN captured \cup {u.shown.about} ELSE captured
  BY <1>4, <1>7 DEF Write
<1>11. u.recovery # None => u.shown = Sent(u.recovery)
  <2>1. \A x \in Trades : Sent(x) # None
    BY HashTyped, NoneAssumption
  <2> QED BY <1>3, <1>6, <2>1 DEF OnePanel
<1>12. \A x \in captured' : u.shown = Sent(x) => u.recovery = x
  BY <1>3, <1>10 DEF OnePanel, Sent
<1>13. \A x \in Trades : ~Runs(op, x)
  BY <1>1, <1>3 DEF OnePanel
<1>14. OnePanel(s, r, c, op', captured')
  <2>1. r.from = None \/ (r.hash = "sent" /\ r.from = r.about)
    BY <1>7, <1>11 DEF Sent
  <2>2. r.hash = "sent" /\ r.about \in captured' => r.from = r.about
    <3>1. u.shown.hash = "sent" => u.shown = Sent(u.shown.about)
      BY <1>6 DEF Shown, Sent
    <3> QED BY <1>7, <1>12, <3>1
  <2>3. UNCHANGED op
    BY <1>4
  <2> QED BY <1>3, <1>5, <1>7, <1>8, <1>12, <1>13, <2>1, <2>2, <2>3 DEF OnePanel
<1>15. \A x \in Trades : op'[x].phase # "unused" => op'[x].panel = p /\ op'[x].wallet = u.wallet
  BY <1>1, <1>2, <1>4, LoneKnown
<1>16. \A x \in Trades : (Runs(op', x) => op'[x].current) /\ op'[x].from \in {x, None}
  BY <1>4 DEF LoneTab, Runs
<1>17. \A x \in captured' : /\ fate'[x] \in {"open", "live"} /\ op'[x].phase \in {"confirm", "done"}
                            /\ op'[x].phase = "confirm" => op'[x].from = x
  <2>1. Outstanding(u.shown.about) => op[u.shown.about].phase = "done"
    <3>1. u.shown.about \in Trades
      BY <1>6 DEF Shown
    <3> QED BY <1>13, <3>1 DEF Runs, Outstanding, KeptInv, NotAskedYet
  <2> QED BY <1>4, <1>10, <2>1 DEF LoneTab, Outstanding
<1>18. acted \subseteq {p} /\ acted' = {p} /\ u.wallet = ui[p].wallet
  BY <1>1, <1>2
<1> QED BY <1>1, <1>4, <1>5, <1>9, <1>10, <1>14, <1>15, <1>16, <1>17, <1>18, LoneStep


-----------------------------------------------------------------------------
(* The end of the one operation or recovery. *)

\* Whatever ran has ended.
AllDone ==
  \A t \in Trades :
    /\ op'[t].panel = op[t].panel /\ op'[t].wallet = op[t].wallet
    /\ op'[t].phase = IF op[t].phase = "unused" THEN "unused" ELSE "done"
    /\ op'[t].from \in {op[t].from, None}

\* What a step leaves of the panel and its record when nothing runs any more.
LoneLeaves(p) ==
  \E s \in PanelStates, r \in Record \cup {None} :
    /\ ui' = [ui EXCEPT ![p] = s] /\ s.wallet = ui[p].wallet
    /\ record' = [record EXCEPT ![ui[p].wallet] = r]
    /\ OnePanel(s, r, None, op', captured')
    /\ \A t \in captured' : t \in captured \/ Outstanding(t)
    /\ \A t \in Trades : lost'[t] # "crossed"

LEMMA LoneEnds ==
  ASSUME IInv, KeptInv, LoneTab, NEW p \in Panels, acted = {p}, acted' = {p},
         captured' \subseteq Trades, LoneLeaves(p), AllDone,
         rec' = [rec EXCEPT ![p] = None], fate' = fate
  PROVE  LoneTab'
<1>1. PICK w \in Wallets : w = ui[p].wallet
  BY PanelKnown
<1>2. PICK s \in PanelStates, r \in Record \cup {None} :
        /\ ui' = [ui EXCEPT ![p] = s] /\ s.wallet = w
        /\ record' = [record EXCEPT ![w] = r]
        /\ OnePanel(s, r, None, op', captured')
        /\ \A t \in captured' : t \in captured \/ Outstanding(t)
        /\ \A t \in Trades : lost'[t] # "crossed"
  BY <1>1 DEF LoneLeaves
<1>3. \A t \in Trades : op'[t].phase # "unused" => op'[t].panel = p /\ op'[t].wallet = w
  BY <1>1, LoneKnown DEF AllDone
<1>4. \A t \in Trades : (Runs(op', t) => op'[t].current) /\ op'[t].from \in {t, None}
  BY DEF AllDone, Runs, LoneTab
<1>5. \A t \in captured' :
        /\ fate'[t] \in {"open", "live"} /\ op'[t].phase \in {"confirm", "done"}
        /\ op'[t].phase = "confirm" => op'[t].from = t
  <2> SUFFICES ASSUME NEW t \in captured'
               PROVE  fate'[t] \in {"open", "live"} /\ op'[t].phase = "done"
    OBVIOUS
  <2>1. t \in Trades /\ fate[t] \in {"open", "live"}
    BY <1>2 DEF LoneTab, Outstanding
  <2>2. op[t].phase # "unused"
    BY <2>1 DEF KeptInv, NotAskedYet
  <2> QED BY <2>1, <2>2 DEF AllDone
<1>6. acted \subseteq {p} /\ acted' = {p}
  OBVIOUS
<1> QED BY <1>1, <1>2, <1>3, <1>4, <1>5, <1>6, LoneStep

\* The answer to a check, or to the wait for the receipt, of the record's trade.
LEMMA ResolutionLone ==
  ASSUME IInv, KeptInv, LoneTab, NEW p \in Panels, acted = {p}, AllDone,
         NEW h \in Shown, NEW side \in {"buy", "sell"}, NEW from \in {h.about, None},
         NEW current \in BOOLEAN, NEW answer \in Answers(h, from, side, ui[p].wallet),
         answer # "error", applyResolution(p, ui[p].wallet, h, side, from, answer, current),
         record[ui[p].wallet] # None, record[ui[p].wallet].about = h.about,
         h.hash = "approval" => from = None,
         \A t \in captured : h = Sent(t) => from = t
  PROVE  LoneLeaves(p)
<1>1. PICK u \in PanelStates : u = ui[p] /\ u.wallet \in Wallets /\ TypeOK
  BY PanelKnown
<1>2. u.approval # None => u.approval.hash = "approval"
  BY <1>1, LoneKnown DEF OnePanel
<1>3. \A t \in Trades : ~Runs(op', t)
  BY DEF AllDone, Runs
<1>4. h.about \in Trades /\ h.hash \in {"approval", "sent"}
      /\ (h.hash = "sent" => h = Sent(h.about))
      /\ \A t : h = Sent(t) => h.hash = "sent" /\ h.about = t
  BY DEF Shown, Sent
<1>5. captured \subseteq Trades /\ \A t \in captured : Outstanding(t)
  BY <1>1 DEF TypeOK, LoneTab, Outstanding
<1>6. CASE answer = "pending"
  <2>1. PICK next \in Provenance(h, from) :
          /\ Write(u.wallet, WithHash(h, side, next), "crossed")
          /\ ui' = [ui EXCEPT ![p] =
               Finished([u EXCEPT !.lock = "unknown", !.shown = h, !.submitted = h,
                                  !.recovery = next], current)]
    BY <1>1, <1>6 DEF applyResolution, Persist
  <2>2. /\ next \in {h.about, None} /\ (next # None => h.hash = "sent")
        /\ (from # None => next = from)
    BY <1>4 DEF Provenance
  <2>3. PICK r \in Record :
          /\ r = WithHash(h, side, next) /\ r.about = h.about /\ r.hash = h.hash /\ r.from = next
    <3>1. next \in Trades \cup {None}
      BY <1>4, <2>2
    <3>2. WithHash(h, side, next) \in Record
      BY <3>1, HashTyped
    <3>3. /\ WithHash(h, side, next).about = h.about /\ WithHash(h, side, next).hash = h.hash
          /\ WithHash(h, side, next).from = next
      BY DEF WithHash
    <3> QED BY <3>2, <3>3
  <2>4. PICK s \in PanelStates :
          /\ ui' = [ui EXCEPT ![p] = s] /\ s.wallet = u.wallet /\ s.lock = "unknown"
          /\ s.shown = h /\ s.submitted = h /\ s.recovery = next /\ s.approval = u.approval
    <3> DEFINE s == Finished([u EXCEPT !.lock = "unknown", !.shown = h, !.submitted = h,
                                       !.recovery = next], current)
    <3>1. /\ s \in PanelStates /\ s.wallet = u.wallet /\ s.lock = "unknown"
          /\ s.shown = h /\ s.submitted = h /\ s.recovery = next /\ s.approval = u.approval
      BY <1>4, <2>2 DEF Finished, PanelStates
    <3> HIDE DEF s
    <3> QED BY <2>1, <3>1 DEF s
  <2>5. Write(u.wallet, r, "crossed")
    BY <2>1, <2>3
  <2>6. \A t \in Trades : lost'[t] # "crossed"
    BY <1>1, <2>3, <2>5, WriteUncrossed DEF LoneTab
  <2>7. /\ record' = [record EXCEPT ![u.wallet] = r]
        /\ \A t \in captured' : \/ t \in captured
                                \/ t = h.about /\ next = h.about /\ Outstanding(t)
    BY <2>3, <2>5 DEF Write
  <2>8. \A t \in captured' : h = Sent(t) => next = t
    BY <1>4, <1>5, <2>2, <2>7, PanelAssumption
  <2>9. h # None /\ r # None
    BY NoneAssumption
  <2>10. OnePanel(s, r, None, op', captured')
    BY <1>2, <1>3, <1>4, <2>2, <2>3, <2>4, <2>8, <2>9 DEF OnePanel
  <2> QED BY <1>1, <2>4, <2>6, <2>7, <2>10 DEF LoneLeaves
<1>7. CASE answer # "pending"
  <2>1. /\ Clear(u.wallet, h.about, "no")
        /\ ui' = [ui EXCEPT ![p] =
             Finished([u EXCEPT !.lock = "open", !.shown = h, !.submitted = None,
                                !.recovery = None, !.quote = FALSE], current)]
    BY <1>1, <1>7 DEF applyResolution
  <2>2. PICK s \in PanelStates :
          /\ ui' = [ui EXCEPT ![p] = s] /\ s.wallet = u.wallet /\ s.lock = "open"
          /\ s.shown = h /\ s.submitted = None /\ s.recovery = None /\ s.approval = u.approval
    <3> DEFINE s == Finished([u EXCEPT !.lock = "open", !.shown = h, !.submitted = None,
                                       !.recovery = None, !.quote = FALSE], current)
    <3>1. /\ s \in PanelStates /\ s.wallet = u.wallet /\ s.lock = "open"
          /\ s.shown = h /\ s.submitted = None /\ s.recovery = None /\ s.approval = u.approval
      BY DEF Finished, PanelStates
    <3> HIDE DEF s
    <3> QED BY <2>1, <3>1 DEF s
  <2>3. \A t \in Trades : lost'[t] # "crossed"
    BY <1>1, <2>1, ClearUncrossed DEF LoneTab
  <2>4. captured' = captured /\ record' = [record EXCEPT ![u.wallet] = None]
    BY <2>1 DEF Clear
  <2>5. \A t \in captured : h # Sent(t)
    <3> SUFFICES ASSUME NEW t \in captured, h = Sent(t) PROVE FALSE
      OBVIOUS
    <3>1. h.about = t /\ h.hash = "sent" /\ from = t /\ fate[t] \in {"open", "live"}
      BY <1>4 DEF LoneTab
    <3>2. Answers(h, from, side, ui[p].wallet) = {"error", "pending"}
      BY <3>1 DEF Answers
    <3> QED BY <1>7, <3>2
  <2>6. OnePanel(s, None, None, op', captured')
    BY <1>2, <1>3, <2>2, <2>4, <2>5 DEF OnePanel
  <2> QED BY <1>1, <2>2, <2>3, <2>4, <2>6 DEF LoneLeaves
<1> QED BY <1>6, <1>7

\* The end of an operation that could not be confirmed.
LEMMA CatchLone ==
  ASSUME IInv, KeptInv, LoneTab, NEW t \in Trades, Runs(op, t), AllDone,
         NEW definitive \in BOOLEAN, catch(t, definitive), acted = {op[t].panel}
  PROVE  LoneLeaves(op[t].panel)
<1>1. PICK p \in Panels : p = op[t].panel /\ acted = {p}
  <2>1. op[t].panel \in acted
    BY DEF LoneTab, Runs
  <2> QED BY <2>1 DEF IInv, TypeOK
<1>2. PICK u \in PanelStates : u = ui[p] /\ u.wallet \in Wallets /\ TypeOK
  BY PanelKnown
<1>3. PICK r \in Record \cup {None} : r = record[u.wallet]
  BY <1>2, <1>1, LoneKnown
<1>4. OnePanel(u, r, rec[p], op, captured)
  BY <1>1, <1>2, <1>3, LoneKnown
<1>5. /\ r # None /\ r.about = t /\ u.submitted \in {None, Sent(t)}
      /\ u.submitted = None => u.recovery = None
      /\ u.submitted # None => u.shown = u.submitted
      /\ u.recovery # None => u.submitted = Sent(u.recovery)
      /\ u.approval # None => u.approval.hash = "approval"
      /\ \A x \in captured : u.shown = Sent(x) => u.recovery = x
  BY <1>4 DEF OnePanel
<1>6. /\ op[t].current /\ op[t].wallet = u.wallet /\ op[t].side \in {"buy", "sell"}
      /\ u.recovery \in Trades \cup {None}
  <2>1. op[t].wallet = ui[p].wallet /\ op[t].current
    BY <1>1 DEF LoneTab, Runs
  <2>2. op[t] \in Operations
    BY <1>2 DEF TypeOK
  <2> QED BY <1>2, <2>1, <2>2 DEF Operations, PanelStates
<1>7. /\ \A x \in Trades : ~Runs(op', x)
      /\ captured \subseteq Trades /\ \A x \in Trades : Sent(x) # None
  BY <1>2, HashTyped, NoneAssumption DEF AllDone, Runs, TypeOK
<1>8. CASE u.submitted # None
  <2>1. /\ Write(u.wallet, WithHash(u.submitted, op[t].side, u.recovery), "crossed")
        /\ ui' = [ui EXCEPT ![p] = Finished([u EXCEPT !.lock = "unknown",
                                                      !.shown = u.submitted], TRUE)]
    BY <1>1, <1>2, <1>6, <1>8 DEF catch, Persist
  <2>2. u.submitted = Sent(t) /\ u.recovery \in {t, None} /\ u.shown = u.submitted
    BY <1>5, <1>8 DEF Sent
  <2>3. PICK n \in Record : /\ n = WithHash(u.submitted, op[t].side, u.recovery)
                            /\ n.about = t /\ n.hash = "sent" /\ n.from = u.recovery
    BY <1>6, <2>2, HashTyped DEF WithHash, Sent
  <2>4. PICK s \in PanelStates :
          /\ ui' = [ui EXCEPT ![p] = s] /\ s.wallet = u.wallet /\ s.lock = "unknown"
          /\ s.shown = u.submitted /\ s.submitted = u.submitted /\ s.recovery = u.recovery
          /\ s.approval = u.approval
    <3> DEFINE s == Finished([u EXCEPT !.lock = "unknown", !.shown = u.submitted], TRUE)
    <3>1. /\ s \in PanelStates /\ s.wallet = u.wallet /\ s.lock = "unknown"
          /\ s.shown = u.submitted /\ s.submitted = u.submitted /\ s.recovery = u.recovery
          /\ s.approval = u.approval
      BY DEF Finished, PanelStates
    <3> HIDE DEF s
    <3> QED BY <2>1, <3>1 DEF s
  <2>5. Write(u.wallet, n, "crossed")
    BY <2>1, <2>3
  <2>6. \A x \in Trades : lost'[x] # "crossed"
    BY <1>2, <1>3, <1>5, <2>3, <2>5, WriteUncrossed DEF LoneTab
  <2>7. /\ record' = [record EXCEPT ![u.wallet] = n]
        /\ \A x \in captured' : x \in captured \/ (x = t /\ u.recovery = t /\ Outstanding(x))
    BY <2>3, <2>5 DEF Write
  <2>8. \A x \in captured' : u.submitted = Sent(x) => u.recovery = x
    BY <1>5, <2>2, <2>7 DEF Sent
  <2>9. n # None
    BY NoneAssumption
  <2>10. n.about \in captured' => n.from = n.about
    BY <2>2, <2>3, <2>8
  <2>11. OnePanel(s, n, None, op', captured')
    BY <1>5, <1>7, <1>8, <2>2, <2>3, <2>4, <2>8, <2>9, <2>10 DEF OnePanel
  <2> QED BY <1>1, <1>2, <2>4, <2>6, <2>7, <2>11 DEF LoneLeaves
<1>9. CASE u.submitted = None /\ ~definitive /\ (u.approval # None \/ u.asked)
  <2>1. /\ Write(u.wallet, Hashless(t, op[t].side), "crossed")
        /\ ui' = [ui EXCEPT ![p] = Finished([u EXCEPT !.lock = "unknown",
                     !.shown = IF u.approval = None THEN @ ELSE u.approval], TRUE)]
    BY <1>1, <1>2, <1>6, <1>9 DEF catch, Persist
  <2>2. PICK n \in Record : /\ n = Hashless(t, op[t].side)
                            /\ n.about = t /\ n.hash = "none" /\ n.from = None
    BY <1>6, HashTyped DEF Hashless
  <2>3. PICK s \in PanelStates :
          /\ ui' = [ui EXCEPT ![p] = s] /\ s.wallet = u.wallet /\ s.lock = "unknown"
          /\ s.shown = (IF u.approval = None THEN u.shown ELSE u.approval)
          /\ s.submitted = None /\ s.recovery = u.recovery /\ s.approval = u.approval
    <3> DEFINE s == Finished([u EXCEPT !.lock = "unknown",
                                !.shown = IF u.approval = None THEN @ ELSE u.approval], TRUE)
    <3>1. /\ s \in PanelStates /\ s.wallet = u.wallet /\ s.lock = "unknown"
          /\ s.shown = (IF u.approval = None THEN u.shown ELSE u.approval)
          /\ s.submitted = None /\ s.recovery = u.recovery /\ s.approval = u.approval
      BY <1>9 DEF Finished, PanelStates
    <3> HIDE DEF s
    <3> QED BY <2>1, <3>1 DEF s
  <2>4. Write(u.wallet, n, "crossed")
    BY <2>1, <2>2
  <2>5. \A x \in Trades : lost'[x] # "crossed"
    BY <1>2, <1>3, <1>5, <2>2, <2>4, WriteUncrossed DEF LoneTab
  <2>6. record' = [record EXCEPT ![u.wallet] = n] /\ captured' = captured
    BY <2>2, <2>4, PanelAssumption DEF Write
  <2>7. \A x \in captured : s.shown # Sent(x)
    <3> SUFFICES ASSUME NEW x \in captured PROVE s.shown # Sent(x)
      OBVIOUS
    <3>1. u.recovery # x /\ u.shown # Sent(x)
      BY <1>5, <1>7, <1>9, PanelAssumption
    <3>2. u.approval # None => u.approval # Sent(x)
      BY <1>5 DEF Sent
    <3> QED BY <2>3, <3>1, <3>2
  <2>8. n # None
    BY NoneAssumption
  <2>9. OnePanel(s, n, None, op', captured')
    BY <1>5, <1>7, <1>9, <2>2, <2>3, <2>6, <2>7, <2>8 DEF OnePanel
  <2> QED BY <1>1, <1>2, <2>3, <2>5, <2>6, <2>9 DEF LoneLeaves
<1>10. CASE u.submitted = None /\ (definitive \/ ~(u.approval # None \/ u.asked))
  <2> DEFINE cause == IF definitive THEN "no" ELSE "unseen"
  <2>1. /\ Clear(u.wallet, t, cause)
        /\ ui' = [ui EXCEPT ![p] = Finished([u EXCEPT !.lock = "open"], TRUE)]
    BY <1>1, <1>2, <1>6, <1>10 DEF catch
  <2>2. PICK s \in PanelStates :
          /\ ui' = [ui EXCEPT ![p] = s] /\ s.wallet = u.wallet /\ s.lock = "open"
          /\ s.shown = u.shown /\ s.submitted = None /\ s.recovery = u.recovery
          /\ s.approval = u.approval
    <3> DEFINE s == Finished([u EXCEPT !.lock = "open"], TRUE)
    <3>1. /\ s \in PanelStates /\ s.wallet = u.wallet /\ s.lock = "open"
          /\ s.shown = u.shown /\ s.submitted = None /\ s.recovery = u.recovery
          /\ s.approval = u.approval
      BY <1>10 DEF Finished, PanelStates
    <3> HIDE DEF s
    <3> QED BY <2>1, <3>1 DEF s
  <2>3. cause # "crossed"
    OBVIOUS
  <2> HIDE DEF cause
  <2>4. \A x \in Trades : lost'[x] # "crossed"
    BY <1>2, <1>3, <1>5, <2>1, <2>3, ClearUncrossed DEF LoneTab
  <2>5. captured' = captured /\ record' = [record EXCEPT ![u.wallet] = None]
    BY <2>1 DEF Clear
  <2>6. OnePanel(s, None, None, op', captured')
    BY <1>5, <1>7, <1>10, <2>2, <2>5 DEF OnePanel
  <2> QED BY <1>1, <1>2, <2>2, <2>4, <2>5, <2>6 DEF LoneLeaves
<1> QED BY <1>8, <1>9, <1>10

\* A check ends, in the one tab, with the record it began on.
LEMMA RecoverEndsLone ==
  ASSUME IInv, KeptInv, LoneTab, OneTab', acted' \subseteq Panels, NEW p \in Panels, RecoverEnds(p)
  PROVE  LoneTab'
<1>1. PICK u \in PanelStates : u = ui[p] /\ u.wallet \in Wallets /\ TypeOK
  BY PanelKnown
<1>2. PICK c \in Recoveries : c = rec[p] /\ c # None
  BY PanelKnown DEF RecoverEnds
<1>3. acted' = {p} /\ acted = {p}
  <2>1. p \in acted
    BY <1>2 DEF LoneTab, Untouched
  <2>2. acted' = acted
    BY DEF RecoverEnds
  <2> QED BY <1>1, <2>1, <2>2, ActedAlone
<1>4. PICK r \in Record \cup {None} : r = record[u.wallet] /\ OnePanel(u, r, c, op, captured)
  BY <1>1, <1>2, <1>3, LoneKnown
<1>5. /\ c.wallet = u.wallet /\ c.current /\ c.hash = u.shown /\ c.from = u.recovery
      /\ r # None /\ r.about = c.hash.about
      /\ \A t \in Trades : ~Runs(op, t)
      /\ u.submitted = None => u.recovery = None
      /\ u.submitted # None => u.shown = u.submitted
      /\ u.recovery # None => u.submitted = Sent(u.recovery)
      /\ u.approval # None => u.approval.hash = "approval"
      /\ \A t \in captured : u.shown = Sent(t) => u.recovery = t
  BY <1>2, <1>4 DEF OnePanel
<1>6. /\ c.hash \in Shown /\ c.side \in {"buy", "sell"} /\ c.current \in BOOLEAN
      /\ u.recovery \in Trades \cup {None} /\ c.hash.about \in Trades
  BY DEF Recoveries, PanelStates, Shown
<1>7. u.recovery # None => c.hash = Sent(u.recovery)
  <2>1. \A t \in Trades : Sent(t) # None
    BY HashTyped, NoneAssumption
  <2> QED BY <1>5, <1>6, <2>1
<1>8. c.from \in {c.hash.about, None} /\ (c.hash.hash = "approval" => c.from = None)
  BY <1>5, <1>7 DEF Sent
<1>9. AllDone
  <2>1. UNCHANGED op
    BY DEF RecoverEnds
  <2> QED BY <1>5, <2>1 DEF AllDone, Runs
<1>10. captured' \subseteq Trades /\ rec' = [rec EXCEPT ![p] = None] /\ fate' = fate
  <2>1. IInv'
    BY RecoverEndsKeeps
  <2> QED BY <2>1 DEF IInv, TypeOK, RecoverEnds
<1>11. LoneLeaves(p)
  <2>1. PICK answer \in Answers(c.hash, c.from, c.side, c.wallet) :
          IF answer # "error" THEN
            applyResolution(p, c.wallet, c.hash, c.side, c.from, answer, c.current)
          ELSE IF ~c.current THEN Keep /\ UNCHANGED ui
          ELSE /\ Persist(c.wallet, WithHash(c.hash, c.side, ui[p].recovery))
               /\ ui' = [ui EXCEPT ![p] = Finished([@ EXCEPT !.lock = "unknown"], TRUE)]
    BY <1>2 DEF RecoverEnds, check
  <2>2. CASE answer # "error"
    <3>1. \A t \in captured : c.hash = Sent(t) => c.from = t
      BY <1>5
    <3>2. /\ answer \in Answers(c.hash, c.from, c.side, ui[p].wallet)
          /\ applyResolution(p, ui[p].wallet, c.hash, c.side, c.from, answer, c.current)
          /\ record[ui[p].wallet] # None /\ record[ui[p].wallet].about = c.hash.about
      BY <1>1, <1>4, <1>5, <2>1, <2>2
    <3> QED BY <1>3, <1>6, <1>8, <1>9, <2>2, <3>1, <3>2, ResolutionLone
  <2>3. CASE answer = "error"
    <3>1. /\ Write(u.wallet, WithHash(c.hash, c.side, u.recovery), "crossed")
          /\ ui' = [ui EXCEPT ![p] = Finished([u EXCEPT !.lock = "unknown"], TRUE)]
      BY <1>1, <1>5, <2>1, <2>3 DEF Persist
    <3>2. PICK n \in Record : /\ n = WithHash(c.hash, c.side, u.recovery)
                              /\ n.about = c.hash.about /\ n.hash = c.hash.hash
                              /\ n.from = u.recovery
      <4>1. WithHash(c.hash, c.side, u.recovery) \in Record
        BY <1>6, HashTyped
      <4> QED BY <4>1 DEF WithHash
    <3>3. PICK s \in PanelStates :
            /\ ui' = [ui EXCEPT ![p] = s] /\ s.wallet = u.wallet /\ s.lock = "unknown"
            /\ s.shown = u.shown /\ s.submitted = u.submitted /\ s.recovery = u.recovery
            /\ s.approval = u.approval
      <4> DEFINE s == Finished([u EXCEPT !.lock = "unknown"], TRUE)
      <4>1. /\ s \in PanelStates /\ s.wallet = u.wallet /\ s.lock = "unknown"
            /\ s.shown = u.shown /\ s.submitted = u.submitted /\ s.recovery = u.recovery
            /\ s.approval = u.approval
        BY DEF Finished, PanelStates
      <4> HIDE DEF s
      <4> QED BY <3>1, <4>1 DEF s
    <3>4. Write(u.wallet, n, "crossed")
      BY <3>1, <3>2
    <3>5. \A t \in Trades : lost'[t] # "crossed"
      BY <1>1, <1>4, <1>5, <3>2, <3>4, WriteUncrossed DEF LoneTab
    <3>6. /\ record' = [record EXCEPT ![u.wallet] = n]
          /\ \A t \in captured' :
               t \in captured \/ (t = n.about /\ u.recovery = t /\ Outstanding(t))
      BY <3>2, <3>4 DEF Write
    <3>7. \A t \in captured' : u.shown = Sent(t) => u.recovery = t
      BY <1>5, <3>6
    <3>8. n.hash = "sent" => u.shown = Sent(n.about)
      BY <1>5, <1>6, <3>2 DEF Shown, Sent
    <3>9. n # None /\ (n.from = None \/ (n.hash = "sent" /\ n.from = n.about))
      BY <1>7, <3>2, NoneAssumption DEF Sent
    <3>10. \A t \in Trades : ~Runs(op', t)
      BY <1>9 DEF AllDone, Runs
    <3>11. OnePanel(s, n, None, op', captured')
      BY <1>5, <3>2, <3>3, <3>7, <3>8, <3>9, <3>10 DEF OnePanel
    <3> QED BY <1>1, <3>3, <3>5, <3>6, <3>11 DEF LoneLeaves
  <2> QED BY <2>2, <2>3
<1> QED BY <1>3, <1>9, <1>10, <1>11, LoneEnds

-----------------------------------------------------------------------------
(* The steps of the one operation. *)

\* What is known of an operation that runs in the one tab.
LEMMA LoneRun ==
  ASSUME IInv, LoneTab, NEW t \in Trades, Runs(op, t), OneTab', acted' = acted
  PROVE  \E p \in Panels : \E u \in PanelStates, r \in Record, w \in Wallets :
           /\ p = op[t].panel /\ acted = {p} /\ acted' = {p}
           /\ u = ui[p] /\ w = u.wallet /\ r = record[w] /\ w = op[t].wallet
           /\ op[t].current /\ op[t].side \in {"buy", "sell"} /\ rec[p] = None /\ TypeOK
           /\ OnePanel(u, r, None, op, captured) /\ u.lock = "busy"
           /\ r.about = t /\ u.submitted \in {None, Sent(t)}
           /\ op[t].phase \notin {"sent", "confirm"} => u.submitted = None
           /\ op[t].phase # "confirm" => u.recovery = None /\ t \notin captured
           /\ \A x \in Trades : Runs(op, x) => x = t
<1>1. op[t].panel \in acted /\ op[t].wallet = ui[op[t].panel].wallet /\ op[t].current
  BY DEF LoneTab, Runs
<1>2. PICK p \in Panels : p = op[t].panel /\ acted = {p} /\ acted' = {p}
  <2>1. op[t].panel \in Panels /\ TypeOK
    BY <1>1 DEF IInv, TypeOK
  <2>2. acted' = {op[t].panel}
    BY <1>1, <2>1, ActedAlone DEF TypeOK
  <2> QED BY <2>1, <2>2
<1>3. PICK u \in PanelStates : u = ui[p] /\ u.wallet \in Wallets /\ TypeOK
  BY PanelKnown
<1>4. PICK r \in Record \cup {None} : r = record[u.wallet] /\ OnePanel(u, r, rec[p], op, captured)
  BY <1>2, <1>3, LoneKnown
<1>5. /\ r # None /\ r.about = t /\ u.submitted \in {None, Sent(t)} /\ rec[p] = None
      /\ op[t].phase \notin {"sent", "confirm"} => u.submitted = None
      /\ op[t].phase # "confirm" => u.recovery = None
      /\ \A x \in Trades : Runs(op, x) => x = t
      /\ u.lock = "busy"
  BY <1>4 DEF OnePanel
<1>6. t \in captured => op[t].phase = "confirm"
  BY DEF LoneTab, Runs
<1>7. op[t].side \in {"buy", "sell"}
  BY <1>3 DEF TypeOK, Operations
<1>8. r \in Record
  BY <1>5
<1> QED BY <1>1, <1>2, <1>3, <1>4, <1>5, <1>6, <1>7, <1>8

\* A step after which operation t goes on, and that leaves the panel in state s and
\* its record as r.
OpGoesOn(t) ==
  /\ Runs(op', t) /\ op'[t].from \in {t, None} /\ op'[t].current = op[t].current
  /\ op'[t].panel = op[t].panel /\ op'[t].wallet = op[t].wallet
  /\ \A x \in Trades \ {t} : op'[x] = op[x] /\ fate'[x] = fate[x]
  /\ op'[t].phase = "confirm" => fate' = fate

LeavesBusy(t, s, r) ==
  /\ s.lock = "busy" /\ r.about = t /\ s.wallet = op[t].wallet
  /\ r.from = None \/ (r.hash = "sent" /\ r.from = t)
  /\ s.submitted \in {None, Sent(t)} /\ (s.submitted = None => s.recovery = None)
  /\ s.submitted # None => s.shown = s.submitted
  /\ s.recovery # None => s.submitted = Sent(s.recovery)
  /\ s.approval # None => s.approval.hash = "approval"
  /\ op'[t].phase \notin {"sent", "confirm"} => s.submitted = None
  /\ op'[t].phase # "confirm" => s.recovery = None
  /\ \A x \in captured' : s.shown = Sent(x) => s.recovery = x
  /\ r.hash = "sent" /\ t \in captured' => r.from = t
  /\ \A x \in captured' :
       \/ x \in captured /\ x # t
       \/ x = t /\ Outstanding(t) /\ op'[t].phase = "confirm" /\ op'[t].from = t
  /\ captured' \subseteq Trades /\ \A x \in Trades : lost'[x] # "crossed"

LEMMA LoneGoesOn ==
  ASSUME IInv, LoneTab, OneTab', acted' = acted, NEW t \in Trades, Runs(op, t),
         OpGoesOn(t), rec' = rec,
         NEW s \in PanelStates, ui' = [ui EXCEPT ![op[t].panel] = s],
         NEW r \in Record, record' = [record EXCEPT ![op[t].wallet] = r],
         LeavesBusy(t, s, r)
  PROVE  LoneTab'
<1> USE DEF LeavesBusy
<1>1. PICK p \in Panels, w \in Wallets :
        /\ p = op[t].panel /\ acted = {p} /\ acted' = {p} /\ w = ui[p].wallet
        /\ w = op[t].wallet /\ op[t].current /\ rec[p] = None /\ TypeOK
        /\ \A x \in Trades : Runs(op, x) => x = t
  BY LoneRun
<1>2. /\ op'[t].current /\ op'[t].panel = p /\ op'[t].wallet = w
      /\ \A x \in Trades \ {t} : op'[x] = op[x]
  BY <1>1 DEF OpGoesOn
<1>3. \A x \in Trades : Runs(op', x) => x = t
  BY <1>1, <1>2 DEF Runs
<1>4. r # None
  BY NoneAssumption
<1>5. OnePanel(s, r, None, op', captured')
  BY <1>1, <1>2, <1>3, <1>4 DEF OnePanel
<1>6. \A x \in Trades : op'[x].phase # "unused" => op'[x].panel = p /\ op'[x].wallet = w
  <2> SUFFICES ASSUME NEW x \in Trades, op'[x].phase # "unused"
               PROVE  op'[x].panel = p /\ op'[x].wallet = w
    OBVIOUS
  <2>1. CASE x = t
    BY <1>2, <2>1
  <2>2. CASE x # t
    <3>1. \A y \in Trades : op[y].phase # "unused" => op[y].panel = p /\ op[y].wallet = ui[p].wallet
      BY <1>1, LoneKnown
    <3>2. op'[x] = op[x]
      BY <1>2, <2>2
    <3> QED BY <1>1, <3>1, <3>2
  <2> QED BY <2>1, <2>2
<1>7. \A x \in Trades : (Runs(op', x) => op'[x].current) /\ op'[x].from \in {x, None}
  <2> SUFFICES ASSUME NEW x \in Trades \ {t} PROVE op'[x].from \in {x, None}
    BY <1>2, <1>3 DEF OpGoesOn
  <2>1. op[x].from \in {x, None}
    BY DEF LoneTab
  <2> QED BY <1>2, <2>1
<1>8. \A x \in captured' :
        /\ fate'[x] \in {"open", "live"} /\ op'[x].phase \in {"confirm", "done"}
        /\ op'[x].phase = "confirm" => op'[x].from = x
  <2> SUFFICES ASSUME NEW x \in captured'
               PROVE  /\ fate'[x] \in {"open", "live"} /\ op'[x].phase \in {"confirm", "done"}
                      /\ op'[x].phase = "confirm" => op'[x].from = x
    OBVIOUS
  <2>1. CASE x = t
    BY <1>2, <2>1 DEF Outstanding, OpGoesOn, Runs
  <2>2. CASE x # t
    <3>1. x \in captured /\ x \in Trades \ {t}
      BY <2>2
    <3>2. /\ fate[x] \in {"open", "live"} /\ op[x].phase \in {"confirm", "done"}
          /\ op[x].phase = "confirm" => op[x].from = x
      BY <3>1 DEF LoneTab
    <3> QED BY <1>2, <3>1, <3>2 DEF OpGoesOn
  <2> QED BY <2>1, <2>2
<1>9. acted \subseteq {p} /\ acted' = {p} /\ rec' = [rec EXCEPT ![p] = None]
  BY <1>1 DEF TypeOK
<1>10. /\ IInv /\ LoneTab /\ p \in Panels /\ w \in Wallets /\ w = ui[p].wallet
       /\ s \in PanelStates /\ ui' = [ui EXCEPT ![p] = s] /\ s.wallet = w
       /\ record' = [record EXCEPT ![w] = r] /\ \A x \in Trades : lost'[x] # "crossed"
  BY <1>1
<1> QED BY ONLY <1>5, <1>6, <1>7, <1>8, <1>9, <1>10, LoneStep

\* What a report of a current operation shows.
LEMMA ReportLone ==
  ASSUME TypeOK, NEW t \in Trades, NEW p \in Panels, p = op[t].panel, op[t].current,
         NEW refs \in PanelStates, NEW hash \in Shown \cup {None}, report(t, refs, hash)
  PROVE  /\ rec' = rec /\ acted' = acted
         /\ \E s \in PanelStates :
              /\ ui' = [ui EXCEPT ![p] = s] /\ s.wallet = refs.wallet /\ s.lock = "busy"
              /\ s.shown = (IF hash = None THEN refs.shown ELSE hash)
              /\ s.submitted = refs.submitted /\ s.recovery = refs.recovery
              /\ s.approval = refs.approval
<1> DEFINE s == [refs EXCEPT !.lock = "busy", !.shown = IF hash = None THEN @ ELSE hash]
<1>1. ui' = [ui EXCEPT ![p] = s] /\ rec' = rec /\ acted' = acted
  BY DEF report
<1>2. /\ s \in PanelStates /\ s.wallet = refs.wallet /\ s.lock = "busy"
      /\ s.shown = (IF hash = None THEN refs.shown ELSE hash)
      /\ s.submitted = refs.submitted /\ s.recovery = refs.recovery
      /\ s.approval = refs.approval
  BY DEF PanelStates
<1> HIDE DEF s
<1> QED BY <1>1, <1>2

LEMMA AskLone ==
  ASSUME IInv, LoneTab, OneTab', NEW t \in Trades,
         AskApproval(t) \/ ApprovalSubmitted(t) \/ ApprovalConfirmed(t) \/ AskWallet(t)
  PROVE  LoneTab'
<1>1. Runs(op, t) /\ acted' = acted /\ op[t].phase \notin {"sent", "confirm"}
  BY DEF AskApproval, ApprovalSubmitted, ApprovalConfirmed, AskWallet, At, Runs, report
<1>2. PICK p \in Panels : \E u \in PanelStates, r \in Record, w \in Wallets :
        /\ p = op[t].panel /\ acted = {p} /\ acted' = {p}
        /\ u = ui[p] /\ w = u.wallet /\ r = record[w] /\ w = op[t].wallet
        /\ op[t].current /\ rec[p] = None /\ TypeOK
        /\ OnePanel(u, r, None, op, captured)
        /\ r.about = t /\ u.submitted = None /\ u.recovery = None /\ t \notin captured
        /\ \A x \in Trades : Runs(op, x) => x = t
  BY <1>1, LoneRun
<1>3. PICK u \in PanelStates, r \in Record, w \in Wallets :
        /\ p = op[t].panel /\ acted = {p} /\ acted' = {p}
        /\ u = ui[p] /\ w = u.wallet /\ r = record[w] /\ w = op[t].wallet
        /\ op[t].current /\ rec[p] = None /\ TypeOK
        /\ OnePanel(u, r, None, op, captured)
        /\ r.about = t /\ u.submitted = None /\ u.recovery = None /\ t \notin captured
        /\ \A x \in Trades : Runs(op, x) => x = t
  BY <1>2
<1>4. PICK phase \in {"approve", "approving", "sell", "wallet"},
           refs \in {u, [u EXCEPT !.asked = TRUE], [u EXCEPT !.approval = Approval(t)]},
           hash \in {None, Approval(t)} :
        /\ op' = [op EXCEPT ![t].phase = phase] /\ report(t, refs, hash)
        /\ fate' = fate \/ fate' = [fate EXCEPT ![t] = "open"]
        /\ UNCHANGED <<record, lost, captured>>
  BY <1>3 DEF AskApproval, ApprovalSubmitted, ApprovalConfirmed, AskWallet, Goto, Refs, Keep
<1>5. Approval(t) \in Shown /\ Approval(t).hash = "approval"
      /\ \A x : Approval(t) # Sent(x)
  BY HashTyped DEF Approval, Sent
<1>6. /\ refs \in PanelStates /\ refs.wallet = w /\ refs.shown = u.shown
      /\ refs.submitted = None /\ refs.recovery = None
      /\ refs.approval \in {u.approval, Approval(t)}
  <2>1. CASE refs = u
    BY <1>3, <2>1
  <2>2. CASE refs = [u EXCEPT !.asked = TRUE]
    <3>1. /\ refs \in PanelStates /\ refs.wallet = u.wallet /\ refs.shown = u.shown
          /\ refs.submitted = u.submitted /\ refs.recovery = u.recovery
          /\ refs.approval = u.approval
      BY ONLY <2>2, AskedSet
    <3> QED BY <1>3, <3>1
  <2>3. CASE refs = [u EXCEPT !.approval = Approval(t)]
    <3>1. /\ refs \in PanelStates /\ refs.wallet = u.wallet /\ refs.shown = u.shown
          /\ refs.submitted = u.submitted /\ refs.recovery = u.recovery
          /\ refs.approval = Approval(t)
      BY ONLY <1>5, <2>3, ApprovalSet
    <3> QED BY <1>3, <3>1
  <2> QED BY <2>1, <2>2, <2>3
<1>7. /\ rec' = rec
      /\ \E s \in PanelStates :
           /\ ui' = [ui EXCEPT ![p] = s] /\ s.wallet = w /\ s.lock = "busy"
           /\ s.shown \in {u.shown, Approval(t)}
           /\ s.submitted = None /\ s.recovery = None
           /\ s.approval \in {u.approval, Approval(t)}
  <2>1. hash \in Shown \cup {None} /\ report(t, refs, hash)
    BY <1>4, <1>5
  <2>2. /\ rec' = rec
        /\ \E s \in PanelStates :
             /\ ui' = [ui EXCEPT ![p] = s] /\ s.wallet = refs.wallet /\ s.lock = "busy"
             /\ s.shown = (IF hash = None THEN refs.shown ELSE hash)
             /\ s.submitted = refs.submitted /\ s.recovery = refs.recovery
             /\ s.approval = refs.approval
    BY <1>3, <1>6, <2>1, ReportLone
  <2> QED BY <1>4, <1>6, <2>2
<1>8. PICK s \in PanelStates :
        /\ ui' = [ui EXCEPT ![p] = s] /\ s.wallet = w /\ s.lock = "busy"
        /\ s.shown \in {u.shown, Approval(t)}
        /\ s.submitted = None /\ s.recovery = None
        /\ s.approval \in {u.approval, Approval(t)}
  BY <1>7
<1>9. /\ r.from = None \/ (r.hash = "sent" /\ r.from = t)
      /\ u.approval # None => u.approval.hash = "approval"
      /\ \A x \in captured : u.shown # Sent(x)
  <2>1. captured \subseteq Trades
    BY <1>3 DEF TypeOK
  <2>2. r # None
    BY NoneAssumption
  <2> QED BY <1>3, <2>1, <2>2, PanelAssumption DEF OnePanel
<1>10. \A x \in captured' : s.shown # Sent(x)
  BY <1>4, <1>5, <1>8, <1>9
<1>11. record' = [record EXCEPT ![w] = r] /\ \A x \in Trades : lost'[x] # "crossed"
  BY <1>3, <1>4 DEF TypeOK, LoneTab
<1>12. captured' \subseteq Trades /\ t \notin captured' /\ captured' = captured
  BY <1>3, <1>4 DEF TypeOK
<1>13. op'[t].phase = phase /\ OpGoesOn(t)
  <2>1. op[t] \in Operations /\ op[t].from \in {t, None}
    BY <1>3 DEF TypeOK, LoneTab
  <2>2. \A x \in Trades \ {t} : fate'[x] = fate[x]
    BY <1>3, <1>4 DEF TypeOK
  <2>3. /\ op'[t].phase = phase /\ op'[t].from = op[t].from /\ op'[t].current = op[t].current
        /\ op'[t].panel = op[t].panel /\ op'[t].wallet = op[t].wallet
        /\ \A x \in Trades \ {t} : op'[x] = op[x]
    BY <1>3, <1>4, <2>1 DEF TypeOK, Operations
  <2> QED BY <2>1, <2>2, <2>3 DEF OpGoesOn, Runs
<1>14. s.approval # None => s.approval.hash = "approval"
  BY <1>5, <1>8, <1>9
<1>15. LeavesBusy(t, s, r)
  BY <1>3, <1>8, <1>9, <1>10, <1>11, <1>12, <1>13, <1>14 DEF LeavesBusy
<1>16. /\ ui' = [ui EXCEPT ![op[t].panel] = s] /\ rec' = rec
       /\ record' = [record EXCEPT ![op[t].wallet] = r]
  BY <1>3, <1>7, <1>8, <1>11
<1> QED BY <1>1, <1>13, <1>15, <1>16, LoneGoesOn

\* The wallet's hash, and then its provenance, are stored with the record.
LEMMA SubmittedLone ==
  ASSUME IInv, LoneTab, OneTab', NEW t \in Trades, Submitted(t) \/ Confirming(t)
  PROVE  LoneTab'
<1>1. Runs(op, t) /\ acted' = acted /\ op[t].phase \in {"wallet", "sent"}
  BY DEF Submitted, Confirming, At, Runs, report
<1>2. PICK p \in Panels : \E u \in PanelStates, r \in Record, w \in Wallets :
        /\ p = op[t].panel /\ acted = {p} /\ acted' = {p}
        /\ u = ui[p] /\ w = u.wallet /\ r = record[w] /\ w = op[t].wallet
        /\ op[t].current /\ op[t].side \in {"buy", "sell"} /\ rec[p] = None /\ TypeOK
        /\ OnePanel(u, r, None, op, captured)
        /\ r.about = t /\ u.recovery = None /\ t \notin captured
        /\ \A x \in Trades : Runs(op, x) => x = t
  BY <1>1, LoneRun
<1>3. PICK u \in PanelStates, r \in Record, w \in Wallets :
        /\ p = op[t].panel /\ acted = {p} /\ acted' = {p}
        /\ u = ui[p] /\ w = u.wallet /\ r = record[w] /\ w = op[t].wallet
        /\ op[t].current /\ op[t].side \in {"buy", "sell"} /\ rec[p] = None /\ TypeOK
        /\ OnePanel(u, r, None, op, captured)
        /\ r.about = t /\ u.recovery = None /\ t \notin captured
        /\ \A x \in Trades : Runs(op, x) => x = t
  BY <1>2
<1>4. op[t] \in Operations /\ op[t].from \in {t, None}
  BY <1>3 DEF TypeOK, LoneTab
<1>5. Sent(t) \in Shown /\ Sent(t) # None
  BY HashTyped, NoneAssumption
\* The two steps differ in what is known of the provenance.
<1>6. PICK known \in {t, None}, refs \in PanelStates :
        /\ OpGoesOn(t) /\ op'[t].phase \in {"sent", "confirm"}
        /\ Write(w, WithHash(Sent(t), op[t].side, known), "crossed")
        /\ report(t, refs, Sent(t))
        /\ refs.wallet = w /\ refs.submitted = Sent(t) /\ refs.recovery = known
        /\ refs.approval = u.approval
        /\ known = None \/ (op'[t].phase = "confirm" /\ op'[t].from = known)
  <2>1. CASE Submitted(t)
    <3> DEFINE refs == [u EXCEPT !.submitted = Sent(t)]
    <3>1. /\ Write(w, WithHash(Sent(t), op[t].side, None), "crossed")
          /\ report(t, refs, Sent(t)) /\ fate' = fate
      BY <1>3, <2>1 DEF Submitted, Persist, Refs
    <3>2. op' = [op EXCEPT ![t].phase = "sent"]
      BY <2>1 DEF Submitted, Goto
    <3>3. OpGoesOn(t) /\ op'[t].phase = "sent"
      BY <1>3, <1>4, <3>1, <3>2 DEF OpGoesOn, Runs, TypeOK, Operations
    <3>4. /\ refs \in PanelStates /\ refs.wallet = u.wallet /\ refs.submitted = Sent(t)
          /\ refs.recovery = u.recovery /\ refs.approval = u.approval
      BY <1>5 DEF PanelStates
    <3> HIDE DEF refs
    <3> QED BY <1>3, <3>1, <3>3, <3>4
  <2>2. CASE Confirming(t)
    <3>1. PICK from \in {t, None} :
            /\ op' = [op EXCEPT ![t].phase = "confirm", ![t].from = from]
            /\ Write(w, WithHash(Sent(t), op[t].side, from), "crossed")
            /\ report(t, [u EXCEPT !.submitted = Sent(t), !.recovery = from], Sent(t))
            /\ fate' = fate
      BY <1>3, <2>2 DEF Confirming, Persist, Refs
    <3> DEFINE refs == [u EXCEPT !.submitted = Sent(t), !.recovery = from]
    <3>2. OpGoesOn(t) /\ op'[t].phase = "confirm" /\ op'[t].from = from
      BY <1>3, <1>4, <3>1 DEF OpGoesOn, Runs, TypeOK, Operations
    <3>3. /\ refs \in PanelStates /\ refs.wallet = u.wallet /\ refs.submitted = Sent(t)
          /\ refs.recovery = from /\ refs.approval = u.approval
      <4> DEFINE h == Sent(t)
      <4>1. h \in Shown \cup {None}
        BY <1>5
      <4>2. u \in PanelStates /\ from \in Trades \cup {None}
        OBVIOUS
      <4> HIDE DEF h
      <4>3. refs = [u EXCEPT !.submitted = h, !.recovery = from]
        BY DEF h
      <4> HIDE DEF refs
      <4>4. /\ refs \in PanelStates /\ refs.wallet = u.wallet /\ refs.submitted = h
            /\ refs.recovery = from /\ refs.approval = u.approval
        BY ONLY <4>1, <4>2, <4>3 DEF PanelStates
      <4> QED BY <4>4 DEF h
    <3>4. report(t, refs, Sent(t))
      BY <3>1
    <3> HIDE DEF refs
    <3> QED BY <1>3, <3>1, <3>2, <3>3, <3>4
  <2> QED BY <2>1, <2>2
<1>7. PICK n \in Record : /\ n = WithHash(Sent(t), op[t].side, known)
                          /\ n.about = t /\ n.hash = "sent" /\ n.from = known
  <2>1. WithHash(Sent(t), op[t].side, known) \in Record
    BY <1>3, <1>5, HashTyped
  <2> QED BY <2>1 DEF WithHash, Sent
<1>8. Write(w, n, "crossed")
  BY <1>6, <1>7
<1>9. \A x \in Trades : lost'[x] # "crossed"
  BY <1>3, <1>7, <1>8, WriteUncrossed DEF LoneTab
<1>10. /\ record' = [record EXCEPT ![w] = n]
       /\ captured' = IF known = t /\ Outstanding(t) THEN captured \cup {t} ELSE captured
  BY <1>7, <1>8 DEF Write
<1>11. /\ rec' = rec
       /\ \E s \in PanelStates :
            /\ ui' = [ui EXCEPT ![p] = s] /\ s.wallet = w /\ s.lock = "busy"
            /\ s.shown = Sent(t) /\ s.submitted = Sent(t) /\ s.recovery = known
            /\ s.approval = u.approval
  <2>1. report(t, refs, Sent(t)) /\ Sent(t) \in Shown \cup {None}
    BY <1>5, <1>6
  <2>2. /\ rec' = rec
        /\ \E s \in PanelStates :
             /\ ui' = [ui EXCEPT ![p] = s] /\ s.wallet = refs.wallet /\ s.lock = "busy"
             /\ s.shown = (IF Sent(t) = None THEN refs.shown ELSE Sent(t))
             /\ s.submitted = refs.submitted /\ s.recovery = refs.recovery
             /\ s.approval = refs.approval
    BY <1>3, <2>1, ReportLone
  <2> QED BY <1>5, <1>6, <2>2
<1>12. PICK s \in PanelStates :
         /\ ui' = [ui EXCEPT ![p] = s] /\ s.wallet = w /\ s.lock = "busy"
         /\ s.shown = Sent(t) /\ s.submitted = Sent(t) /\ s.recovery = known
         /\ s.approval = u.approval
  BY <1>11
<1>13. s.approval # None => s.approval.hash = "approval"
  BY <1>3, <1>12 DEF OnePanel
<1>14. /\ \A x \in captured' : x \in captured \ {t} \/ (x = t /\ known = t /\ Outstanding(t))
       /\ captured' \subseteq Trades
  BY <1>3, <1>10 DEF TypeOK
<1>15. \A x \in captured' : s.shown = Sent(x) => s.recovery = x
  BY <1>12, <1>14 DEF Sent
<1>16. \A x \in captured' :
         \/ x \in captured /\ x # t
         \/ x = t /\ Outstanding(t) /\ op'[t].phase = "confirm" /\ op'[t].from = t
  BY <1>6, <1>14, PanelAssumption
<1>17. t \in captured' => n.from = t
  BY <1>7, <1>14
<1>18. LeavesBusy(t, s, n)
  <2>1. /\ n.from = None \/ (n.hash = "sent" /\ n.from = t)
        /\ s.recovery # None => s.submitted = Sent(s.recovery)
        /\ op'[t].phase # "confirm" => s.recovery = None
    BY <1>6, <1>7, <1>12
  <2>2. s.submitted \in {None, Sent(t)} /\ s.submitted # None /\ s.shown = s.submitted
    BY <1>5, <1>12
  <2>3. /\ s.lock = "busy" /\ n.about = t /\ op'[t].phase \in {"sent", "confirm"}
        /\ s.wallet = op[t].wallet
    BY <1>3, <1>6, <1>7, <1>12
  <2> QED BY <1>9, <1>13, <1>14, <1>15, <1>16, <1>17, <2>1, <2>2, <2>3 DEF LeavesBusy
<1>19. /\ ui' = [ui EXCEPT ![op[t].panel] = s] /\ rec' = rec
       /\ record' = [record EXCEPT ![op[t].wallet] = n]
  BY <1>3, <1>10, <1>11, <1>12
<1> QED BY <1>1, <1>6, <1>18, <1>19, LoneGoesOn

\* A failure, or the answer about the receipt, ends the operation.
LEMMA EndLone ==
  ASSUME IInv, KeptInv, LoneTab, OneTab', NEW t \in Trades, Fails(t) \/ Resolves(t)
  PROVE  LoneTab'
<1>1. /\ Runs(op, t) /\ acted' = acted /\ rec' = rec /\ fate' = fate /\ captured' \subseteq Trades
      /\ Resolves(t) => op[t].phase = "confirm"
  <2>1. IInv'
    BY EndingKeeps
  <2> QED BY <2>1 DEF Fails, Resolves, At, Runs, IInv, TypeOK
<1>2. PICK p \in Panels : \E u \in PanelStates, r \in Record, w \in Wallets :
        /\ p = op[t].panel /\ acted = {p} /\ acted' = {p}
        /\ u = ui[p] /\ w = u.wallet /\ r = record[w] /\ w = op[t].wallet
        /\ op[t].side \in {"buy", "sell"} /\ rec[p] = None /\ TypeOK
        /\ OnePanel(u, r, None, op, captured) /\ r.about = t
        /\ \A x \in Trades : Runs(op, x) => x = t
  BY <1>1, LoneRun
<1>3. PICK u \in PanelStates, r \in Record, w \in Wallets :
        /\ p = op[t].panel /\ acted = {p} /\ acted' = {p}
        /\ u = ui[p] /\ w = u.wallet /\ r = record[w] /\ w = op[t].wallet
        /\ op[t].side \in {"buy", "sell"} /\ rec[p] = None /\ TypeOK
        /\ OnePanel(u, r, None, op, captured) /\ r.about = t
        /\ \A x \in Trades : Runs(op, x) => x = t
  BY <1>2
<1>4. AllDone
  <2>1. End(t) /\ op[t] \in Operations
    BY <1>3 DEF Fails, Resolves, TypeOK
  <2>2. \A x \in Trades \ {t} : op[x].phase \in {"unused", "done"}
    BY <1>3 DEF Runs
  <2>3. /\ op'[t].panel = op[t].panel /\ op'[t].wallet = op[t].wallet
        /\ op'[t].phase = "done" /\ op'[t].from = None
        /\ \A x \in Trades \ {t} : op'[x] = op[x]
    BY <1>3, <2>1 DEF End, TypeOK, Operations
  <2> QED BY <1>1, <2>2, <2>3 DEF AllDone, Runs
<1>5. LoneLeaves(p)
  <2>1. CASE \E definitive \in BOOLEAN : catch(t, definitive)
    BY <1>1, <1>3, <1>4, <2>1, CatchLone
  <2>2. CASE /\ Resolves(t)
             /\ \E answer \in Answers(Sent(t), op[t].from, op[t].side, w) :
                  /\ answer # "error"
                  /\ applyResolution(p, w, Sent(t), op[t].side, op[t].from, answer,
                                     op[t].current)
    <3>1. PICK h \in Shown : h = Sent(t) /\ h.about = t /\ h.hash = "sent"
      BY HashTyped DEF Sent
    <3>2. PICK from \in {h.about, None}, side \in {"buy", "sell"}, current \in BOOLEAN :
            from = op[t].from /\ side = op[t].side /\ current = op[t].current
      BY <1>3, <3>1 DEF LoneTab, TypeOK, Operations
    <3>3. PICK answer \in Answers(h, from, side, ui[p].wallet) :
            answer # "error" /\ applyResolution(p, ui[p].wallet, h, side, from, answer, current)
      BY <1>3, <2>2, <3>1, <3>2
    <3>4. \A x \in captured : h = Sent(x) => from = x
      BY <1>1, <2>2, <3>1, <3>2 DEF LoneTab, Sent
    <3>5. /\ record[ui[p].wallet] # None /\ record[ui[p].wallet].about = h.about
          /\ h.hash = "approval" => from = None
      BY <1>3, <3>1, NoneAssumption
    <3>6. p \in Panels /\ acted = {p} /\ IInv /\ KeptInv /\ LoneTab
      BY <1>3
    <3> QED BY ONLY <1>4, <3>3, <3>4, <3>5, <3>6, h \in Shown, from \in {h.about, None},
                    side \in {"buy", "sell"}, current \in BOOLEAN, ResolutionLone
  <2> QED BY <1>3, <2>1, <2>2 DEF Fails, Resolves
<1>6. rec' = [rec EXCEPT ![p] = None]
  BY <1>1, <1>3 DEF TypeOK
<1> QED BY <1>1, <1>3, <1>4, <1>5, <1>6, LoneEnds

\* What becomes of a trade in the wallet and on the chain.
LEMMA OutsideLone ==
  ASSUME IInv, LoneTab, NEW t \in Trades, Sign(t) \/ Refuse(t) \/ Include(t)
  PROVE  LoneTab'
<1>1. /\ UNCHANGED <<record, ui, op, rec, acted>>
      /\ \A x \in Trades \ {t} : fate'[x] = fate[x]
      /\ captured' \subseteq captured /\ captured \subseteq Trades
      /\ fate'[t] = "live" \/ t \notin captured'
      /\ \A x \in Trades : lost'[x] \in {lost[x], "no"}
  BY DEF Sign, Refuse, Include, Becomes, Settles, IInv, TypeOK
<1>2. \A p \in Panels : IF p \in acted' THEN OnePanel(ui'[p], record'[ui'[p].wallet], rec'[p], op', captured')
                        ELSE Untouched(ui'[p], rec'[p])
  <2> SUFFICES ASSUME NEW p \in Panels, p \in acted
               PROVE  OnePanel(ui[p], record[ui[p].wallet], rec[p], op, captured')
    BY <1>1 DEF LoneTab
  <2>1. OnePanel(ui[p], record[ui[p].wallet], rec[p], op, captured)
    BY DEF LoneTab
  <2> QED BY <1>1, <2>1 DEF OnePanel
<1>3. \A x \in captured' :
        /\ fate'[x] \in {"open", "live"} /\ op'[x].phase \in {"confirm", "done"}
        /\ op'[x].phase = "confirm" => op'[x].from = x
  BY <1>1 DEF LoneTab
<1>4. \A x \in Trades : lost'[x] # "crossed"
  BY <1>1 DEF LoneTab
<1> QED BY <1>1, <1>2, <1>3, <1>4 DEF LoneTab, OnePanel, Untouched, Runs, Sent

-----------------------------------------------------------------------------

LEMMA InitLone == Init => LoneInv
<1> SUFFICES ASSUME Init PROVE LoneTab
  BY DEF LoneInv
<1>1. PICK w \in Wallets : ui = [p \in Panels |-> ReadBy(w)]
  BY DEF Init
<1>2. ReadBy(w) = [wallet |-> w, side |-> "buy", lock |-> "open", shown |-> None,
                   submitted |-> None, recovery |-> None, approval |-> None, asked |-> FALSE,
                   operation |-> FALSE, quote |-> FALSE]
  BY DEF Init, ReadBy, readPendingTrade, HashOf
<1>3. \A p \in Panels : Untouched(ui[p], rec[p])
  BY <1>1, <1>2 DEF Init, Untouched
<1> QED BY <1>1, <1>2, <1>3 DEF Init, LoneTab, Runs

LEMMA StepLone == IInv /\ KeptInv /\ LoneInv /\ [Next]_vars => LoneInv'
<1> SUFFICES ASSUME IInv, KeptInv, LoneInv, [Next]_vars, OneTab' PROVE LoneTab'
  BY DEF LoneInv
<1>1. OneTab /\ switches' = 0 /\ acted \subseteq acted' /\ acted' \subseteq Panels
  BY OneTabBefore DEF IInv
<1>2. LoneTab
  BY <1>1 DEF LoneInv
<1>3. ASSUME NEW p \in Panels, UserStep(p) PROVE LoneTab'
  <2>1. ~SwitchWallet(p)
    BY <1>1 DEF SwitchWallet, OneTab
  <2> QED BY <1>1, <1>2, <1>3, <2>1, QuoteLone, SubmitLone, RecoverLone, AbandonLone, ReloadLone
       DEF UserStep
<1>4. ASSUME NEW p \in Panels, RecoverEnds(p) PROVE LoneTab'
  BY <1>1, <1>2, <1>4, RecoverEndsLone
<1>5. ASSUME NEW t \in Trades, OperationStep(t) PROVE LoneTab'
  BY <1>2, <1>5, AskLone, SubmittedLone, EndLone DEF OperationStep
<1>6. ASSUME NEW t \in Trades, Sign(t) \/ Refuse(t) \/ Include(t) PROVE LoneTab'
  BY <1>2, <1>6, OutsideLone
<1>7. CASE UNCHANGED vars
  BY <1>2, <1>7 DEF LoneTab, OnePanel, Untouched, Runs, Sent, vars, history
<1> QED BY <1>3, <1>4, <1>5, <1>6, <1>7 DEF Next

\* As long as one tab with one wallet has acted, LoneInv's account of it holds.
THEOREM LoneInvHolds == Spec => []LoneInv
BY InitLone, StepLone, IInvHolds, KeptInvHolds, PTL DEF Spec

\* With one tab and one wallet no operation writes over or clears the record of
\* another unresolved trade: a crossed record needs a second tab or a change of wallet.
THEOREM OneTabNeverCrossesHolds == Spec => []OneTabNeverCrosses
<1>1. LoneInv => OneTabNeverCrosses
  BY DEF LoneInv, LoneTab, OneTabNeverCrosses
<1> QED BY <1>1, LoneInvHolds, PTL

\* With one tab and one wallet the provenance that finds a replacement stays with its
\* unresolved transaction through reloads, failed checks and resumptions.
THEOREM ProvenanceKeptHolds == Spec => []ProvenanceKept
<1>1. IInv /\ LoneInv => ProvenanceKept
  <2> SUFFICES ASSUME IInv, LoneTab, NEW t \in captured, NEW w \in Wallets,
                      record[w] # None, record[w].about = t, record[w].hash = "sent"
               PROVE  record[w].from = t
    BY DEF LoneInv, ProvenanceKept
  <2>1. PICK p \in Panels : p \in acted /\ ui[p].wallet = w
    BY DEF LoneTab, IInv, TypeOK
  <2>2. OnePanel(ui[p], record[w], rec[p], op, captured)
    BY <2>1 DEF LoneTab
  <2> QED BY <2>2 DEF OnePanel
<1> QED BY <1>1, IInvHolds, LoneInvHolds, PTL
=============================================================================
