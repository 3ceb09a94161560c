# Zonk: a TLA+ model of the launchpad, its indexer and its transaction flows

Zonk is a token launchpad on Base. A factory deploys a token with a bonding
curve; traders buy and sell on the curve until its allocation is sold out; the
last purchase graduates the launch, and the reserve and the remaining tokens
become a permanent Uniswap V3 position. Fees are held by a fee manager and by
vaults, and are paid on request. An indexer copies contract events from the
chain into PostgreSQL, and an API and a web application read from there.

This directory holds the TLA+ modules that model this system, the TLC
configurations that check them, and the TLAPS proofs about them. Modelled are the
core of the money (curve, fee ledger, treasury rotation), the core of the data (the
indexer's loop) and the flows in which the web application sends transactions and
finds out what became of them (trade panel, recovery, token creation with its
first purchase, swap after graduation). The plan at the end says what is left.

Contracts are quoted from `src/contracts/src/v3/`, the indexer from
`src/apps/indexer/`, the web application from `src/apps/web/src/`.

## Inventory

| Component | State it keeps | Operations | Talks to | What is hard | Modelled by |
|---|---|---|---|---|---|
| Bonding curve, `ZonkCurveV3.sol` | sold supply, active reserve, terminal reserve, forwarded ETH, graduated | `buy`, `sell`, `_graduate`, quotes | token, fee manager, graduation manager | rounding over trade sequences, the exact boundary of graduation | `EndpointMath`, `ZonkCurve`, `BondingCurve` |
| Fee ledger, `FeeManagerV3.sol` | fees owed per token and class, and their totals; creator payouts | `depositFees`, claims, fundings, payout proposals, bootstrap | curves, recipients, vaults | the recipient's code runs inside a claim; two sets of books | `FeeManager` |
| Treasury rotation, `FeeManagerV3.sol`; the same in `TokenCommunityVaultV3.sol` | treasury, pending treasury and its time, owner | propose, accept, cancel, `_transferOwnership` | Ownable2Step | a delay interleaved with ownership changes | `TreasuryRotation` |
| Indexer, `indexer.go`, `store.go` | checkpoint, canonical blocks, events and projections; the loop's locals | `Run`, `recover`, `discoverLaunchLogs`, `ApplyWithMetadataAndSenders`, `Rewind` | RPC, PostgreSQL | reorganisations between any two calls, crashes inside a batch | `ChainIndexer` |
| Vaults: `TokenCommunityVaultV3`, `TraderRewardsVaultV3`, `PermanentLPFeeVaultV3` | accrued amounts per token and asset, totals, recipients | deposits, recorded fundings, forwards, payouts, LP claims | fee manager, custodian, distributor | backing of recorded amounts, recipients that change between accrual and claim | not modelled |
| `TraderRewardsDistributorV3` | published roots, claimed flags | `publishRoot`, `claim` | rewards vault | distributions that share one balance | not modelled |
| Graduation: `GraduationManagerV3`, `GraduationManagerV3Boundary`, `GraduationSettlementExecutorV3`, `PermanentResidualEscrowV3` | registered launches, canonical pools, settled flags, residuals | `registerLaunch`, `classifyPoolCandidate`, `graduate`, `execute` | curve, Uniswap, custodian | a settlement of many steps that must be all or nothing | not modelled |
| LP custody: `PermanentLPCustodianV3` and its deployer | the bound position | `bindPosition`, `collectFees` | position manager, LP fee vault | one position for ever; fees in two assets | not modelled |
| Launch: `ZonkFactoryV3`, `TokenDeployerV3`, `CurveDeployerV3`, `ZonkTokenV3` | tokens, curves, nonces | `createToken`, `deployToken`, `initialize` | fee manager, graduation manager | choosing an address whose pool is still free | not modelled |
| API, `src/apps/api` | metadata drafts; reads the indexer's tables | uploads, finalization, pages | indexer's tables, files, oracle | finalization against reorganisations, cursors over moving rows | when a draft is finalised: `TokenCreation` |
| Trade panel, `token-trade-panel.tsx`, `token-trading.tsx`, `transactions.ts` | one stored record per wallet and token; status, hash and refs of each mounted panel | quote, `submit`, `recover`, `abandon`, the identity effect | wallet, RPC, `localStorage` shared by tabs | late answers after a change of wallet, reloads, two tabs, wallets that do not answer | `TradePanel` |
| Trade recovery, `contracts.ts` | the provenance stored with a trade | `captureTradeRecovery`, `confirmTrade`, `checkTrade`, `recoverTransactionReceipt` | RPC | replaced transactions, a chain that grows during a bounded scan | `TransactionRecovery` |
| Token creation and developer buy, `create-token-form.tsx`, `create/page.tsx`, `dev-buy.ts` | input, result, what failed and may be retried | `submit`, `execute`, `executeDevBuy`, `retryDevBuy` | API, wallet, RPC, indexer | a chain of awaits that outlives its page; a failure after the launch has happened | `TokenCreation` |
| Graduated swap, `graduated-token-swap.tsx`, `uniswap-v3.ts` | form, quote, status, the running submission | `requestQuote`, `submit`, `orchestrateGraduatedSwap`, `approveExactly` | wallet, RPC, Uniswap | late quotes, edits during a submission, allowances of several submissions | `GraduatedSwap` |
| Oracle reader, presentation, migrations, scripts, shared packages, vendored libraries | - | - | - | little or no state of their own | not modelled |

What makes each correct: the curve can always redeem what it sold, to the wei,
and graduates once and completely; the ledger holds what it owes and pays each
share once; a rotation is public for its whole delay; the database equals the
chain up to the checkpoint and gets there; each vault is backed; a settlement
is atomic; a launch is registered everywhere or nowhere; a page shows every row
once; a trade that may still be mined blocks the next one of its wallet, and a
user learns what became of it; what is shown as created or bought is; what the
wallet is asked to sign is what the user confirmed.

The hazards these properties answer are listed, with their lines, in
`PROJECT.json`.

## Modules

| Module | What it is |
|---|---|
| `EndpointMath` | the economic constants as parameters, their assumptions, and the arithmetic: ceiling division, fee split, inverse of the fee |
| `BondingCurve` | abstract specification: the reserve is a function of the tokens sold, and graduation happens once |
| `ZonkCurve` | the curve contract with the ERC-20 balances it moves |
| `FeeManager` | the fee ledger and creator payouts |
| `TreasuryRotation` | treasury and two-step ownership |
| `ChainIndexer` | the chain, the indexer process and its tables |
| `TradePanel` | the trade panel in several tabs and with several wallets, over one storage |
| `TransactionRecovery` | finding the transaction that used a nonce, against a growing chain |
| `TokenCreation` | the creation form, the flow of a launch and the purchase that follows it |
| `GraduatedSwap` | the swap form of a graduated token and its approvals |
| `MC_*` | instances for TLC (symmetry sets) |
| `*_proofs` | theorems about the module of the same name |
| `DeployedConstants` | the deployed 256-bit values; theorems about them are in `ZonkCurve_proofs` |

### Curve

`ZonkCurve` has the contract's five state variables, its ETH balance and the
balances of the launch token. `buy` is one step with `BuyOnCurve` and
`BuyAndGraduate` as its two outcomes; `sell` is one step. A call that reverts
leaves nothing behind and is no step, so every `revert` is a guard. The quotes
are operators over a coordinate (`quoteBuyAt`, `quoteSellAt`), so that
properties can ask what the code would quote at coordinates it is not at;
`broken` gathers the reverts that would mean the accounting itself is wrong. `minTokensOut`
and `minEthOut` are arguments; the deadline, which can only make a call revert,
is left out. Tokens may be sent to the curve's address (`TransferToCurve`) and
ETH forced into it (`ForceEth`): the first bears on `_graduate`'s exact balance
check, the second on nothing, which `SalesCovered` and the fee ledger's
`Solvent` show. Arithmetic is unbounded: the largest product, the virtual
reserves multiplied, is below 2^256 by many orders of magnitude, and Solidity
0.8 reverts on overflow. Subtractions that would be negative are in `broken`.

### Fees

Each function is one action except a claim, which is two: the state change with
the transfer, and `claimReturns`. While `entered` holds, the recipient's code
runs, and every function that is not `nonReentrant` may run: deposits (its code
may trade), payout changes, registration. The split a curve deposits is the
source's `splitFee`. `earned`, `paid` and `offered` are history. The contract's
treasury is not in this module: a claim sends to it and the ledger is the same
whoever it is.

### Treasury

`standing` is the proposal that nobody entitled has withdrawn, kept by what the
functions mean; `pendingTreasury` and its time are what the contract stores.
The invariant ties the two together. `transferOwnership`, `acceptOwnership` and
`renounceOwnership` are OpenZeppelin's, and all reach the contract's
`_transferOwnership` (`ownerBecomes`).

### Indexer

The hash of a block is the chain up to it, so that two blocks are equal exactly
when their hashes are. A block holds a set of events and the number of reorgs
before it, so that an empty block mined again is another block. `Launch` is the
factory's event and `CurveEvents` those of the contracts it creates, which are
known to `ScanContracts` once the launch is stored and to `discoverLaunchLogs`
before. `Grow` and `Reorg` may happen between any two steps of `Run`; a
transaction that a reorg removed may be mined again at any height. The step
`ApplyBlock` is the header request with the transaction it leads to; that
transaction reads nothing of the chain, so the chain moving between the two is
the same as its moving after both. `Fail` is a call that fails after its
retries, or the process being stopped; it forgets the locals.
The rows a transaction orphans are never read again and are not kept. `Rewind`
and `Apply` rebuild all projections from the canonical rows in the same
transaction, so properties are stated of the rows.

Two start-block effects shape the properties. If a reorg takes the checkpoint below
the start block, `recover` goes back to height 0, and a batch may then write
blocks below the start block; a restart resumes at the start block without a
stored hash, so that one block is written without comparing its parent
(`RowsNeverTorn` exempts it), and rows below it may be of an older chain, without an
event in them (`AlwaysExact` speaks of blocks from the start block on).

Not in the model: `StopBlock`, the three-second wait, sender and metadata
look-ups (they can only fail, as `Fail`), matching a `Graduated` event with its
settlement (events of one transaction are one event here), several launches in
a batch and the limit of 32.

### Trade panel

`record` is the browser's storage, one record per wallet; `ui` the state and refs
of each panel, `op` and `rec` the asynchronous operations that are running in it: a
submission, and a check or resumption. Every await of an operation is the border
between two actions, and between them the user may change wallet
(`SwitchWallet`: the effect that gives the panel a new identity), reload, or use
another tab. An operation begun before such a change is not `current`: the code
compares generations, and where it does not (`applyResolution`) neither does the
model. `fate` is what the wallet and the chain do with a request, whatever has
become of the page. `Answers` is what `confirmTrade` and `checkTrade` may answer;
`TransactionRecovery` models how they find it. Amounts, clock and the curve's
state are choices: a quote may be invalid, a check may fail. The confirmation
modal is left out: it opens and closes without a decision of its own.

`lost` and `late` record why an unresolved trade no longer has its record, so
that `KeptUntilResolved` can name every way of losing it. These ways are the
panel's known weaknesses: the user abandons it; a sale that needed no approval
fails in the wallet without a definite refusal (`walletInteractionRef` is set by
`awaiting_wallet` and `awaiting_approval`, not by `awaiting_sell_signature`,
`token-trade-panel.tsx:298`); an earlier trade's hash is checked under its lock;
another tab, or an operation of the former wallet, writes over it.

### Recovery

The chain holds one block whose transaction has the nonce, the original's or
another of the same sender, and grows between any two calls. `ReadTransaction`
and `ReadHead` are the two calls of one `Promise.all`, answered in either order;
`Capture` is the function whose result is stored. `next` is where the stored provenance
begins to scan, `recovery` where the provenance of the running check does: the stored
one, or what the check has read itself (`ReadProvenance`). The panel stores the latter
only with a pending answer (`Pending`, `applyResolution` of
`token-trade-panel.tsx:165`); a check that throws leaves what was stored before
(`Throws`, `token-trade-panel.tsx:384`). `blind` marks provenance noted past
the block it should find. Each `ScanBlock` is one block of a batch.

### Creation

`launches` are the submissions with their flow (`at`), their transaction, their draft and
whether the indexer has it; `buys` the purchases. A flow belongs to the `page` it was
started on and goes on when that page is left for another one of the site, without
anyone to report to. The receipt is also taken from a replacement with the same
call (`repriced`), but the API looks a launch up by the hash the wallet returned:
such a launch is mined, its draft is never finalised, and the flow ends as failed
(`Finalizable`). `MaxAttempts` stands for the 60 attempts.

### Swap

Quotes are asked for by a timer and taken whatever the form says when they
arrive; `late` marks such an answer, for another side, amount or slippage. Of the
slippage the model has only whether an open request was made with the form's present
one (`changeSlippage`). `op` is the running submission from await to await,
`swap` the requests to the wallet and their transactions, `allowance` what the
router may take. The receipt of a replaced swap is taken for the swap's
(`waitForTransactionReceipt` without `onReplaced`,
`graduated-token-swap.tsx:100`): `Confirmed` accepts it as the code does. The
modal opens at every new status and closes itself at none
(`graduated-token-swap.tsx:34`); `modal` keeps what that makes reachable.

## Runs

| Run | Checks | Bounds | Distinct states |
|---|---|---|---|
| `curve` | `TypeOK`, `PathIndependence`, `SalesCovered`, `BuysAlwaysQuoted`, `RoundTripExact`, `GraduationOneBuyAway`, `GraduationComplete`, `PriceFollowsSupply`, `ImplementsBondingCurve` | 96 + 24 tokens, reserve of 24, fee of an eighth, two traders (symmetric), purchases up to 31 (beyond what graduates at once), one forced wei, one unsolicited token | 9 thousand |
| `fees` | `TypeOK`, `Solvent`, `BooksAgree`, `FeesConserved`, `PayoutAsOffered` | two tokens, two accounts, three deposits of two sizes, one forced wei | |
| `treasury` | `RTypeOK`, `PendingIsStanding`, `RotationWaits`, `TreasuryOutlastsTransfer` | three accounts, delay 2, time up to 6 | |
| `indexer` | `TypeOK`, `RowsNeverTorn`, `AlwaysExact`, `ExactAtCheckpoint`, `CatchesUp` | two confirmations, batches of three, five blocks, two reorgs of any depth at any time, one failure | 1.1 million |
| `indexer_mixed` | `NoMixedState`: violated | one reorg, no failure | |
| `indexer_start` | `StartKeepsCheckpoint`: violated | start blocks 1 and 4, no reorg | |
| `panel` | `TypeOK`, `KeptUntilResolved`, `OneTabNeverCrosses`, `BusyHasOperation`, `RecordOfItsWallet`, `ProvenanceKept` | two panels, two wallets, two submissions; two changes of wallet or reloads in one tab, or two tabs with none | 2.8 million |
| `panel_stale` | `BlockedUntilAbandoned`: violated | one tab, one wallet, two submissions | |
| `recovery` | `TypeOK`, `UnavailableOnlyIfBlind`, `AnswerIsTrue`, `FoundAtLast` | batches of two on a chain of seven, two failed calls | 476 thousand |
| `creation` | `TypeOK`, `SuccessIsReal`, `RetryWaitsForReceipt`, `DisabledWhileRunning` | two submissions, two purchases, two attempts, one page left, change of wallet or edit after the first submission | 3.7 million |
| `creation_retry` | `NoRetryWhileUnknown`: violated | one launch, two purchases | |
| `swap` | `TypeOK`, `SentAsShown`, `NoIdleAllowance` | two wallets, two amounts, two submissions, one change of wallet or network, reload or late edit | 6.9 million |

Why these bounds reach the cases that matter. The curve visits every pair of sold
supply and reserve that the rounding allows, with a fee that is zero for small
amounts and large enough that both the capped and the uncapped purchase occur
near the end, and the allocation chosen, as in the deployed constants, so that
the end of the curve lies just above the product. With three deposits one can
land inside the claim of another and a third after it; of the two sizes the
smaller makes the community and rewards shares zero and the larger makes every
share positive. A delay of two with six ticks gives time for three rotations and
for a proposal that is replaced halfway. Five blocks under two confirmations hold
a checkpoint, a batch with skipped blocks, a reorg above or below it and the
batch that follows. Every way of crossing in the panel needs two trades: one
whose record is at stake and one whose operation is late. A scan of seven blocks in twos
takes up to four checks, each of which may be cut off. Creation and swap need two
submissions so that the end of one meets the other; the purchase of a launch, two,
so that one follows another.

Deadlock is checked where the system cannot stop: `curve` (its traders can always
trade or transfer), `fees`, `indexer`, whose loop always has a step, and
`recovery`, which ends in `Done`. The treasury contract stops once its owner has
renounced and time has reached its bound; `panel`, `creation` and `swap` once
every submission is used and the user has no more turns. Those configurations
say `CHECK_DEADLOCK FALSE`; that nothing is left locked without a way out is
what `BusyHasOperation` and `DisabledWhileRunning` say.

**Fairness.** `CatchesUp` needs `WF(Run)`: the process is scheduled, and the
supervisor starts it again (`restart: unless-stopped` in `compose.yaml`; an
error in `Run` stops the process, `cmd/indexer/main.go`); and `WF(Grow)`: blocks are
mined until the bound on height. Reorgs and failures have no fairness, and are
bounded in number: `CatchesUp` says what happens after the last of them. The
growth matters: after a reorg to a shorter chain the process exits at each start
until the header of its checkpoint's height exists again. `FoundAtLast` needs
`WF(Client)`: calls are answered, with an error or without (the client
library gives each request a timeout), and the user asks again while there is no answer (the panel
offers nothing else but to abandon). The chain's growth and failures have none.

### What the indexer runs say together

As long as no reorg has been deeper than the confirmations the database is exact
at every moment (`AlwaysExact`). After deeper ones it cannot be, but it is exact
whenever the checkpoint is on the chain, as long as the chain has not moved at a
batch's heights while the batch was being written (`ExactAtCheckpoint`). If it
has, each row still agrees with its own block and neighbours are linked
(`RowsNeverTorn`) and the process still reaches the head (`CatchesUp`), but rows of
two chains may stay side by side (`indexer_mixed`). `NoMixedState` fails because only the
boundaries and event-bearing blocks of a batch are written (`indexer.go:96-108`)
and the parent is compared only at adjacent heights (`indexer.go:114`): the last
block of the batch then puts the checkpoint on the new chain, and the check at
`indexer.go:59` finds nothing wrong, while an event of the old chain stays
canonical further down.

`indexer_start` shows a difference between `docs/developers/indexer.mdx:23` and
`initialCheckpoint`: a start block above a durable checkpoint does replace it.

### What the web runs say together

In one tab and with one wallet, no operation touches the record of another
unresolved trade (`OneTabNeverCrosses`) and stored provenance stays
(`ProvenanceKept`); with several, a record still belongs to its wallet unless a
report came after a change of wallet (`RecordOfItsWallet`). The exception that is
not the user's choice, nor another tab's, is `panel_stale`: the hash shown from a confirmed trade is
checked under the lock of the next one, which it clears.

Once provenance is stored that does not begin past the nonce's block, the transaction is
found however often a check is cut off (`FoundAtLast`), and the answer is what
became of it. Two gaps remain. Provenance whose two reads come after the nonce was
used, or on both sides of that moment, may note a block past the one it should
find (`blind`), and the checks then say for ever that provenance is unavailable. And
provenance that a check has read itself is lost when the same check fails at one of its
later calls (`contracts.ts:377-390`); if another transaction has taken the nonce
by the next one, no node need know the original any more, and every further
check answers pending. `FoundAtLast` therefore speaks of stored provenance alone.

A launch shown as created is, and a first purchase that failed is offered again
only when it cannot be mined any more, or when the wallet gave no hash for it. A retried
one is not held to that (`creation_retry`): its failure leaves the offer of the first.

A swap that reaches the wallet is the one that was confirmed, except on a quote
that answered for other terms, which the form shows as its own: `SentAsShown` says
that every edit clears the quote, not that a late answer does no harm. Allowances are
exact: one is left only by an approval whose sale did not follow.

## Proofs

TLAPS checks the following for all values of the constants that satisfy the
named assumptions: every invariant and every safety property of a step that the
passing runs check, and the refinement of `BondingCurve`. The deployed values,
which are beyond TLC's integers, are proved to satisfy the assumptions
(`DeployedCurveAssumptions`, `DeployedFeeAssumptions`, in `ZonkCurve_proofs` about
`DeployedConstants`).

**Curve** (`ZonkCurve_proofs`). The inductive invariant `IInv` is `TypeOK`,
`PathIndependence`, `GraduationComplete` and that the contract's ETH covers its
reserve. `TypeOK` alone is not inductive: nothing bounds what a quote returns at
an arbitrary pair of supply and reserve. `PathIndependence` determines the
reserve from the supply, and the lemma `CeilInverse` (if `y` is the ceiling of
`K/x` and tokens are never worth more than one wei, `x` is the ceiling of
`K/y`) then makes buying and selling inverse to each other.
`GranularityAssumption` is what makes that so; `EndpointAssumption` says that
the allocation and the reserve run out together, which is why the whole
remaining allocation may be handed to the graduating purchase. From `IInv`
follow all invariants of the runs and the refinement of `BondingCurve`. No bound
on amounts is used except as the range of the inputs. `PriceFollowsSupply` follows
too: on the curve fewer virtual tokens mean no less virtual ETH (`CeilAntitone`), and
a price, rounded up, is monotone in both (`PriceMonotone`).

**Fees** (`FeeManager_proofs`). `MoneyInv` is inductive: all amounts are natural
numbers, `Solvent`, `BooksAgree` and `FeesConserved`. None of the first three stands
alone. A claim subtracts a token's ledger from a total, which stays a natural number
only because the total is a sum that includes that ledger (`SumCleared`); the ETH sent
is there only because the total is among the liabilities; and a deposit preserves all of
them because the split's parts are natural numbers that use up the fee (`SplitNats`
here, `SplitIsExact` in `ZonkCurve_proofs` for every amount). A sum over the tokens
would be an induction over data. `SumOf` counts units instead: a token that is owed `n`
has the units `<<t, 1>>` to `<<t, n>>`, so that a credit adds a disjoint set of units and
a claim removes one, and the library's theorems on cardinalities suffice. Assumed is that
the tokens are finitely many. `PayoutAsOffered` follows from the pending payout being the
offered one.

**Treasury** (`TreasuryRotation_proofs`). `RTypeOK` and `PendingIsStanding` are
inductive together (`RotationTypeOK`, `ProposalsStand`). Both action properties follow: only an acceptance changes
the treasury, it uses the pending proposal, and the invariant says when that
proposal was made and under which owner.

**Indexer** (`ChainIndexer_proofs`). There are two inductive invariants. `IndexerInv`
proves `TypeOK` and `RowsNeverTorn` with no condition on reorgs, failures or start
blocks. It adds to `RowsNeverTorn` that the checkpoint is a stored block above which
nothing is stored (`DatabaseOK`), and what `Run`'s locals may rely on (`LocalsOK`): the
block whose hash `Run` compares the next parent with is the checkpoint, or it has no
hash and no stored neighbour is below the next block; and every log fetched is of a
block in the batch.

`ExactInv` proves `AlwaysExact` and `ExactAtCheckpoint`. Exactness for the present
chain is not inductive, since a reorg below the checkpoint destroys it at once. What
survives every reorg is exactness for the checkpoint's own chain, which its hash
determines (`ExactForCheckpoint`); whenever the checkpoint is on the present chain the
two are the same. A batch preserves it because, as long as the last block written is
on the chain, the logs fetched are all those of the chain that block is on
(`BatchExact`); if it is not, the next header has another parent and `recover` takes
over. That covers batches the chain did not move in, and reorgs no deeper than the
confirmations, which do not reach a batch's heights at all (`Confirmed`). The hypothesis
`OneStartBlock`, that every start has the same `INDEXER_START_BLOCK`, is needed:
`indexer_start` shows the checkpoint being replaced otherwise, and the heights in
between are then never read.

**Recovery** (`TransactionRecovery_proofs`). The inductive invariant adds to
`TypeOK`, `UnavailableOnlyIfBlind` and `AnswerIsTrue`: that neither the stored nor
the running scan has passed the nonce's block (`ScanBeforeNonce`), what a check knows at each of its awaits
(`CheckState`: it counts only with provenance, scans only once the nonce is
consumed, and up to a head at or above its block), and that the blocks it has
fetched are not the nonce's (`ScannedInVain`). A scan that ends therefore has ended
before that block, or is blind; and the chain may grow by any amount between its
calls. The only assumption on the batch is that it is positive.

**Swap** (`GraduatedSwap_proofs`). `SentAsShown` is inductive with what the page
knows: the timer of the automatic quote is set only while the form has an amount
(`TimerHasAmount`), and the quote on the page is that of the form or marked late
(`QuoteShown`). The proof holds for every amount, wallet and number of submissions.
`NoIdleAllowance` says whose an allowance is. Inductive is, beside that, how large it
is (`AllowanceInv`): no more than what the submission that backs it would sell, so that
its sale, when it is mined, uses the allowance up; and an approval is settled before its
sale is asked for, so that none can be mined after its own sale.

**Creation** (`TokenCreation_proofs`). None of the three properties is inductive.
`LaunchOK` ties a launch's stage to what is on the chain and in the API (a launch that
buys is mined, indexed and described), `BuysOK` to its purchases (there is none until
the flow asks for one, the purchase being asked for is the last one, and a launch that is
retried has only settled ones), and `PageOK` what a page shows to a launch
of that page, with at most one flow running on it. A flow of a page left behind then
cannot touch what the present page shows, and a retry can only start from settled
purchases. Steps are grouped into six kinds with one lemma each. Assumed is that `None`
is neither a launch's number nor a failure.

**Trade panel** (`TradePanel_proofs`). Two facts make `BusyHasOperation` and
`RecordOfItsWallet` inductive: an operation or recovery that is current runs for
the wallet its panel has (`CurrentIsHere`), and every hash that a panel, a recovery
or a record knows is of a trade submitted for its wallet, until a report of an
outdated operation reaches the refs (`HashesOfTheirWallet`). The steps are reduced
to three kinds: one of a panel (`PanelStep`), one of an operation that goes on
(`ReportKeeps`) and one that ends it (`EndKeeps`, with what `catch` and
`applyResolution` leave behind in `CatchSettles` and `ResolutionSettles`).
`BusyHasOperation` is a safety property: that the operation does end is the fairness of
the calls it awaits. Assumed are finitely many panels, and that `None` is neither a
trade, a hash, a record nor a recovery.

`KeptUntilResolved` speaks of trades the wallet has been asked for. Inductive is the
statement about every unresolved trade, also one that is still being prepared
(`KeptInv`). The case that needs an argument is an approval: an approval whose sale
was never sent counts as reverted, and its check clears the record. Therefore no panel
of a wallet may be able to check the approval of a trade that still runs
(`ApprovalsHidden`), unless a cause is on record. Each way of writing or clearing a record
is then shown to meet only a resolved trade, its own, or to name its cause.

`OneTabNeverCrosses` and `ProvenanceKept` hold while one tab with one wallet has acted
(`LoneInv`). The panel's submitted hash is then that of the record or nothing, its
provenance is the record's, and a busy panel has exactly one operation, or
one recovery of the record's hash, so that all that is written or cleared is
about the record's own trade. It rests on both earlier invariants: an operation that ends
must be current (`IInv`), and the trade recorded must be the one that is unresolved
(`KeptInv`).

Model-checked only: `CatchesUp` and `FoundAtLast`, since liveness under fairness is
beyond the prover. The four violated properties are refuted by their runs.

## Not modelled

The vaults, the rewards distributor, the graduation manager with its settlement,
LP custody and the launch contracts: `ZonkCurve` takes the manager's part of the
graduating purchase to succeed, `FeeManager` ends where ETH leaves for a vault,
and `TokenCreation` takes the launch as one transaction, which on chain it is. The API's drafts
against reorganisations and its cursors; the retry schedule of the RPC client; more
than one launch in a batch of the indexer. The validation of pools, receipts' encodings, the
oracle's answer, migrations and presentation keep no state that a model would add
anything to. Time is never a number in the web modules: an expired quote and a
late receipt are choices, so nothing is said about how long a wait is.

## Plan

1. Proofs: that a step of `TokenCreation`, `TradePanel` and `ChainIndexer` never undoes
   what the user or the tables were told (a confirmed launch, an answer, a row below the
   confirmations), as action properties on the present invariants; and the lemmas of
   `TransactionRecovery` that bound the number of checks a scan takes.
2. `LPFeeVault`, `RewardsVaults`: the vaults and the distributor, backed and
   composed with `FeeManager` and `TreasuryRotation`.
3. `Graduation`: pool classification, settlement and custody, composed with
   `ZonkCurve`: settled at most once, with the reserve its curve forwarded.
4. `Launch`: candidate selection against pools created concurrently.
5. `MetadataDrafts` and `Pages`: finalization under reorgs, and the cursor's order
   against the rows'.
6. Several launches and the batch limit in `ChainIndexer`.
