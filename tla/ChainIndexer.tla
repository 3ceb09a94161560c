---------------------------- MODULE ChainIndexer ----------------------------
(***************************************************************************)
(* apps/indexer: the loop that copies contract events from a reorganising  *)
(* chain into PostgreSQL.  Run (indexer.go) is one process.  A step is one *)
(* RPC call with the database transaction that its answer leads to (which  *)
(* reads nothing of the chain), and the chain may grow or reorganise       *)
(* between any two steps.  An error ends the process; its supervisor       *)
(* starts it again from the durable checkpoint.                            *)
(*                                                                         *)
(* The hash of a block is the chain up to it, so that two blocks have the  *)
(* same hash exactly when they and all their ancestors are the same.       *)
(* Of the database only the canonical rows are kept: the rows that a       *)
(* transaction orphans are never read again.  The projections are rebuilt  *)
(* from these rows in the transaction that writes them.                    *)
(***************************************************************************)
EXTENDS Integers, Sequences, FiniteSets, FiniteSetsExt, SequencesExt

CONSTANTS
  Launch,            (* the factory's launch event                          *)
  CurveEvents,       (* events of the launched curve, its token and pool    *)
  NoHash,
  Confirmations,
  BatchSize,
  StartBlocks,       (* values INDEXER_START_BLOCK has at some start        *)
  ReorgDepth,        (* blocks below the highest head a reorg may replace   *)
  MaxHeight,         (* bound: chain height                                 *)
  MaxReorgs,         (* bound: reorganisations                              *)
  MaxFails           (* bound: failures that no state explains              *)

Events == CurveEvents \cup {Launch}
Heights == 1..MaxHeight
Block == [events : SUBSET Events, era : 0..MaxReorgs]

ASSUME IndexerAssumption ==
  /\ Launch \notin CurveEvents
  /\ NoHash \notin Seq(Block)
  /\ Confirmations \in Nat
  /\ BatchSize \in Nat \ {0}
  /\ StartBlocks \subseteq Nat /\ StartBlocks # {}
  /\ ReorgDepth \in Nat
  /\ {MaxHeight, MaxReorgs, MaxFails} \subseteq Nat

VARIABLES
  chain,       (* the blocks the RPC serves, each the set of its events and
                  the number of reorgs before it                          *)
  highest,     (* the highest head so far                                 *)
  reorgs,
  deep,        (* history: a reorg went below the confirmations           *)
  struck,      (* history: the chain moved at a running batch's heights   *)
  fails,
  checkpoint,  (* indexer_checkpoints: number and hash                    *)
  blocks,      (* chain_blocks: the canonical hash of each height         *)
  rows,        (* chain_events: the canonical block of each event         *)
  pc,
  last, lastHash, target, end, logs, todo  (* locals of Run               *)

network == <<chain, highest, reorgs, deep, struck>>
database == <<checkpoint, blocks, rows>>
locals == <<last, lastHash, target, end, logs, todo>>
vars == <<network, fails, database, pc, locals>>

HashOf(n) == SubSeq(chain, 1, n)
Parent(hash) == Front(hash)
HasHeader(n) == n <= Len(chain)

-----------------------------------------------------------------------------
(* The chain. *)

\* The events that have happened on the chain the RPC now serves.
Happened == UNION {chain[n].events : n \in 1..Len(chain)}

InBatch == pc \in {"discover", "apply"}

\* The contracts are deployed at the start block, a curve has no event before
\* its launch, and a transaction is on a chain at most once.
Grow ==
  /\ Len(chain) < MaxHeight
  /\ \E new \in SUBSET (Events \ Happened) :
       /\ new # {} => /\ Len(chain) + 1 >= Min(StartBlocks)
                      /\ Launch \in Happened \cup new
       /\ chain' = Append(chain, [events |-> new, era |-> reorgs])
       /\ highest' = Max({highest, Len(chain) + 1})
  /\ struck' = (struck \/ (InBatch /\ Len(chain) < end))
  /\ UNCHANGED <<reorgs, deep, fails, database, pc, locals>>

\* The blocks above some height disappear; Grow brings others.
Reorg ==
  /\ reorgs < MaxReorgs
  /\ \E n \in 0..(Len(chain) - 1) :
       /\ n >= highest - ReorgDepth
       /\ chain' = SubSeq(chain, 1, n)
       /\ deep' = (deep \/ n < highest - Confirmations)
  /\ struck' = (struck \/ InBatch)
  /\ reorgs' = reorgs + 1
  /\ UNCHANGED <<highest, fails, database, pc, locals>>

-----------------------------------------------------------------------------
(* The database. *)

NoRows == [e \in Events |-> NoHash]

\* A rewind that orphans blocks and leaves the events they held.
RewindBlocksOnly(from) ==
  /\ blocks' = [n \in Heights |-> IF n >= from THEN NoHash ELSE blocks[n]]
  /\ checkpoint' = [n |-> from - 1,
                    hash |-> IF from - 1 \in Heights THEN blocks[from - 1] ELSE NoHash]
  /\ UNCHANGED rows

\* Store.Rewind: every canonical row from a height on is orphaned.
Rewind(from) ==
  /\ blocks' = [n \in Heights |-> IF n >= from THEN NoHash ELSE blocks[n]]
  /\ rows' = [e \in Events |->
                IF rows[e] # NoHash /\ Len(rows[e]) >= from THEN NoHash ELSE rows[e]]
  /\ checkpoint' = [n |-> from - 1,
                    hash |-> IF from - 1 \in Heights THEN blocks[from - 1] ELSE NoHash]

\* insertEvent moves an event's row to the block that now holds it; the rows
\* of another block at the same height are orphaned first.
RowsApplied(n, hash, events) ==
  [e \in Events |->
     IF e \in events THEN hash
     ELSE IF rows[e] # NoHash /\ Len(rows[e]) = n /\ rows[e] # hash THEN NoHash
     ELSE rows[e]]

\* Store.ApplyWithMetadataAndSenders.
Apply(n, hash, events) ==
  /\ blocks' = [blocks EXCEPT ![n] = hash]
  /\ rows' = RowsApplied(n, hash, events)
  /\ checkpoint' = [n |-> n, hash |-> hash]

-----------------------------------------------------------------------------
(* The process. *)

Init ==
  /\ chain = <<>> /\ highest = 0 /\ reorgs = 0 /\ fails = 0
  /\ deep = FALSE /\ struck = FALSE
  /\ checkpoint = [n |-> 0, hash |-> NoHash]
  /\ blocks = [n \in Heights |-> NoHash]
  /\ rows = NoRows
  /\ pc = "start"
  /\ last = 0 /\ lastHash = NoHash /\ target = 0 /\ end = 0
  /\ logs = {} /\ todo = {}

Idle == logs' = {} /\ todo' = {} /\ end' = 0

\* The process exits and forgets what it held.
Exit ==
  /\ pc' = "start"
  /\ last' = 0 /\ lastHash' = NoHash /\ target' = 0
  /\ Idle

\* initialCheckpoint.
Start ==
  /\ pc = "start"
  /\ \E start \in StartBlocks :
       IF start > 0 /\ checkpoint.n < start
       THEN last' = start - 1 /\ lastHash' = NoHash
       ELSE last' = checkpoint.n /\ lastHash' = checkpoint.hash
  /\ pc' = "head"
  /\ UNCHANGED <<network, fails, database, target, end, logs, todo>>

\* An unsigned subtraction without its guard.
HeadMinusConfirmations == Len(chain) - Confirmations

ConfirmedHead == IF Len(chain) > Confirmations THEN Len(chain) - Confirmations ELSE 0

ReadHead ==
  /\ pc = "head"
  /\ target' = ConfirmedHead
  /\ pc' = IF lastHash # NoHash THEN "check" ELSE "batch"
  /\ UNCHANGED <<network, fails, database, last, lastHash, end, logs, todo>>

\* A check that only asks whether the height still has a header.
AnyHeader == TRUE

\* The header of the checkpoint must be the one that was stored.
LastIsCanonical == HashOf(last) = lastHash

CheckLast ==
  /\ pc = "check"
  /\ IF HasHeader(last)
     THEN /\ pc' = IF LastIsCanonical THEN "batch" ELSE "recover"
          /\ UNCHANGED locals
     ELSE Exit
  /\ UNCHANGED <<network, fails, database>>

StoredHash(n) == IF n \in Heights THEN blocks[n] ELSE NoHash

\* recover, one height of its walk down.
recover ==
  /\ pc = "recover"
  /\ \/ /\ ~HasHeader(last)
        /\ Exit
        /\ UNCHANGED database
     \/ /\ HasHeader(last) /\ StoredHash(last) = HashOf(last)
        /\ Rewind(last + 1)
        /\ lastHash' = HashOf(last)
        /\ pc' = "batch"
        /\ UNCHANGED <<last, target, end, logs, todo>>
     \/ /\ HasHeader(last) /\ StoredHash(last) # HashOf(last) /\ last = 0
        /\ Rewind(1)
        /\ lastHash' = NoHash
        /\ pc' = "batch"
        /\ UNCHANGED <<last, target, end, logs, todo>>
     \/ /\ HasHeader(last) /\ StoredHash(last) # HashOf(last) /\ last > 0
        /\ last' = last - 1
        /\ UNCHANGED <<database, pc, lastHash, target, end, logs, todo>>
  /\ UNCHANGED <<network, fails>>

\* The logs of some events from one height to another, as the RPC serves them.
FilterLogs(from, to, events) ==
  UNION {{[event |-> e, hash |-> HashOf(n)] : e \in chain[n].events \cap events}
         : n \in {m \in from..to : HasHeader(m)}}

\* ScanContracts: the curve's contracts are known once its launch is stored.
KnownEvents == IF rows[Launch] # NoHash THEN Events ELSE {Launch}

\* One batch's query, or nothing to do.
QueryBatch ==
  /\ pc = "batch"
  /\ IF last < target
     THEN /\ end' = Min({last + BatchSize, target})
          /\ logs' = FilterLogs(last + 1, end', KnownEvents)
          /\ pc' = "discover"
          /\ UNCHANGED <<last, lastHash, target, todo>>
     ELSE pc' = "head" /\ UNCHANGED locals
  /\ UNCHANGED <<network, fails, database>>

\* A batch whose own launches are not followed.
NothingDiscovered == {}

\* discoverLaunchLogs: the contracts a launch in this batch creates are queried
\* from the launch's block to the end of the batch.  The queries for its token,
\* its curve and its pool are taken as one.
Discovered ==
  UNION {FilterLogs(Len(l.hash), end, CurveEvents) : l \in {k \in logs : k.event = Launch}}

\* The blocks to write: both ends of the batch and every one with a log.
DiscoverLaunches ==
  /\ pc = "discover"
  /\ logs' = logs \cup Discovered
  /\ todo' = {last + 1, end} \cup {Len(l.hash) : l \in logs'}
  /\ pc' = "apply"
  /\ UNCHANGED <<network, fails, database, last, lastHash, target, end>>

\* A write that does not compare the next block's parent.
UnlinkedParent(n) == FALSE

parentMismatch(n) ==
  n = last + 1 /\ last > 0 /\ lastHash # NoHash /\ Parent(HashOf(n)) # lastHash

\* Block-by-block, in ascending order: the header is fetched, checked against
\* its parent and against its logs, and written with them.
ApplyBlock ==
  /\ pc = "apply"
  /\ LET n == Min(todo)
         mine == {l \in logs : Len(l.hash) = n}
     IN  IF ~HasHeader(n) \/ parentMismatch(n) \/ \E l \in mine : l.hash # HashOf(n)
         THEN Exit /\ UNCHANGED database
         ELSE /\ Apply(n, HashOf(n), {l.event : l \in mine})
              /\ last' = n
              /\ lastHash' = HashOf(n)
              /\ IF todo = {n}
                 THEN pc' = "batch" /\ Idle
                 ELSE todo' = todo \ {n} /\ UNCHANGED <<pc, end, logs>>
              /\ UNCHANGED target
  /\ UNCHANGED <<network, fails>>

\* A call fails after its retries, or the process is stopped.
Fail ==
  /\ pc # "start"
  /\ fails < MaxFails
  /\ fails' = fails + 1
  /\ Exit
  /\ UNCHANGED <<network, database>>

Run ==
  Start \/ ReadHead \/ CheckLast \/ recover \/ QueryBatch \/ DiscoverLaunches \/ ApplyBlock

Next == Grow \/ Reorg \/ Fail \/ Run

Spec == Init /\ [][Next]_vars

\* The process is scheduled, its supervisor restarts it, and blocks are mined
\* up to the bound.
FairSpec == Spec /\ WF_vars(Run) /\ WF_vars(Grow)

-----------------------------------------------------------------------------
IsHash(h) == h = NoHash \/ (h \in Seq(Block) /\ Len(h) <= MaxHeight)

TypeOK ==
  /\ IsHash(chain) /\ chain # NoHash
  /\ highest \in Len(chain)..MaxHeight
  /\ reorgs \in 0..MaxReorgs /\ fails \in 0..MaxFails
  /\ deep \in BOOLEAN /\ struck \in BOOLEAN
  /\ checkpoint = [n |-> checkpoint.n, hash |-> checkpoint.hash]
  /\ checkpoint.n \in 0..MaxHeight /\ IsHash(checkpoint.hash)
  /\ DOMAIN blocks = Heights /\ \A n \in Heights : IsHash(blocks[n])
  /\ DOMAIN rows = Events /\ \A e \in Events : IsHash(rows[e])
  /\ pc \in {"start", "head", "check", "recover", "batch", "discover", "apply"}
  /\ last \in Nat /\ {target, end} \subseteq 0..MaxHeight /\ IsHash(lastHash)
  /\ \A l \in logs : l.event \in Events /\ IsHash(l.hash) /\ l.hash # NoHash
  /\ todo \subseteq Heights

OnChain(h) == IsPrefix(h, chain)

CheckpointOnChain == checkpoint.hash = NoHash \/ OnChain(checkpoint.hash)

\* The rows hold, for every event between the start block and the checkpoint,
\* the one block of the present chain that has it, and nothing else; and the
\* canonical blocks from the start block on are of that chain.
Exact ==
  /\ \A n \in Heights : Min(StartBlocks) <= n /\ blocks[n] # NoHash => OnChain(blocks[n])
  /\ \A e \in Events :
       /\ rows[e] # NoHash => OnChain(rows[e]) /\ e \in chain[Len(rows[e])].events
       /\ \A n \in Heights :
            /\ Min(StartBlocks) <= n /\ n <= checkpoint.n
            /\ HasHeader(n) /\ e \in chain[n].events
            => rows[e] = HashOf(n)

\* As long as no reorg has replaced a block deeper than the confirmations, the
\* database is exact at every moment, whatever the chain does between two RPC calls and
\* wherever the process is stopped and started again: in the middle of a
\* batch, and with a launch and its curve's events in one batch or in two.
AlwaysExact == ~deep => CheckpointOnChain /\ Exact

\* The same for reorgs of any depth, as long as none has moved the chain at the
\* heights of a batch that was being written: whenever the checkpoint is on the present chain, the rows are exact below it, however
\* the chain moved before, after and while recovery was walking down.
ExactAtCheckpoint == ~struck /\ CheckpointOnChain => Exact

\* Canonical rows are never torn, whatever the reorgs: an event is canonical
\* only with the canonical block that holds it, the checkpoint is the highest
\* canonical block, and blocks stored at adjacent heights are parent and child.
\* The block at INDEXER_START_BLOCK is written without that comparison when
\* the checkpoint is below it; initialCheckpoint then drops the stored hash.
RowsNeverTorn ==
  /\ \A e \in Events :
       rows[e] # NoHash =>
         /\ blocks[Len(rows[e])] = rows[e]
         /\ e \in rows[e][Len(rows[e])].events
  /\ \A n \in Heights : blocks[n] # NoHash =>
       /\ Len(blocks[n]) = n
       /\ n <= checkpoint.n
       /\ n \notin StartBlocks /\ StoredHash(n - 1) # NoHash
            => Parent(blocks[n]) = StoredHash(n - 1)
  /\ checkpoint.hash # NoHash => blocks[checkpoint.n] = checkpoint.hash

\* Once the chain stops moving the indexer reaches the confirmed head and stays
\* there, on that chain: no sequence of reorgs, failures and restarts leaves it
\* waiting, walking back for ever or failing at the same block again.
CatchesUp == <>[](checkpoint.n = ConfirmedHead /\ CheckpointOnChain)

\* store.go: rebuilding the projections with the write "prevents a reorg from
\* exposing a mixed canonical state".  Stated of the rows they are built from,
\* for reorgs at any time: canonical blocks are all of one chain.
NoMixedState ==
  \A m, n \in Heights :
    blocks[m] # NoHash /\ blocks[n] # NoHash /\ m < n => IsPrefix(blocks[m], blocks[n])

\* docs/developers/indexer.mdx: INDEXER_START_BLOCK "does not overwrite a
\* durable" checkpoint: a start resumes from a checkpoint that was written.
StartKeepsCheckpoint ==
  [][Start /\ checkpoint.hash # NoHash => last' = checkpoint.n]_vars
=============================================================================
