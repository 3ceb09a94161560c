------------------------- MODULE ChainIndexer_proofs -------------------------
(***************************************************************************)
(* Proofs about ChainIndexer, for any batch size, number of confirmations, *)
(* chain and set of events.                                                *)
(*                                                                         *)
(* IndexerInv is the inductive invariant of TypeOK and RowsNeverTorn, for  *)
(* reorgs of any depth at any moment, failures anywhere and any start      *)
(* block. DatabaseOK is what the transactions keep of the tables; LocalsOK *)
(* says what Run's locals may rely on in them: the block whose hash Run    *)
(* compares with is the checkpoint, or there is no stored neighbour below  *)
(* the next block to disagree with.                                        *)
(*                                                                         *)
(* ExactInv is the inductive invariant of AlwaysExact and                  *)
(* ExactAtCheckpoint. Exactness for the present chain is not inductive, as *)
(* any reorg below the checkpoint breaks it. What survives a reorg is      *)
(* exactness for the checkpoint's own chain, which its hash determines     *)
(* (ExactForCheckpoint); when the checkpoint is on the present chain the   *)
(* two are the same. A batch keeps it because the logs it applies are      *)
(* those of the chain the checkpoint is on, as long as the last block      *)
(* written still is on the chain (BatchExact); if it is not, the next      *)
(* header's parent differs and the batch is abandoned. Without a deep      *)
(* reorg the head the batch was taken from is confirmed and stays on the   *)
(* chain (Confirmed). Both need one value of INDEXER_START_BLOCK at all    *)
(* starts: a start block raised above the checkpoint leaves the heights in *)
(* between unread.                                                         *)
(***************************************************************************)
EXTENDS ChainIndexer, SequenceTheorems, WellFoundedInduction, TLAPS

-----------------------------------------------------------------------------
(* Hashes are chains, and a chain's prefixes are chains. *)

LEMMA PrefixIsHash ==
  ASSUME NEW c \in Seq(Block), NEW n \in 0..Len(c)
  PROVE  /\ SubSeq(c, 1, n) \in Seq(Block) /\ SubSeq(c, 1, n) # NoHash
         /\ Len(SubSeq(c, 1, n)) = n
         /\ \A i \in 1..n : SubSeq(c, 1, n)[i] = c[i]
<1>1. \A i \in 1..n : c[i] \in Block
  <2>1. SUFFICES ASSUME NEW i \in 1..n PROVE c[i] \in Block
    OBVIOUS
  <2>2. Len(c) \in Nat
    BY LenProperties
  <2>3. i \in 1..Len(c)
    BY <2>2
  <2>4. QED
    BY <2>3, ElementOfSeq
<1>2. /\ SubSeq(c, 1, n) \in Seq(Block)
      /\ Len(SubSeq(c, 1, n)) = IF 1 <= n THEN n - 1 + 1 ELSE 0
      /\ \A i \in 1..n - 1 + 1 : SubSeq(c, 1, n)[i] = c[1 + i - 1]
  <2>1. 1 \in Int /\ n \in Int /\ \A i \in 1..n : c[i] \in Block
    BY <1>1, LenProperties
  <2>2. \A m \in Int : (\A i \in m..n : c[i] \in Block) =>
          /\ SubSeq(c, m, n) \in Seq(Block)
          /\ Len(SubSeq(c, m, n)) = IF m <= n THEN n - m + 1 ELSE 0
          /\ \A i \in 1..n - m + 1 : SubSeq(c, m, n)[i] = c[m + i - 1]
    BY <2>1, SubSeqProperties
  <2>3. QED
    BY <2>1, <2>2, Zenon
<1>3. n \in Nat /\ 1 \in Int
  BY LenProperties
<1>4. \A i \in 1..n : i \in 1..n - 1 + 1 /\ 1 + i - 1 = i
  BY <1>3
<1>5. QED
  BY <1>2, <1>3, <1>4, IndexerAssumption

LEMMA PrefixOfPrefix ==
  ASSUME NEW c \in Seq(Block), NEW n \in 0..Len(c), NEW m \in 0..n
  PROVE  SubSeq(SubSeq(c, 1, n), 1, m) = SubSeq(c, 1, m)
<1> DEFINE b == SubSeq(c, 1, n)
<1>1. Len(c) \in Nat
  BY LenProperties
<1>2. m \in 0..Len(c) /\ n \in Nat
  BY <1>1
<1>3. b \in Seq(Block) /\ Len(b) = n /\ \A i \in 1..n : b[i] = c[i]
  BY PrefixIsHash
<1>4. /\ SubSeq(b, 1, m) \in Seq(Block) /\ Len(SubSeq(b, 1, m)) = m
      /\ \A i \in 1..m : SubSeq(b, 1, m)[i] = b[i]
  BY <1>3, PrefixIsHash
<1>5. /\ SubSeq(c, 1, m) \in Seq(Block) /\ Len(SubSeq(c, 1, m)) = m
      /\ \A i \in 1..m : SubSeq(c, 1, m)[i] = c[i]
  BY <1>2, PrefixIsHash
<1>6. \A i \in 1..m : SubSeq(b, 1, m)[i] = SubSeq(c, 1, m)[i]
  BY <1>2, <1>3, <1>4, <1>5
<1>7. QED
  BY <1>4, <1>5, <1>6, SeqEqual

LEMMA ParentOfPrefix ==
  ASSUME NEW c \in Seq(Block), NEW n \in 1..Len(c)
  PROVE  Parent(SubSeq(c, 1, n)) = SubSeq(c, 1, n - 1)
<1>1. Len(c) \in Nat
  BY LenProperties
<1>2. n \in 0..Len(c) /\ n - 1 \in 0..n
  BY <1>1
<1>3. Len(SubSeq(c, 1, n)) = n
  BY <1>2, PrefixIsHash
<1>4. QED
  BY <1>2, <1>3, PrefixOfPrefix DEF Parent, Front

LEMMA FullPrefix ==
  ASSUME NEW c \in Seq(Block)
  PROVE  SubSeq(c, 1, Len(c)) = c
BY SubSeqFull

LEMMA AppendKeepsPrefix ==
  ASSUME NEW c \in Seq(Block), NEW b \in Block, NEW n \in 0..Len(c)
  PROVE  SubSeq(Append(c, b), 1, n) = SubSeq(c, 1, n)
<1> DEFINE d == Append(c, b)
<1>1. Len(c) \in Nat
  BY LenProperties
<1>2. /\ d \in Seq(Block) /\ Len(d) = Len(c) + 1
      /\ \A i \in 1..Len(c) : d[i] = c[i]
  BY AppendProperties
<1>3. n \in 0..Len(d)
  BY <1>1, <1>2
<1> HIDE DEF d
<1>4. /\ SubSeq(d, 1, n) \in Seq(Block) /\ Len(SubSeq(d, 1, n)) = n
      /\ \A i \in 1..n : SubSeq(d, 1, n)[i] = d[i]
  BY <1>2, <1>3, PrefixIsHash
<1>5. /\ SubSeq(c, 1, n) \in Seq(Block) /\ Len(SubSeq(c, 1, n)) = n
      /\ \A i \in 1..n : SubSeq(c, 1, n)[i] = c[i]
  BY PrefixIsHash
<1>6. \A i \in 1..n : SubSeq(d, 1, n)[i] = SubSeq(c, 1, n)[i]
  BY <1>1, <1>2, <1>4, <1>5
<1>7. SubSeq(d, 1, n) = SubSeq(c, 1, n)
  BY <1>4, <1>5, <1>6, SeqEqual
<1>8. QED
  BY <1>7 DEF d

LEMMA MinOf ==
  ASSUME NEW S \in SUBSET Nat, S # {}
  PROVE  Min(S) \in S /\ \A y \in S : Min(S) <= y
<1> DEFINE Below == {p \in Nat \X Nat : p[1] < p[2]}
<1>1. IsWellFoundedOn(Below, Nat)
  BY NatLessThanWellFounded, Zenon DEF OpToRel
<1> HIDE DEF Below
<1>2. PICK x \in S : \A y \in S : ~(<<y, x>> \in Below)
  BY <1>1, WFMin
<1>3. \A y \in S : <<y, x>> \in Below <=> y < x
  BY DEF Below
<1>4. ASSUME NEW y \in S PROVE x <= y
  <2>1. ~(y < x)
    BY <1>2, <1>3, Zenon
  <2>2. x \in Nat /\ y \in Nat
    OBVIOUS
  <2>3. QED
    BY <2>1, <2>2
<1>5. QED
  BY <1>4, Zenon DEF Min

LEMMA MinOfTwo ==
  ASSUME NEW a \in Int, NEW b \in Int
  PROVE  Min({a, b}) = IF a <= b THEN a ELSE b
BY DEF Min

LEMMA MaxOfTwo ==
  ASSUME NEW a \in Int, NEW b \in Int
  PROVE  Max({a, b}) = IF a >= b THEN a ELSE b
BY DEF Max

-----------------------------------------------------------------------------
(* The inductive invariant of RowsNeverTorn. *)

\* What the transactions keep of the tables: the checkpoint is a stored block,
\* and RowsNeverTorn's clauses.
DatabaseOK ==
  /\ checkpoint.hash = StoredHash(checkpoint.n)
  /\ checkpoint.n > 0 => checkpoint.hash # NoHash
  /\ \A n \in Heights : blocks[n] # NoHash =>
       /\ Len(blocks[n]) = n /\ n <= checkpoint.n
       /\ (n \notin StartBlocks /\ StoredHash(n - 1) # NoHash
             => Parent(blocks[n]) = StoredHash(n - 1))
  /\ \A e \in Events : rows[e] # NoHash =>
       /\ Len(rows[e]) \in Heights /\ blocks[Len(rows[e])] = rows[e]
       /\ e \in rows[e][Len(rows[e])].events

\* What Run's locals say of the tables.  Without a hash to compare with, the
\* next block is the start block or has no stored parent.
ResumesAtCheckpoint ==
  IF lastHash = NoHash
  THEN /\ checkpoint.n <= last
       /\ last + 1 \in StartBlocks \/ StoredHash(last) = NoHash
  ELSE last = checkpoint.n /\ lastHash = checkpoint.hash

LogsOK ==
  \A l \in logs :
    /\ Len(l.hash) \in 1..end
    /\ l.event \in l.hash[Len(l.hash)].events

LocalsOK ==
  /\ pc \in {"head", "check", "batch", "discover", "apply"} => ResumesAtCheckpoint
  /\ pc = "check" => lastHash # NoHash
  /\ InBatch => last < end /\ end <= target /\ LogsOK
  /\ pc = "discover" => \A l \in logs : last < Len(l.hash)
  /\ pc = "apply" =>
       /\ todo # {} /\ todo \subseteq (last + 1)..end
       /\ \A l \in logs : last < Len(l.hash) => Len(l.hash) \in todo

IndexerInv == TypeOK /\ DatabaseOK /\ LocalsOK

-----------------------------------------------------------------------------
(* The inductive invariant of AlwaysExact and ExactAtCheckpoint, for one       *)
(* value of INDEXER_START_BLOCK.                                               *)

FirstBlock == Min(StartBlocks)

\* Events are on the chain once, not before the start block, and a curve's not
\* before its launch.
ChainOK ==
  /\ \A m \in 1..Len(chain) : \A e \in chain[m].events :
       /\ FirstBlock <= m
       /\ \E k \in 1..m : Launch \in chain[k].events
  /\ \A m, n \in 1..Len(chain) :
       chain[m].events \cap chain[n].events # {} => m = n

\* The tables are exact for the checkpoint's own chain.
ExactForCheckpoint ==
  /\ \A n \in Heights : FirstBlock <= n /\ blocks[n] # NoHash
       => blocks[n] = SubSeq(checkpoint.hash, 1, n)
  /\ \A n \in Heights : FirstBlock <= n /\ n <= checkpoint.n
       => \A e \in checkpoint.hash[n].events : rows[e] = SubSeq(checkpoint.hash, 1, n)

\* The last block written is on the chain, or nothing is known of it.
Linked == lastHash = NoHash \/ (HasHeader(last) /\ lastHash = HashOf(last))

Logged(e, n) == \E l \in logs : l.event = e /\ l.hash = HashOf(n)

BatchExact ==
  /\ pc = "discover" =>
       \A m \in (last + 1)..end : HasHeader(m)
          => \A e \in chain[m].events \cap KnownEvents : Logged(e, m)
  /\ pc = "apply" =>
       /\ last + 1 \in todo \/ Linked
       /\ Linked => \A m \in (last + 1)..end : HasHeader(m)
                       => \A e \in chain[m].events : Logged(e, m)

\* No reorg was both below the confirmations and inside a batch.
Calm == ~struck \/ ~deep

\* While nothing was confirmed and then replaced.
Confirmed ==
  /\ Len(chain) >= highest - Confirmations
  /\ target > 0 => target <= highest - Confirmations
  /\ checkpoint.n > 0 => checkpoint.n <= highest - Confirmations
  /\ CheckpointOnChain

RowsPlaced == \A e \in Events : rows[e] # NoHash => FirstBlock <= Len(rows[e])

LogsPlaced == InBatch => \A l \in logs : FirstBlock <= Len(l.hash)

ResumesBeforeStart ==
  pc \in {"head", "check", "batch", "discover", "apply"} /\ lastHash = NoHash
    => last = 0 \/ last = FirstBlock - 1

ExactInv ==
  /\ ChainOK /\ RowsPlaced /\ LogsPlaced /\ ResumesBeforeStart
  /\ Calm => ExactForCheckpoint /\ BatchExact
  /\ ~deep => Confirmed

-----------------------------------------------------------------------------
(* Every step preserves IndexerInv: TypeOK first, action by action. *)

LEMMA ChainFacts ==
  ASSUME TypeOK
  PROVE  /\ chain \in Seq(Block) /\ Len(chain) \in Nat /\ Len(chain) <= MaxHeight
         /\ Heights \subseteq Nat /\ MaxHeight \in Nat
         /\ highest \in Nat /\ Len(chain) <= highest
         /\ \A n \in 0..Len(chain) :
              /\ HashOf(n) \in Seq(Block) /\ HashOf(n) # NoHash /\ Len(HashOf(n)) = n
              /\ IsHash(HashOf(n))
              /\ \A i \in 1..n : HashOf(n)[i] = chain[i]
<1>1. chain \in Seq(Block) /\ Len(chain) <= MaxHeight
  BY DEF TypeOK, IsHash
<1>2. Len(chain) \in Nat /\ MaxHeight \in Nat /\ Heights \subseteq Nat
  BY <1>1, LenProperties, IndexerAssumption DEF Heights
<1>3. highest \in Nat /\ Len(chain) <= highest
  BY <1>2 DEF TypeOK
<1>4. ASSUME NEW n \in 0..Len(chain)
      PROVE  /\ HashOf(n) \in Seq(Block) /\ HashOf(n) # NoHash /\ Len(HashOf(n)) = n
             /\ IsHash(HashOf(n))
             /\ \A i \in 1..n : HashOf(n)[i] = chain[i]
  <2>1. /\ HashOf(n) \in Seq(Block) /\ HashOf(n) # NoHash /\ Len(HashOf(n)) = n
        /\ \A i \in 1..n : HashOf(n)[i] = chain[i]
    BY <1>1, PrefixIsHash DEF HashOf
  <2>2. n <= MaxHeight
    BY <1>1, <1>2
  <2>3. QED
    BY <2>1, <2>2 DEF IsHash
<1>5. QED
  BY <1>1, <1>2, <1>3, <1>4

LEMMA InitIndexer == Init => IndexerInv
<1> SUFFICES ASSUME Init PROVE IndexerInv
  OBVIOUS
<1>1. chain \in Seq(Block) /\ Len(chain) = 0 /\ chain # NoHash
  BY EmptySeq, IndexerAssumption DEF Init
<1>2. TypeOK
  <2>1. IsHash(NoHash) /\ IsHash(chain)
    BY <1>1, IndexerAssumption DEF IsHash
  <2>2. {MaxHeight, MaxReorgs, MaxFails} \subseteq Nat
    BY IndexerAssumption
  <2>3. /\ highest \in Len(chain)..MaxHeight
        /\ reorgs \in 0..MaxReorgs /\ fails \in 0..MaxFails
        /\ checkpoint.n \in 0..MaxHeight /\ {target, end} \subseteq 0..MaxHeight
        /\ last \in Nat /\ lastHash = NoHash /\ checkpoint.hash = NoHash
        /\ checkpoint = [n |-> checkpoint.n, hash |-> checkpoint.hash]
    BY <1>1, <2>2 DEF Init
  <2>4. /\ DOMAIN blocks = Heights /\ \A n \in Heights : IsHash(blocks[n])
        /\ DOMAIN rows = Events /\ \A e \in Events : IsHash(rows[e])
    BY <2>1 DEF Init, NoRows
  <2>5. QED
    BY <1>1, <2>1, <2>3, <2>4 DEF Init, TypeOK
<1>3. DatabaseOK
  BY DEF Init, DatabaseOK, StoredHash, NoRows, Heights
<1>4. LocalsOK
  BY DEF Init, LocalsOK, InBatch
<1>5. QED
  BY <1>2, <1>3, <1>4 DEF IndexerInv

LEMMA GrowType ==
  ASSUME TypeOK, Grow
  PROVE  TypeOK'
<1> PICK new \in SUBSET (Events \ Happened) :
      /\ chain' = Append(chain, [events |-> new, era |-> reorgs])
      /\ highest' = Max({highest, Len(chain) + 1})
  BY DEF Grow
<1>1. [events |-> new, era |-> reorgs] \in Block
  BY DEF Block, TypeOK
<1>2. chain' \in Seq(Block) /\ Len(chain') = Len(chain) + 1
  BY <1>1, ChainFacts, AppendProperties
<1>3. Len(chain) + 1 <= MaxHeight
  BY ChainFacts DEF Grow
<1>4. IsHash(chain)' /\ chain' # NoHash
  BY <1>2, <1>3, IndexerAssumption DEF IsHash
<1>5. highest' = IF highest >= Len(chain) + 1 THEN highest ELSE Len(chain) + 1
  BY MaxOfTwo, ChainFacts
<1>6. highest \in Nat /\ Len(chain) \in Nat /\ highest <= MaxHeight /\ MaxHeight \in Nat
  BY ChainFacts DEF TypeOK
<1>7. highest' \in Len(chain')..MaxHeight
  BY <1>2, <1>3, <1>5, <1>6
<1>8. struck' \in BOOLEAN
  BY DEF Grow, TypeOK
<1>9. UNCHANGED <<reorgs, deep, fails, database, pc, locals>>
  BY DEF Grow
<1>10. QED
  BY <1>4, <1>7, <1>8, <1>9 DEF TypeOK, IsHash, database, locals

LEMMA ReorgType ==
  ASSUME TypeOK, Reorg
  PROVE  TypeOK'
<1> PICK n \in 0..(Len(chain) - 1) :
      chain' = HashOf(n) /\ deep' = (deep \/ n < highest - Confirmations)
  BY DEF Reorg, HashOf
<1>1. n \in 0..Len(chain) /\ n <= MaxHeight /\ n <= highest
  BY ChainFacts
<1>2. chain' \in Seq(Block) /\ chain' # NoHash /\ Len(chain') = n
  BY <1>1, ChainFacts
<1>3. IsHash(chain)'
  BY <1>1, <1>2 DEF IsHash
<1>4. highest' \in Len(chain')..MaxHeight
  BY <1>1, <1>2, ChainFacts DEF Reorg, TypeOK
<1>5. reorgs' \in 0..MaxReorgs
  <2>1. reorgs < MaxReorgs /\ reorgs' = reorgs + 1
    BY DEF Reorg
  <2>2. reorgs \in 0..MaxReorgs /\ MaxReorgs \in Nat
    BY IndexerAssumption DEF TypeOK
  <2>3. QED
    BY <2>1, <2>2
<1>6. struck' \in BOOLEAN /\ deep' \in BOOLEAN
  BY DEF Reorg, TypeOK
<1>7. UNCHANGED <<fails, database, pc, locals>>
  BY DEF Reorg
<1>8. QED
  BY <1>2, <1>3, <1>4, <1>5, <1>6, <1>7 DEF TypeOK, IsHash, database, locals

LEMMA ExitType ==
  ASSUME TypeOK, Exit, UNCHANGED <<network, database>>, fails' \in 0..MaxFails
  PROVE  TypeOK'
BY IndexerAssumption DEF TypeOK, IsHash, Exit, Idle, network, database

LEMMA StartType ==
  ASSUME TypeOK, Start
  PROVE  TypeOK'
<1>1. UNCHANGED <<network, fails, database, target, end, logs, todo>> /\ pc' = "head"
  BY DEF Start
<1>2. last' \in Nat /\ IsHash(lastHash)'
  <2> PICK start \in StartBlocks :
        IF start > 0 /\ checkpoint.n < start
        THEN last' = start - 1 /\ lastHash' = NoHash
        ELSE last' = checkpoint.n /\ lastHash' = checkpoint.hash
    BY DEF Start
  <2>1. start \in Nat
    BY IndexerAssumption
  <2>2. QED
    BY <2>1 DEF TypeOK, IsHash
<1>3. QED
  BY <1>1, <1>2 DEF TypeOK, IsHash, network, database

LEMMA ReadHeadType ==
  ASSUME TypeOK, ReadHead
  PROVE  TypeOK'
<1>1. target' \in 0..MaxHeight
  BY ChainFacts, IndexerAssumption DEF ReadHead, ConfirmedHead
<1>2. UNCHANGED <<network, fails, database, last, lastHash, end, logs, todo>>
  BY DEF ReadHead
<1>3. pc' \in {"check", "batch"}
  BY DEF ReadHead
<1>4. QED
  BY <1>1, <1>2, <1>3 DEF TypeOK, IsHash, network, database

LEMMA CheckLastType ==
  ASSUME TypeOK, CheckLast
  PROVE  TypeOK'
<1>1. CASE HasHeader(last)
  <2>1. pc' \in {"batch", "recover"} /\ UNCHANGED <<network, fails, database, locals>>
    BY <1>1 DEF CheckLast
  <2>2. QED
    BY <2>1 DEF TypeOK, IsHash, network, database, locals
<1>2. CASE ~HasHeader(last)
  BY <1>2, ExitType DEF CheckLast, TypeOK
<1>3. QED
  BY <1>1, <1>2

LEMMA RewindType ==
  ASSUME TypeOK, NEW from \in 1..(MaxHeight + 1), Rewind(from)
  PROVE  /\ checkpoint' = [n |-> checkpoint'.n, hash |-> checkpoint'.hash]
         /\ checkpoint'.n \in 0..MaxHeight /\ IsHash(checkpoint'.hash)
         /\ DOMAIN blocks' = Heights /\ \A n \in Heights : IsHash(blocks'[n])
         /\ DOMAIN rows' = Events /\ \A e \in Events : IsHash(rows'[e])
<1>1. MaxHeight \in Nat
  BY IndexerAssumption
<1>2. /\ checkpoint' = [n |-> checkpoint'.n, hash |-> checkpoint'.hash]
      /\ checkpoint'.n \in 0..MaxHeight /\ IsHash(checkpoint'.hash)
  BY <1>1 DEF Rewind, TypeOK, IsHash
<1>3. DOMAIN blocks' = Heights /\ \A n \in Heights : IsHash(blocks'[n])
  BY DEF Rewind, TypeOK, IsHash
<1>4. DOMAIN rows' = Events /\ \A e \in Events : IsHash(rows'[e])
  BY DEF Rewind, TypeOK, IsHash
<1>5. QED
  BY <1>2, <1>3, <1>4

LEMMA RecoverType ==
  ASSUME TypeOK, recover
  PROVE  TypeOK'
<1>0. UNCHANGED <<network, fails>>
  BY DEF recover
<1>1. CASE ~HasHeader(last) /\ Exit /\ UNCHANGED database
  BY <1>0, <1>1, ExitType DEF TypeOK
<1>2. CASE /\ HasHeader(last) /\ Rewind(last + 1) /\ lastHash' = HashOf(last)
           /\ pc' = "batch" /\ UNCHANGED <<last, target, end, logs, todo>>
  <2>1. last \in 0..Len(chain) /\ last + 1 \in 1..(MaxHeight + 1)
    BY <1>2, ChainFacts DEF HasHeader, TypeOK
  <2>2. IsHash(lastHash')
    BY <1>2, <2>1, ChainFacts
  <2>3. QED
    BY <1>0, <1>2, <2>1, <2>2, RewindType DEF TypeOK, network
<1>3. CASE Rewind(1) /\ lastHash' = NoHash /\ pc' = "batch"
           /\ UNCHANGED <<last, target, end, logs, todo>>
  <2>1. 1 \in 1..(MaxHeight + 1)
    BY IndexerAssumption
  <2>2. IsHash(lastHash')
    BY <1>3 DEF IsHash
  <2>3. QED
    BY <1>0, <1>3, <2>1, <2>2, RewindType DEF TypeOK, network
<1>4. CASE last > 0 /\ last' = last - 1
           /\ UNCHANGED <<database, pc, lastHash, target, end, logs, todo>>
  BY <1>0, <1>4 DEF TypeOK, IsHash, network, database
<1>5. QED
  BY <1>1, <1>2, <1>3, <1>4 DEF recover

-----------------------------------------------------------------------------
(* What a log query returns. *)

LEMMA FilteredLog ==
  ASSUME TypeOK, NEW from \in Nat \ {0}, NEW to \in Int, NEW events \in SUBSET Events,
         NEW l \in FilterLogs(from, to, events)
  PROVE  \E n \in from..to :
           /\ HasHeader(n) /\ n \in 1..Len(chain)
           /\ l.event \in chain[n].events \cap events /\ l.event \in Events
           /\ l.hash = HashOf(n) /\ IsHash(l.hash) /\ l.hash # NoHash
           /\ Len(l.hash) = n /\ l.event \in l.hash[Len(l.hash)].events
<1>1. PICK n \in from..to :
        HasHeader(n) /\ l \in {[event |-> e, hash |-> HashOf(n)] : e \in chain[n].events \cap events}
  BY Zenon DEF FilterLogs
<1>2. PICK e \in chain[n].events \cap events : l = [event |-> e, hash |-> HashOf(n)]
  BY <1>1
<1>3. n \in 1..Len(chain) /\ n \in 0..Len(chain)
  BY <1>1, ChainFacts DEF HasHeader
<1>4. /\ HashOf(n) # NoHash /\ Len(HashOf(n)) = n /\ IsHash(HashOf(n))
      /\ HashOf(n)[n] = chain[n]
  BY <1>3, ChainFacts
<1>5. l.event = e /\ l.hash = HashOf(n)
  BY <1>2
<1>6. QED
  BY <1>1, <1>3, <1>4, <1>5

LEMMA FilterComplete ==
  ASSUME NEW from \in Int, NEW to \in Int, NEW events, NEW n \in from..to,
         HasHeader(n), NEW e \in chain[n].events \cap events
  PROVE  [event |-> e, hash |-> HashOf(n)] \in FilterLogs(from, to, events)
<1> DEFINE LogsAt(m) == {[event |-> d, hash |-> HashOf(m)] : d \in chain[m].events \cap events}
           Headers == {m \in from..to : HasHeader(m)}
<1>1. n \in Headers
  OBVIOUS
<1>2. [event |-> e, hash |-> HashOf(n)] \in LogsAt(n)
  OBVIOUS
<1>3. FilterLogs(from, to, events) = UNION {LogsAt(m) : m \in Headers}
  BY Zenon DEF FilterLogs
<1> HIDE DEF LogsAt, Headers
<1>4. QED
  BY <1>1, <1>2, <1>3

LEMMA KnownAreEvents == KnownEvents \subseteq Events
BY DEF KnownEvents, Events

-----------------------------------------------------------------------------
(* Every step preserves the tables' and the locals' part. *)

LEMMA SameDatabase ==
  ASSUME DatabaseOK, UNCHANGED database
  PROVE  DatabaseOK'
BY DEF DatabaseOK, StoredHash, database

LEMMA SameLocals ==
  ASSUME LocalsOK, UNCHANGED <<database, pc, locals>>
  PROVE  LocalsOK'
BY DEF LocalsOK, ResumesAtCheckpoint, StoredHash, LogsOK, InBatch, database, locals

LEMMA ExitLocals ==
  ASSUME pc' = "start"
  PROVE  LocalsOK'
BY DEF LocalsOK, InBatch

LEMMA StartStep ==
  ASSUME IndexerInv, Start
  PROVE  IndexerInv'
<1>1. TypeOK' /\ DatabaseOK' /\ UNCHANGED database /\ pc' = "head"
  BY StartType, SameDatabase DEF IndexerInv, Start
<1>2. PICK start \in StartBlocks :
        IF start > 0 /\ checkpoint.n < start
        THEN last' = start - 1 /\ lastHash' = NoHash
        ELSE last' = checkpoint.n /\ lastHash' = checkpoint.hash
  BY DEF Start
<1>3. start \in Nat /\ checkpoint.n \in Nat
  BY IndexerAssumption DEF IndexerInv, TypeOK
<1>4. checkpoint.hash = StoredHash(checkpoint.n)
  BY DEF IndexerInv, DatabaseOK
<1>5. \A n : StoredHash(n)' = StoredHash(n)
  BY <1>1 DEF StoredHash, database
<1>6. checkpoint' = checkpoint
  BY <1>1 DEF database
<1>7. ResumesAtCheckpoint'
  <2>1. CASE start > 0 /\ checkpoint.n < start
    <3>1. last' = start - 1 /\ lastHash' = NoHash
      BY <1>2, <2>1
    <3>2. checkpoint'.n <= last' /\ last' + 1 = start
      BY <1>3, <1>6, <2>1, <3>1
    <3>3. QED
      BY <3>1, <3>2 DEF ResumesAtCheckpoint
  <2>2. CASE ~(start > 0 /\ checkpoint.n < start)
    <3>1. last' = checkpoint.n /\ lastHash' = checkpoint.hash
      BY <1>2, <2>2
    <3>2. checkpoint'.n <= last'
      BY <1>3, <1>6, <3>1
    <3>3. lastHash' = NoHash => StoredHash(last)' = NoHash
      BY <1>4, <1>6, <3>1, <1>1 DEF StoredHash, database
    <3>4. QED
      BY <1>6, <3>1, <3>2, <3>3 DEF ResumesAtCheckpoint
  <2>3. QED
    BY <2>1, <2>2
<1>8. LocalsOK'
  BY <1>1, <1>7 DEF LocalsOK, InBatch
<1>9. QED
  BY <1>1, <1>8 DEF IndexerInv

LEMMA ReadHeadStep ==
  ASSUME IndexerInv, ReadHead
  PROVE  IndexerInv'
<1>1. TypeOK' /\ DatabaseOK' /\ UNCHANGED <<database, last, lastHash>>
  BY ReadHeadType, SameDatabase DEF IndexerInv, ReadHead
<1>2. pc = "head" /\ pc' \in {"check", "batch"} /\ (pc' = "check" => lastHash' # NoHash)
  BY <1>1 DEF ReadHead
<1>3. ResumesAtCheckpoint'
  BY <1>1, <1>2 DEF IndexerInv, LocalsOK, ResumesAtCheckpoint, StoredHash, database
<1>4. LocalsOK'
  BY <1>2, <1>3 DEF LocalsOK, InBatch
<1>5. QED
  BY <1>1, <1>4 DEF IndexerInv

LEMMA CheckLastStep ==
  ASSUME IndexerInv, CheckLast
  PROVE  IndexerInv'
<1>1. TypeOK' /\ DatabaseOK'
  BY CheckLastType, SameDatabase DEF IndexerInv, CheckLast
<1>2. CASE HasHeader(last)
  <2>1. pc = "check" /\ pc' \in {"batch", "recover"} /\ UNCHANGED <<database, locals>>
    BY <1>2 DEF CheckLast
  <2>2. ResumesAtCheckpoint'
    BY <2>1 DEF IndexerInv, LocalsOK, ResumesAtCheckpoint, StoredHash, database, locals
  <2>3. LocalsOK'
    BY <2>1, <2>2 DEF LocalsOK, InBatch
  <2>4. QED
    BY <1>1, <2>3 DEF IndexerInv
<1>3. CASE ~HasHeader(last)
  BY <1>1, <1>3, ExitLocals DEF CheckLast, Exit, IndexerInv
<1>4. QED
  BY <1>2, <1>3

LEMMA RewindDatabase ==
  ASSUME TypeOK, DatabaseOK, NEW from \in 1..(MaxHeight + 1), Rewind(from),
         from > 1 => StoredHash(from - 1) # NoHash
  PROVE  /\ DatabaseOK'
         /\ checkpoint'.n = from - 1 /\ checkpoint'.hash = StoredHash(from - 1)
         /\ StoredHash(from - 1)' = StoredHash(from - 1)
<1>1. MaxHeight \in Nat /\ Heights = 1..MaxHeight
  BY IndexerAssumption DEF Heights
<1>2. checkpoint'.n = from - 1 /\ checkpoint'.hash = StoredHash(from - 1)
  BY DEF Rewind, StoredHash
<1>3. \A n \in Heights : blocks'[n] = IF n >= from THEN NoHash ELSE blocks[n]
  BY DEF Rewind
<1>4. \A n \in Int : StoredHash(n)' = IF n >= from THEN NoHash ELSE StoredHash(n)
  BY <1>3 DEF StoredHash
<1>5. StoredHash(from - 1)' = StoredHash(from - 1)
  BY <1>1, <1>4
<1>6. checkpoint'.hash = StoredHash(checkpoint.n)'
  <2>1. StoredHash(checkpoint.n)' = IF from - 1 \in Heights THEN blocks'[from - 1] ELSE NoHash
    BY <1>2 DEF StoredHash
  <2>2. from - 1 \in Heights => blocks'[from - 1] = blocks[from - 1]
    BY <1>1, <1>3
  <2>3. QED
    BY <1>2, <2>1, <2>2 DEF StoredHash
<1>7. checkpoint'.n > 0 => checkpoint'.hash # NoHash
  BY <1>1, <1>2
<1>8. ASSUME NEW n \in Heights, blocks'[n] # NoHash
      PROVE  /\ Len(blocks'[n]) = n /\ n <= checkpoint'.n
             /\ (n \notin StartBlocks /\ StoredHash(n - 1)' # NoHash
                   => Parent(blocks'[n]) = StoredHash(n - 1)')
  <2>1. n < from /\ blocks'[n] = blocks[n] /\ n \in Int
    BY <1>1, <1>3, <1>8
  <2>2. StoredHash(n - 1)' = StoredHash(n - 1)
    BY <1>1, <1>4, <2>1
  <2>3. /\ Len(blocks[n]) = n
        /\ (n \notin StartBlocks /\ StoredHash(n - 1) # NoHash
              => Parent(blocks[n]) = StoredHash(n - 1))
    BY <1>8, <2>1 DEF DatabaseOK
  <2>4. n <= checkpoint'.n
    BY <1>1, <1>2, <2>1
  <2>5. QED
    BY <2>1, <2>2, <2>3, <2>4
<1>9. ASSUME NEW e \in Events, rows'[e] # NoHash
      PROVE  /\ Len(rows'[e]) \in Heights /\ blocks'[Len(rows'[e])] = rows'[e]
             /\ e \in rows'[e][Len(rows'[e])].events
  <2>1. rows'[e] = rows[e] /\ ~(Len(rows[e]) >= from)
    BY <1>9 DEF Rewind
  <2>2. /\ Len(rows[e]) \in Heights /\ blocks[Len(rows[e])] = rows[e]
        /\ e \in rows[e][Len(rows[e])].events
    BY <1>9, <2>1 DEF DatabaseOK
  <2>3. QED
    BY <1>3, <2>1, <2>2
<1>10. DatabaseOK'
  BY <1>6, <1>7, <1>8, <1>9 DEF DatabaseOK
<1>11. QED
  BY <1>2, <1>5, <1>10

LEMMA RecoverStep ==
  ASSUME IndexerInv, recover
  PROVE  IndexerInv'
<1>0. TypeOK' /\ TypeOK /\ DatabaseOK /\ pc = "recover" /\ last \in Nat
  BY RecoverType DEF IndexerInv, recover, TypeOK
<1>1. CASE ~HasHeader(last) /\ Exit /\ UNCHANGED database
  BY <1>0, <1>1, ExitLocals, SameDatabase DEF IndexerInv, Exit
<1>2. CASE /\ HasHeader(last) /\ StoredHash(last) = HashOf(last)
           /\ Rewind(last + 1) /\ lastHash' = HashOf(last)
           /\ pc' = "batch" /\ UNCHANGED <<last, target, end, logs, todo>>
  <2>1. last \in 0..Len(chain) /\ last + 1 \in 1..(MaxHeight + 1) /\ last + 1 - 1 = last
    BY <1>0, <1>2, ChainFacts DEF HasHeader
  <2>2. StoredHash(last) # NoHash
    BY <1>0, <1>2, <2>1, ChainFacts
  <2>3. DatabaseOK' /\ checkpoint'.n = last /\ checkpoint'.hash = StoredHash(last)
    BY <1>0, <1>2, <2>1, <2>2, RewindDatabase
  <2>4. ResumesAtCheckpoint'
    BY <1>2, <2>2, <2>3 DEF ResumesAtCheckpoint
  <2>5. LocalsOK'
    BY <1>2, <2>4 DEF LocalsOK, InBatch
  <2>6. QED
    BY <1>0, <2>3, <2>5 DEF IndexerInv
<1>3. CASE /\ last = 0 /\ Rewind(1) /\ lastHash' = NoHash /\ pc' = "batch"
           /\ UNCHANGED <<last, target, end, logs, todo>>
  <2>1. 1 \in 1..(MaxHeight + 1) /\ 1 - 1 = 0 /\ ~(1 > 1)
    BY IndexerAssumption
  <2>2. StoredHash(0) = NoHash /\ StoredHash(0)' = NoHash
    BY DEF StoredHash, Heights
  <2>3. DatabaseOK' /\ checkpoint'.n = 0
    BY <1>0, <1>3, <2>1, RewindDatabase
  <2>4. ResumesAtCheckpoint'
    BY <1>3, <2>2, <2>3 DEF ResumesAtCheckpoint
  <2>5. LocalsOK'
    BY <1>3, <2>4 DEF LocalsOK, InBatch
  <2>6. QED
    BY <1>0, <2>3, <2>5 DEF IndexerInv
<1>4. CASE last' = last - 1 /\ UNCHANGED <<database, pc>>
  <2>1. LocalsOK'
    BY <1>0, <1>4 DEF LocalsOK, InBatch
  <2>2. QED
    BY <1>0, <1>4, <2>1, SameDatabase DEF IndexerInv
<1>5. QED
  BY <1>1, <1>2, <1>3, <1>4 DEF recover

\* The range of a batch.
LEMMA BatchRange ==
  ASSUME IndexerInv, QueryBatch, last < target
  PROVE  /\ end' \in (last + 1)..target /\ end' \in 0..MaxHeight /\ last + 1 \in Nat \ {0}
         /\ logs' = FilterLogs(last + 1, end', KnownEvents) /\ pc' = "discover"
         /\ UNCHANGED <<network, fails, database, last, lastHash, target, todo>>
<1>1. /\ last \in Nat /\ target \in 0..MaxHeight /\ MaxHeight \in Nat
      /\ BatchSize \in Nat \ {0}
  BY IndexerAssumption DEF IndexerInv, TypeOK
<1>2. /\ end' = Min({last + BatchSize, target})
      /\ logs' = FilterLogs(last + 1, end', KnownEvents) /\ pc' = "discover"
      /\ UNCHANGED <<network, fails, database, last, lastHash, target, todo>>
  BY DEF QueryBatch
<1>3. end' = IF last + BatchSize <= target THEN last + BatchSize ELSE target
  BY <1>1, <1>2, MinOfTwo
<1>4. end' \in (last + 1)..target /\ end' \in 0..MaxHeight
  BY <1>1, <1>3
<1>5. QED
  BY <1>1, <1>2, <1>4

LEMMA QueryBatchStep ==
  ASSUME IndexerInv, QueryBatch
  PROVE  IndexerInv'
<1>1. TypeOK /\ DatabaseOK' /\ pc = "batch" /\ ResumesAtCheckpoint /\ last \in Nat
  BY SameDatabase DEF IndexerInv, QueryBatch, LocalsOK, TypeOK
<1>2. CASE last < target
  <2>1. /\ end' \in (last + 1)..target /\ end' \in 0..MaxHeight /\ last + 1 \in Nat \ {0}
        /\ logs' = FilterLogs(last + 1, end', KnownEvents) /\ pc' = "discover"
        /\ UNCHANGED <<network, fails, database, last, lastHash, target, todo>>
    BY <1>2, BatchRange
  <2>2. ASSUME NEW l \in logs'
        PROVE  /\ l.event \in Events /\ IsHash(l.hash) /\ l.hash # NoHash
               /\ Len(l.hash) \in (last + 1)..end' /\ l.event \in l.hash[Len(l.hash)].events
    <3>1. l \in FilterLogs(last + 1, end', KnownEvents) /\ end' \in Int
      BY <2>1
    <3>2. QED
      BY <1>1, <2>1, <3>1, FilteredLog, KnownAreEvents
  <2>3. TypeOK'
    <3>1. \A l \in logs' : l.event \in Events /\ IsHash(l.hash) /\ l.hash # NoHash
      BY <2>2
    <3>2. QED
      BY <1>1, <2>1, <3>1 DEF TypeOK, IsHash, network, database
  <2>4. ResumesAtCheckpoint'
    BY <1>1, <2>1 DEF ResumesAtCheckpoint, StoredHash, database
  <2>5. \A l \in logs' : Len(l.hash) \in 1..end' /\ last' < Len(l.hash)
    BY <1>1, <2>1, <2>2
  <2>6. LogsOK'
    BY <2>2, <2>5 DEF LogsOK
  <2>7. last' < end' /\ end' <= target'
    BY <1>1, <2>1
  <2>8. LocalsOK'
    BY <2>1, <2>4, <2>5, <2>6, <2>7 DEF LocalsOK, InBatch
  <2>9. QED
    BY <1>1, <2>3, <2>8 DEF IndexerInv
<1>3. CASE ~(last < target)
  <2>1. pc' = "head" /\ UNCHANGED <<network, fails, database, locals>>
    BY <1>3 DEF QueryBatch
  <2>2. TypeOK'
    BY <1>1, <2>1 DEF TypeOK, IsHash, network, database, locals
  <2>3. ResumesAtCheckpoint'
    BY <1>1, <2>1 DEF ResumesAtCheckpoint, StoredHash, database, locals
  <2>4. LocalsOK'
    BY <2>1, <2>3 DEF LocalsOK, InBatch
  <2>5. QED
    BY <1>1, <2>2, <2>4 DEF IndexerInv
<1>4. QED
  BY <1>2, <1>3

LEMMA DiscoveredLog ==
  ASSUME TypeOK, LogsOK, NEW l \in Discovered
  PROVE  \E k \in {j \in logs : j.event = Launch} :
           \E n \in Len(k.hash)..end :
             /\ HasHeader(n) /\ n \in 1..Len(chain)
             /\ l.event \in chain[n].events /\ l.event \in Events
             /\ l.hash = HashOf(n) /\ IsHash(l.hash) /\ l.hash # NoHash
             /\ Len(l.hash) = n /\ l.event \in l.hash[Len(l.hash)].events
<1>1. PICK k \in {j \in logs : j.event = Launch} :
        l \in FilterLogs(Len(k.hash), end, CurveEvents)
  BY Zenon DEF Discovered
<1>2. Len(k.hash) \in Nat \ {0} /\ end \in Int
  BY <1>1, IndexerAssumption DEF LogsOK, TypeOK
<1>3. CurveEvents \in SUBSET Events
  BY DEF Events
<1>4. QED
  BY <1>1, <1>2, <1>3, FilteredLog

LEMMA DiscoverLaunchesStep ==
  ASSUME IndexerInv, DiscoverLaunches
  PROVE  IndexerInv'
<1>1. /\ TypeOK /\ DatabaseOK' /\ pc = "discover" /\ ResumesAtCheckpoint /\ LogsOK
      /\ last \in Nat /\ end \in 0..MaxHeight /\ MaxHeight \in Nat
      /\ last < end /\ end <= target /\ \A l \in logs : last < Len(l.hash)
  BY SameDatabase, IndexerAssumption
     DEF IndexerInv, DiscoverLaunches, LocalsOK, InBatch, TypeOK
<1>2. /\ logs' = logs \cup Discovered /\ pc' = "apply"
      /\ todo' = {last + 1, end} \cup {Len(l.hash) : l \in logs'}
      /\ UNCHANGED <<network, fails, database, last, lastHash, target, end>>
  BY DEF DiscoverLaunches
<1>3. ASSUME NEW l \in logs'
      PROVE  /\ l.event \in Events /\ IsHash(l.hash) /\ l.hash # NoHash
             /\ Len(l.hash) \in (last + 1)..end /\ l.event \in l.hash[Len(l.hash)].events
  <2>1. CASE l \in logs
    <3>1. l.event \in Events /\ IsHash(l.hash) /\ l.hash # NoHash
      BY <1>1, <2>1 DEF TypeOK
    <3>2. Len(l.hash) \in 1..end /\ l.event \in l.hash[Len(l.hash)].events /\ last < Len(l.hash)
      BY <1>1, <2>1 DEF LogsOK
    <3>3. QED
      BY <1>1, <3>1, <3>2
  <2>2. CASE l \in Discovered
    <3>1. PICK k \in {j \in logs : j.event = Launch} :
            \E n \in Len(k.hash)..end :
             /\ l.event \in Events /\ IsHash(l.hash) /\ l.hash # NoHash
             /\ Len(l.hash) = n /\ l.event \in l.hash[Len(l.hash)].events
      BY <1>1, <2>2, DiscoveredLog
    <3>2. last < Len(k.hash) /\ Len(k.hash) \in Int
      BY <1>1, <3>1 DEF LogsOK
    <3>3. QED
      BY <1>1, <3>1, <3>2
  <2>3. QED
    BY <1>2, <2>1, <2>2
<1>4. todo' \subseteq (last + 1)..end /\ todo' # {}
  BY <1>1, <1>2, <1>3
<1>5. TypeOK'
  <2>1. \A l \in logs' : l.event \in Events /\ IsHash(l.hash) /\ l.hash # NoHash
    BY <1>3
  <2>2. todo' \subseteq Heights
    BY <1>1, <1>4 DEF Heights
  <2>3. QED
    BY <1>1, <1>2, <2>1, <2>2 DEF TypeOK, IsHash, network, database
<1>6. ResumesAtCheckpoint'
  BY <1>1, <1>2 DEF ResumesAtCheckpoint, StoredHash, database
<1>7. \A l \in logs' : Len(l.hash) \in 1..end' /\ Len(l.hash) \in todo'
  <2>1. SUFFICES ASSUME NEW l \in logs' PROVE Len(l.hash) \in 1..end' /\ Len(l.hash) \in todo'
    OBVIOUS
  <2>2. Len(l.hash) \in (last + 1)..end
    BY <1>3
  <2>3. QED
    BY <1>1, <1>2, <2>2
<1>8. LogsOK'
  BY <1>3, <1>7 DEF LogsOK
<1>9. LocalsOK'
  BY <1>1, <1>2, <1>4, <1>6, <1>7, <1>8 DEF LocalsOK, InBatch
<1>10. QED
  BY <1>1, <1>5, <1>9 DEF IndexerInv

-----------------------------------------------------------------------------
(* Writing a block. *)

Mine(n) == {l \in logs : Len(l.hash) = n}
Written(n) == {l.event : l \in Mine(n)}

\* ApplyBlock either fails or writes the lowest block of the batch.
Writes(n) ==
  /\ pc = "apply" /\ n = Min(todo)
  /\ HasHeader(n) /\ ~parentMismatch(n) /\ (\A l \in Mine(n) : l.hash = HashOf(n))
  /\ Apply(n, HashOf(n), Written(n))
  /\ last' = n /\ lastHash' = HashOf(n)
  /\ IF todo = {n} THEN pc' = "batch" /\ Idle
     ELSE todo' = todo \ {n} /\ UNCHANGED <<pc, end, logs>>
  /\ UNCHANGED <<network, fails, target>>

LEMMA ApplyBlockCases ==
  ASSUME ApplyBlock
  PROVE  \/ Exit /\ UNCHANGED <<network, fails, database>>
         \/ Writes(Min(todo))
<1> DEFINE n == Min(todo)
<1>1. CASE ~HasHeader(n) \/ parentMismatch(n) \/ \E l \in Mine(n) : l.hash # HashOf(n)
  BY <1>1, Zenon DEF ApplyBlock, Mine
<1>2. CASE ~(~HasHeader(n) \/ parentMismatch(n) \/ \E l \in Mine(n) : l.hash # HashOf(n))
  <2>1. /\ Apply(n, HashOf(n), Written(n))
        /\ last' = n /\ lastHash' = HashOf(n)
        /\ (IF todo = {n} THEN pc' = "batch" /\ Idle
              ELSE todo' = todo \ {n} /\ UNCHANGED <<pc, end, logs>>)
        /\ UNCHANGED target
    BY <1>2, Zenon DEF ApplyBlock, Mine, Written
  <2>2. pc = "apply" /\ UNCHANGED <<network, fails>>
    BY DEF ApplyBlock
  <2>3. QED
    BY <1>2, <2>1, <2>2, Zenon DEF Writes
<1>3. QED
  BY <1>1, <1>2

LEMMA WriteFacts ==
  ASSUME IndexerInv, NEW n, Writes(n)
  PROVE  /\ n \in todo /\ n \in (last + 1)..end /\ n \in Heights /\ n \in Nat
         /\ n \in 0..Len(chain) /\ n \in 1..Len(chain) /\ n \in 1..n
         /\ \A y \in todo : n <= y
         /\ checkpoint.n \in Nat /\ checkpoint.n <= last /\ last \in Nat /\ last < n
         /\ HashOf(n) \in Seq(Block) /\ HashOf(n) # NoHash /\ Len(HashOf(n)) = n
         /\ IsHash(HashOf(n)) /\ HashOf(n)[n] = chain[n]
         /\ checkpoint' = [n |-> n, hash |-> HashOf(n)]
         /\ DOMAIN blocks' = Heights
         /\ \A m \in Heights : blocks'[m] = IF m = n THEN HashOf(n) ELSE blocks[m]
<1>1. /\ TypeOK /\ LocalsOK /\ last \in Nat /\ end \in 0..MaxHeight /\ MaxHeight \in Nat
      /\ checkpoint.n \in Nat /\ todo \in SUBSET Heights
  BY IndexerAssumption DEF IndexerInv, TypeOK
<1>2. pc = "apply" /\ n = Min(todo) /\ HasHeader(n) /\ Apply(n, HashOf(n), Written(n))
  BY DEF Writes
<1>3. todo \in SUBSET Nat /\ todo # {} /\ todo \subseteq (last + 1)..end /\ ResumesAtCheckpoint
  BY <1>1, <1>2, ChainFacts DEF LocalsOK
<1>4. n \in todo /\ \A y \in todo : n <= y
  BY <1>2, <1>3, MinOf
<1>5. n \in (last + 1)..end /\ n \in Heights /\ n \in Nat /\ last < n
  BY <1>1, <1>3, <1>4
<1>6. n \in 0..Len(chain) /\ n \in 1..Len(chain) /\ n \in 1..n
  BY <1>1, <1>2, <1>5, ChainFacts DEF HasHeader
<1>7. checkpoint.n <= last
  BY <1>1, <1>3 DEF ResumesAtCheckpoint
<1>8. /\ HashOf(n) \in Seq(Block) /\ HashOf(n) # NoHash /\ Len(HashOf(n)) = n
      /\ IsHash(HashOf(n)) /\ HashOf(n)[n] = chain[n]
  BY <1>1, <1>6, ChainFacts
<1>9. checkpoint' = [n |-> n, hash |-> HashOf(n)] /\ blocks' = [blocks EXCEPT ![n] = HashOf(n)]
  BY <1>2 DEF Apply
<1>10. /\ DOMAIN blocks' = Heights
       /\ \A m \in Heights : blocks'[m] = IF m = n THEN HashOf(n) ELSE blocks[m]
  BY <1>1, <1>9 DEF TypeOK
<1>11. QED
  BY <1>1, <1>4, <1>5, <1>6, <1>7, <1>8, <1>9, <1>10

\* A row after a write: the written block's, or as it was, since no row was of
\* that height.
LEMMA WrittenRows ==
  ASSUME IndexerInv, NEW n, Writes(n)
  PROVE  /\ DOMAIN rows' = Events
         /\ \A e \in Events : rows'[e] = IF e \in Written(n) THEN HashOf(n) ELSE rows[e]
<1>1. \A e \in Events : rows[e] # NoHash => Len(rows[e]) # n
  <2>1. SUFFICES ASSUME NEW e \in Events, rows[e] # NoHash PROVE Len(rows[e]) # n
    OBVIOUS
  <2>2. Len(rows[e]) \in Heights /\ blocks[Len(rows[e])] = rows[e]
    BY <2>1 DEF IndexerInv, DatabaseOK
  <2>3. Len(rows[e]) <= checkpoint.n
    BY <2>1, <2>2 DEF IndexerInv, DatabaseOK
  <2>4. checkpoint.n <= last /\ last < n /\ last \in Nat /\ n \in Nat /\ checkpoint.n \in Nat
    BY WriteFacts
  <2>5. Len(rows[e]) \in Nat
    BY <2>2, ChainFacts DEF IndexerInv
  <2>6. QED
    BY <2>3, <2>4, <2>5
<1>2. rows' = RowsApplied(n, HashOf(n), Written(n))
  BY DEF Writes, Apply
<1>3. QED
  BY <1>1, <1>2 DEF RowsApplied

LEMMA WriteType ==
  ASSUME IndexerInv, NEW n, Writes(n)
  PROVE  TypeOK'
<1>1. TypeOK /\ UNCHANGED <<network, fails, target>> /\ last' = n /\ lastHash' = HashOf(n)
  BY DEF IndexerInv, Writes
<1>2. n \in Nat /\ n \in Heights /\ IsHash(HashOf(n))
  BY WriteFacts
<1>3. /\ checkpoint' = [n |-> checkpoint'.n, hash |-> checkpoint'.hash]
      /\ checkpoint'.n \in 0..MaxHeight /\ IsHash(checkpoint'.hash)
  BY <1>2, WriteFacts DEF Heights
<1>4. DOMAIN blocks' = Heights /\ \A m \in Heights : IsHash(blocks'[m])
  BY <1>1, <1>2, WriteFacts DEF TypeOK
<1>5. DOMAIN rows' = Events /\ \A e \in Events : IsHash(rows'[e])
  BY <1>1, <1>2, WrittenRows DEF TypeOK
<1>6. /\ pc' \in {"batch", "apply"} /\ end' \in 0..MaxHeight /\ todo' \subseteq Heights
      /\ \A l \in logs' : l.event \in Events /\ IsHash(l.hash) /\ l.hash # NoHash
  BY <1>1, IndexerAssumption DEF Writes, Idle, TypeOK
<1>7. QED
  BY <1>1, <1>2, <1>3, <1>4, <1>5, <1>6 DEF TypeOK, network

\* The parent comparison: what was stored just below the written block is its
\* parent, except at the start block.
LEMMA WrittenParent ==
  ASSUME IndexerInv, NEW n, Writes(n), n \notin StartBlocks, StoredHash(n - 1) # NoHash
  PROVE  Parent(HashOf(n)) = StoredHash(n - 1)
<1>1. n - 1 \in Heights /\ blocks[n - 1] # NoHash
  BY DEF StoredHash
<1>2. n - 1 <= checkpoint.n
  BY <1>1 DEF IndexerInv, DatabaseOK
<1>3. n \in Nat /\ last \in Nat /\ checkpoint.n \in Nat /\ checkpoint.n <= last /\ last < n
  BY WriteFacts
<1>4. n = last + 1 /\ last = n - 1 /\ checkpoint.n = last
  BY <1>2, <1>3
<1>5. ResumesAtCheckpoint /\ checkpoint.hash = StoredHash(checkpoint.n)
  BY DEF IndexerInv, LocalsOK, Writes, DatabaseOK
<1>6. lastHash = StoredHash(last) /\ lastHash # NoHash
  BY <1>4, <1>5 DEF ResumesAtCheckpoint
<1>7. last > 0
  BY <1>1, <1>3, <1>4, IndexerAssumption DEF Heights
<1>8. Parent(HashOf(n)) = lastHash
  BY <1>4, <1>6, <1>7 DEF Writes, parentMismatch
<1>9. QED
  BY <1>4, <1>6, <1>8

LEMMA WriteDatabase ==
  ASSUME IndexerInv, NEW n, Writes(n)
  PROVE  DatabaseOK'
<1>1. /\ n \in Nat /\ n \in Heights /\ Len(HashOf(n)) = n /\ HashOf(n) # NoHash
      /\ checkpoint.n \in Nat /\ last \in Nat /\ checkpoint.n <= last /\ last < n
      /\ checkpoint'.n = n /\ checkpoint'.hash = HashOf(n)
      /\ \A m \in Heights : blocks'[m] = IF m = n THEN HashOf(n) ELSE blocks[m]
  BY WriteFacts
<1>2. DatabaseOK /\ Heights \subseteq Nat
  BY ChainFacts DEF IndexerInv
<1>3. \A m \in Int : StoredHash(m)' = IF m = n THEN HashOf(n) ELSE StoredHash(m)
  BY <1>1 DEF StoredHash
<1>4. checkpoint'.hash = StoredHash(checkpoint.n)'
  BY <1>1 DEF StoredHash
<1>5. ASSUME NEW m \in Heights, blocks'[m] # NoHash
      PROVE  /\ Len(blocks'[m]) = m /\ m <= checkpoint'.n
             /\ (m \notin StartBlocks /\ StoredHash(m - 1)' # NoHash
                   => Parent(blocks'[m]) = StoredHash(m - 1)')
  <2>1. CASE m = n
    <3>1. blocks'[m] = HashOf(n) /\ StoredHash(m - 1)' = StoredHash(n - 1)
      BY <1>1, <1>3, <2>1
    <3>2. QED
      BY <1>1, <2>1, <3>1, WrittenParent
  <2>2. CASE m # n
    <3>1. blocks'[m] = blocks[m] /\ m \in Nat
      BY <1>1, <1>2, <2>2
    <3>2. /\ Len(blocks[m]) = m /\ m <= checkpoint.n
          /\ (m \notin StartBlocks /\ StoredHash(m - 1) # NoHash
                => Parent(blocks[m]) = StoredHash(m - 1))
      BY <1>2, <1>5, <3>1 DEF DatabaseOK
    <3>3. StoredHash(m - 1)' = StoredHash(m - 1) /\ m <= checkpoint'.n
      BY <1>1, <1>3, <3>1, <3>2
    <3>4. QED
      BY <3>1, <3>2, <3>3
  <2>3. QED
    BY <2>1, <2>2
<1>6. ASSUME NEW e \in Events, rows'[e] # NoHash
      PROVE  /\ Len(rows'[e]) \in Heights /\ blocks'[Len(rows'[e])] = rows'[e]
             /\ e \in rows'[e][Len(rows'[e])].events
  <2>1. CASE e \in Written(n)
    <3>1. rows'[e] = HashOf(n)
      BY <2>1, WrittenRows
    <3>2. PICK l \in Mine(n) : e = l.event
      BY <2>1 DEF Written
    <3>3. l \in logs /\ Len(l.hash) = n /\ l.hash = HashOf(n)
      BY DEF Writes, Mine
    <3>4. LogsOK
      BY DEF IndexerInv, LocalsOK, InBatch, Writes
    <3>5. e \in HashOf(n)[n].events
      BY <3>2, <3>3, <3>4 DEF LogsOK
    <3>6. QED
      BY <1>1, <3>1, <3>5
  <2>2. CASE e \notin Written(n)
    <3>1. rows'[e] = rows[e]
      BY <2>2, WrittenRows
    <3>2. /\ Len(rows[e]) \in Heights /\ blocks[Len(rows[e])] = rows[e]
          /\ e \in rows[e][Len(rows[e])].events
      BY <1>2, <1>6, <3>1 DEF DatabaseOK
    <3>3. Len(rows[e]) <= checkpoint.n
      BY <1>2, <1>6, <3>1, <3>2 DEF DatabaseOK
    <3>4. Len(rows[e]) # n
      BY <1>1, <1>2, <3>2, <3>3
    <3>5. QED
      BY <1>1, <3>1, <3>2, <3>4
  <2>3. QED
    BY <2>1, <2>2
<1>7. QED
  BY <1>1, <1>4, <1>5, <1>6 DEF DatabaseOK

LEMMA WriteLocals ==
  ASSUME IndexerInv, NEW n, Writes(n)
  PROVE  LocalsOK'
<1>1. /\ n \in Nat /\ n \in todo /\ n \in (last + 1)..end /\ last \in Nat /\ last < n
      /\ HashOf(n) # NoHash /\ checkpoint'.n = n /\ checkpoint'.hash = HashOf(n)
      /\ \A y \in todo : n <= y
  BY WriteFacts
<1>2. /\ todo \subseteq (last + 1)..end /\ end <= target /\ LogsOK /\ end \in Nat
      /\ \A l \in logs : last < Len(l.hash) => Len(l.hash) \in todo
  BY ChainFacts DEF IndexerInv, LocalsOK, InBatch, Writes, TypeOK
<1>3. last' = n /\ lastHash' = HashOf(n) /\ target' = target
  BY DEF Writes
<1>4. ResumesAtCheckpoint'
  BY <1>1, <1>3 DEF ResumesAtCheckpoint
<1>5. CASE todo = {n}
  <2>1. pc' = "batch"
    BY <1>5 DEF Writes
  <2>2. QED
    BY <1>4, <2>1 DEF LocalsOK, InBatch
<1>6. CASE todo # {n}
  <2>1. pc' = "apply" /\ todo' = todo \ {n} /\ UNCHANGED <<end, logs>>
    BY <1>6 DEF Writes
  <2>2. \A y \in todo' : y \in (n + 1)..end
    BY <1>1, <1>2, <2>1
  <2>3. todo' # {}
    BY <1>1, <1>6, <2>1
  <2>4. n < end
    BY <1>1, <1>2, <2>2, <2>3
  <2>5. \A l \in logs' : last' < Len(l.hash) => Len(l.hash) \in todo'
    <3>1. SUFFICES ASSUME NEW l \in logs, n < Len(l.hash) PROVE Len(l.hash) \in todo \ {n}
      BY <1>3, <2>1
    <3>2. Len(l.hash) \in 1..end
      BY <1>2 DEF LogsOK
    <3>3. last < Len(l.hash) /\ Len(l.hash) # n
      BY <1>1, <3>1, <3>2
    <3>4. QED
      BY <1>2, <3>3
  <2>6. LogsOK'
    BY <1>2, <2>1 DEF LogsOK
  <2>7. todo' \subseteq (last' + 1)..end'
    BY <1>3, <2>1, <2>2
  <2>8. QED
    BY <1>2, <1>3, <1>4, <2>1, <2>3, <2>4, <2>5, <2>6, <2>7 DEF LocalsOK, InBatch
<1>7. QED
  BY <1>5, <1>6

LEMMA ApplyBlockStep ==
  ASSUME IndexerInv, ApplyBlock
  PROVE  IndexerInv'
<1>1. CASE Exit /\ UNCHANGED <<network, fails, database>>
  BY <1>1, ExitType, ExitLocals, SameDatabase DEF IndexerInv, TypeOK, Exit
<1>2. CASE Writes(Min(todo))
  BY <1>2, WriteType, WriteDatabase, WriteLocals DEF IndexerInv
<1>3. QED
  BY <1>1, <1>2, ApplyBlockCases

LEMMA IndexerStep == IndexerInv /\ [Next]_vars => IndexerInv'
<1> SUFFICES ASSUME IndexerInv, [Next]_vars PROVE IndexerInv'
  OBVIOUS
<1>1. CASE Grow
  BY <1>1, GrowType, SameDatabase, SameLocals DEF IndexerInv, Grow
<1>2. CASE Reorg
  BY <1>2, ReorgType, SameDatabase, SameLocals DEF IndexerInv, Reorg
<1>3. CASE Fail
  <2>1. fails' \in 0..MaxFails
    BY <1>3, IndexerAssumption DEF Fail, IndexerInv, TypeOK
  <2>2. QED
    BY <1>3, <2>1, ExitType, ExitLocals, SameDatabase DEF IndexerInv, Fail, Exit
<1>4. CASE Run
  BY <1>4, StartStep, ReadHeadStep, CheckLastStep, RecoverStep, QueryBatchStep,
     DiscoverLaunchesStep, ApplyBlockStep DEF Run
<1>5. CASE UNCHANGED vars
  BY <1>5, SameDatabase, SameLocals DEF IndexerInv, TypeOK, IsHash, vars, network, database, locals
<1>6. QED
  BY <1>1, <1>2, <1>3, <1>4, <1>5 DEF Next

LEMMA IndexerInductive == Spec => []IndexerInv
<1>1. Init => IndexerInv
  BY InitIndexer
<1>2. IndexerInv /\ [Next]_vars => IndexerInv'
  BY IndexerStep
<1>3. QED
  BY <1>1, <1>2, PTL DEF Spec

\* Everything keeps its type: no step of Run, the chain or recovery leaves the
\* height bounds or stores what is not a hash.
THEOREM IndexerTypeOK == Spec => []TypeOK
<1>1. IndexerInv => TypeOK
  BY DEF IndexerInv
<1>2. QED
  BY <1>1, IndexerInductive, PTL

\* Canonical rows are never torn: for reorgs of any depth at any moment,
\* failures anywhere and any values of INDEXER_START_BLOCK at successive starts,
\* an event is canonical only with the canonical block that holds it, and
\* stored neighbours are parent and child from each start block up.
THEOREM NeverTorn == Spec => []RowsNeverTorn
<1>1. ASSUME IndexerInv PROVE RowsNeverTorn
  <2>1. DatabaseOK /\ checkpoint.n \in 0..MaxHeight
    BY <1>1 DEF IndexerInv, TypeOK
  <2>2. checkpoint.hash # NoHash => blocks[checkpoint.n] = checkpoint.hash
    BY <2>1 DEF DatabaseOK, StoredHash
  <2>3. QED
    BY <2>1, <2>2 DEF DatabaseOK, RowsNeverTorn
<1>2. QED
  BY <1>1, IndexerInductive, PTL

-----------------------------------------------------------------------------
(* Exactness, for one value of INDEXER_START_BLOCK. *)

OneStartBlock == StartBlocks = {FirstBlock}

LEMMA FirstBlockIsNat == FirstBlock \in Nat
<1>1. StartBlocks \in SUBSET Nat /\ StartBlocks # {}
  BY IndexerAssumption
<1>2. QED
  BY <1>1, MinOf DEF FirstBlock

\* The checkpoint's hash is a chain as long as its height.
LEMMA CheckpointHash ==
  ASSUME TypeOK, DatabaseOK, checkpoint.hash # NoHash \/ checkpoint.n > 0
  PROVE  /\ checkpoint.hash \in Seq(Block) /\ Len(checkpoint.hash) = checkpoint.n
         /\ checkpoint.n \in Heights /\ blocks[checkpoint.n] = checkpoint.hash
         /\ checkpoint.hash # NoHash /\ checkpoint.n \in Nat /\ checkpoint.n > 0
<1>1. checkpoint.n \in Nat /\ checkpoint.hash = StoredHash(checkpoint.n)
  BY IndexerAssumption DEF TypeOK, DatabaseOK
<1>2. checkpoint.hash # NoHash
  BY DEF DatabaseOK
<1>3. checkpoint.n \in Heights /\ blocks[checkpoint.n] = checkpoint.hash
  BY <1>1, <1>2 DEF StoredHash
<1>4. Len(checkpoint.hash) = checkpoint.n
  BY <1>2, <1>3 DEF DatabaseOK
<1>5. checkpoint.hash \in Seq(Block)
  BY <1>2 DEF TypeOK, IsHash
<1>6. checkpoint.n > 0
  BY <1>1, <1>3 DEF Heights
<1>7. QED
  BY <1>1, <1>2, <1>3, <1>4, <1>5, <1>6

LEMMA InitExact == Init => ExactInv
<1> SUFFICES ASSUME Init PROVE ExactInv
  OBVIOUS
<1>1. chain = <<>> /\ Len(chain) = 0 /\ highest = 0 /\ target = 0
  BY DEF Init
<1>2. ChainOK
  BY <1>1 DEF ChainOK
<1>3. RowsPlaced /\ LogsPlaced /\ ResumesBeforeStart
  BY DEF Init, RowsPlaced, NoRows, LogsPlaced, InBatch, ResumesBeforeStart
<1>4. ExactForCheckpoint /\ BatchExact
  BY IndexerAssumption DEF Init, ExactForCheckpoint, BatchExact, Heights
<1>5. Confirmed
  BY <1>1, IndexerAssumption DEF Init, Confirmed, CheckpointOnChain
<1>6. QED
  BY <1>2, <1>3, <1>4, <1>5 DEF ExactInv

LEMMA SameExact ==
  ASSUME ExactForCheckpoint, UNCHANGED database
  PROVE  ExactForCheckpoint'
BY DEF ExactForCheckpoint, database

LEMMA ExitExact ==
  ASSUME ExactInv, Exit, UNCHANGED <<network, database>>
  PROVE  ExactInv'
<1>1. pc' = "start" /\ target' = 0
  BY DEF Exit
<1>2. UNCHANGED <<chain, highest, reorgs, deep, struck, checkpoint, blocks, rows>>
  BY DEF network, database
<1>3. ChainOK' /\ RowsPlaced'
  BY <1>2 DEF ExactInv, ChainOK, RowsPlaced
<1>4. LogsPlaced' /\ ResumesBeforeStart' /\ BatchExact'
  BY <1>1 DEF LogsPlaced, InBatch, ResumesBeforeStart, BatchExact
<1>5. Calm' => ExactForCheckpoint'
  BY <1>2, SameExact DEF ExactInv, Calm
<1>6. ~deep' => Confirmed'
  BY <1>1, <1>2 DEF ExactInv, Confirmed, CheckpointOnChain, OnChain
<1>7. QED
  BY <1>3, <1>4, <1>5, <1>6 DEF ExactInv

\* Steps outside a batch that change neither the chain nor the tables.
LEMMA QuietExact ==
  ASSUME ExactInv, UNCHANGED <<network, database>>, ~InBatch',
         ResumesBeforeStart', ~deep => (target' > 0 => target' <= highest - Confirmations)
  PROVE  ExactInv'
<1>2. UNCHANGED <<chain, highest, reorgs, deep, struck, checkpoint, blocks, rows>>
  BY DEF network, database
<1>3. ChainOK' /\ RowsPlaced'
  BY <1>2 DEF ExactInv, ChainOK, RowsPlaced
<1>4. LogsPlaced' /\ BatchExact'
  BY DEF LogsPlaced, InBatch, BatchExact
<1>5. Calm' => ExactForCheckpoint'
  BY <1>2, SameExact DEF ExactInv, Calm
<1>6. ~deep' => Confirmed'
  BY <1>2 DEF ExactInv, Confirmed, CheckpointOnChain, OnChain
<1>7. QED
  BY <1>3, <1>4, <1>5, <1>6 DEF ExactInv

LEMMA StartExact ==
  ASSUME OneStartBlock, IndexerInv, ExactInv, Start
  PROVE  ExactInv'
<1>1. PICK start \in StartBlocks :
        IF start > 0 /\ checkpoint.n < start
        THEN last' = start - 1 /\ lastHash' = NoHash
        ELSE last' = checkpoint.n /\ lastHash' = checkpoint.hash
  BY DEF Start
<1>2. start = FirstBlock
  BY DEF OneStartBlock
<1>3. pc' = "head" /\ target' = target /\ UNCHANGED <<network, database>>
  BY DEF Start
<1>4. checkpoint.hash = NoHash => checkpoint.n = 0
  BY DEF IndexerInv, DatabaseOK, TypeOK
<1>5. ResumesBeforeStart'
  BY <1>1, <1>2, <1>4 DEF ResumesBeforeStart
<1>6. ~InBatch'
  BY <1>3 DEF InBatch
<1>7. QED
  BY <1>3, <1>5, <1>6, QuietExact DEF ExactInv, Confirmed

LEMMA ReadHeadExact ==
  ASSUME IndexerInv, ExactInv, ReadHead
  PROVE  ExactInv'
<1>1. /\ pc = "head" /\ pc' \in {"check", "batch"} /\ target' = ConfirmedHead
      /\ UNCHANGED <<network, database, last, lastHash>>
  BY DEF ReadHead
<1>2. ResumesBeforeStart'
  BY <1>1 DEF ExactInv, ResumesBeforeStart
<1>3. target' > 0 => target' <= highest - Confirmations
  BY <1>1, ChainFacts, IndexerAssumption DEF IndexerInv, ConfirmedHead
<1>4. ~InBatch'
  BY <1>1 DEF InBatch
<1>5. QED
  BY <1>1, <1>2, <1>3, <1>4, QuietExact

LEMMA CheckLastExact ==
  ASSUME IndexerInv, ExactInv, CheckLast
  PROVE  ExactInv'
<1>1. CASE HasHeader(last)
  <2>1. pc = "check" /\ pc' \in {"batch", "recover"} /\ UNCHANGED <<network, database, locals>>
    BY <1>1 DEF CheckLast
  <2>2. ResumesBeforeStart' /\ ~InBatch'
    BY <2>1 DEF ExactInv, ResumesBeforeStart, InBatch, locals
  <2>3. QED
    BY <2>1, <2>2, QuietExact DEF locals, ExactInv, Confirmed
<1>2. CASE ~HasHeader(last)
  BY <1>2, ExitExact DEF CheckLast
<1>3. QED
  BY <1>1, <1>2

\* A rewind leaves the tables exact for the block it rewinds to.
LEMMA RewindExact ==
  ASSUME IndexerInv, ExactForCheckpoint, RowsPlaced, NEW from \in 1..(MaxHeight + 1),
         Rewind(from), from > 1 => StoredHash(from - 1) # NoHash
  PROVE  ExactForCheckpoint'
<1> DEFINE k == from - 1
           c == checkpoint.hash
           d == StoredHash(k)
<1>1. checkpoint'.n = k /\ checkpoint'.hash = d
  BY RewindDatabase DEF IndexerInv
<1>2. /\ TypeOK /\ DatabaseOK /\ MaxHeight \in Nat /\ k \in Nat /\ from \in Nat
      /\ Heights = 1..MaxHeight
  BY IndexerAssumption DEF IndexerInv, Heights
<1>3. /\ \A n \in Heights : blocks'[n] = IF n >= from THEN NoHash ELSE blocks[n]
      /\ \A e \in Events : rows'[e] = IF rows[e] # NoHash /\ Len(rows[e]) >= from
                                     THEN NoHash ELSE rows[e]
  BY DEF Rewind
<1> HIDE DEF k, c, d
<1>4. ASSUME NEW n \in Heights, FirstBlock <= n, n <= k
      PROVE  /\ SubSeq(d, 1, n) = SubSeq(c, 1, n) /\ d[n] = c[n]
             /\ c \in Seq(Block) /\ n \in 0..Len(c) /\ n <= checkpoint.n
  <2>1. k \in Heights /\ d = blocks[k] /\ d # NoHash /\ FirstBlock <= k
    <3>1. from > 1 /\ k > 0
      BY <1>2, <1>4 DEF k
    <3>2. d # NoHash
      BY <3>1 DEF d, k
    <3>3. k \in Heights /\ d = blocks[k]
      BY <3>2 DEF d, StoredHash
    <3>4. QED
      BY <1>2, <1>4, <3>2, <3>3, FirstBlockIsNat
  <2>2. k <= checkpoint.n /\ checkpoint.n \in Nat
    BY <1>2, <2>1 DEF DatabaseOK, TypeOK
  <2>3. c \in Seq(Block) /\ Len(c) = checkpoint.n
    BY <1>2, <2>1, <2>2, CheckpointHash DEF c
  <2>4. d = SubSeq(c, 1, k)
    BY <2>1 DEF ExactForCheckpoint, c
  <2>5. k \in 0..Len(c) /\ n \in 0..k /\ n \in 1..k /\ n \in 0..Len(c)
    BY <1>2, <1>4, <2>2, <2>3
  <2>6. SubSeq(d, 1, n) = SubSeq(c, 1, n)
    BY <2>3, <2>4, <2>5, PrefixOfPrefix
  <2>7. d[n] = c[n]
    BY <2>3, <2>4, <2>5, PrefixIsHash
  <2>8. n <= checkpoint.n
    BY <1>2, <1>4, <2>2
  <2>9. QED
    BY <2>3, <2>5, <2>6, <2>7, <2>8
<1>5. ASSUME NEW n \in Heights, FirstBlock <= n, blocks'[n] # NoHash
      PROVE  blocks'[n] = SubSeq(d, 1, n)
  <2>1. n <= k /\ blocks'[n] = blocks[n]
    BY <1>2, <1>3, <1>5 DEF k
  <2>2. blocks[n] = SubSeq(c, 1, n)
    BY <1>5, <2>1 DEF ExactForCheckpoint, c
  <2>3. QED
    BY <1>4, <1>5, <2>1, <2>2
<1>6. ASSUME NEW n \in Heights, FirstBlock <= n, n <= k, NEW e \in d[n].events
      PROVE  rows'[e] = SubSeq(d, 1, n)
  <2>1. /\ SubSeq(d, 1, n) = SubSeq(c, 1, n) /\ d[n] = c[n]
        /\ c \in Seq(Block) /\ n \in 0..Len(c) /\ n <= checkpoint.n
    BY <1>4, <1>6
  <2>2. rows[e] = SubSeq(c, 1, n)
    BY <1>6, <2>1 DEF ExactForCheckpoint, c
  <2>3. Len(rows[e]) = n
    BY <2>1, <2>2, PrefixIsHash
  <2>4. e \in Events
    <3>1. n \in 1..Len(c)
      BY <1>2, <2>1
    <3>2. c[n] \in Block
      BY <2>1, <3>1, ElementOfSeq
    <3>3. QED
      BY <1>6, <2>1, <3>2 DEF Block
  <2>5. ~(n >= from)
    BY <1>2, <1>6 DEF k
  <2>6. QED
    BY <1>3, <2>1, <2>2, <2>3, <2>4, <2>5
<1>7. QED
  BY <1>1, <1>5, <1>6 DEF ExactForCheckpoint

LEMMA RewoundExact ==
  ASSUME IndexerInv, ExactInv, NEW from \in 1..(MaxHeight + 1),
         Rewind(from), from > 1 => StoredHash(from - 1) # NoHash,
         from > 1 => OnChain(StoredHash(from - 1)),
         pc' = "batch", UNCHANGED <<network, target, last>>,
         lastHash' = NoHash => last = 0
  PROVE  ExactInv'
<1>1. checkpoint'.n = from - 1 /\ checkpoint'.hash = StoredHash(from - 1)
  BY RewindDatabase DEF IndexerInv
<1>2. UNCHANGED <<chain, highest, reorgs, deep, struck>> /\ from \in Nat
  BY IndexerAssumption DEF network
<1>3. ChainOK'
  BY <1>2 DEF ExactInv, ChainOK
<1>4. RowsPlaced'
  BY DEF ExactInv, RowsPlaced, Rewind
<1>5. LogsPlaced' /\ ResumesBeforeStart' /\ BatchExact'
  BY DEF LogsPlaced, InBatch, ResumesBeforeStart, BatchExact
<1>6. Calm' => ExactForCheckpoint'
  BY <1>2, RewindExact DEF Calm, ExactInv
<1>7. ASSUME ~deep' PROVE Confirmed'
  <2>1. Confirmed /\ checkpoint.n \in Nat /\ highest \in Nat /\ Confirmations \in Nat
    BY <1>2, <1>7, ChainFacts, IndexerAssumption DEF ExactInv, IndexerInv, TypeOK
  <2>2. checkpoint'.n > 0 => checkpoint'.n <= checkpoint.n
    <3>1. SUFFICES ASSUME from > 1 PROVE from - 1 <= checkpoint.n
      BY <1>1, <1>2
    <3>2. from - 1 \in Heights /\ blocks[from - 1] # NoHash
      BY <3>1 DEF StoredHash
    <3>3. QED
      BY <3>2 DEF IndexerInv, DatabaseOK
  <2>3. CheckpointOnChain'
    <3>1. CASE from > 1
      BY <1>1, <1>2, <3>1 DEF CheckpointOnChain, OnChain
    <3>2. CASE from = 1
      <4>1. StoredHash(from - 1) = NoHash
        BY <3>2 DEF StoredHash, Heights
      <4>2. QED
        BY <1>1, <4>1 DEF CheckpointOnChain
    <3>3. QED
      BY <1>2, <3>1, <3>2
  <2>4. checkpoint'.n > 0 => checkpoint'.n <= highest - Confirmations
    BY <1>1, <1>2, <2>1, <2>2 DEF Confirmed
  <2>5. QED
    BY <1>2, <2>1, <2>3, <2>4 DEF Confirmed
<1>8. QED
  BY <1>3, <1>4, <1>5, <1>6, <1>7 DEF ExactInv

\* A prefix of the chain, taken as a hash, is on the chain.
LEMMA HashIsOnChain ==
  ASSUME TypeOK, NEW n \in 0..Len(chain)
  PROVE  OnChain(HashOf(n))
<1>1. Len(HashOf(n)) = n /\ HashOf(n) \in Seq(Block) /\ Len(chain) \in Nat
  BY ChainFacts
<1>2. SubSeq(HashOf(n), 1, n) = HashOf(n)
  BY <1>1, FullPrefix
<1>3. QED
  BY <1>1, <1>2 DEF OnChain, IsPrefix, HashOf

LEMMA RecoverExact ==
  ASSUME IndexerInv, ExactInv, recover
  PROVE  ExactInv'
<1>0. UNCHANGED <<network, fails>> /\ TypeOK /\ pc = "recover" /\ last \in Nat
  BY DEF recover, IndexerInv, TypeOK
<1>1. CASE ~HasHeader(last) /\ Exit /\ UNCHANGED database
  BY <1>0, <1>1, ExitExact
<1>2. CASE /\ HasHeader(last) /\ StoredHash(last) = HashOf(last)
           /\ Rewind(last + 1) /\ lastHash' = HashOf(last)
           /\ pc' = "batch" /\ UNCHANGED <<last, target, end, logs, todo>>
  <2>1. last \in 0..Len(chain) /\ last + 1 \in 1..(MaxHeight + 1) /\ last + 1 - 1 = last
    BY <1>0, <1>2, ChainFacts DEF HasHeader
  <2>2. HashOf(last) # NoHash /\ OnChain(HashOf(last))
    BY <1>0, <2>1, ChainFacts, HashIsOnChain
  <2>3. QED
    BY <1>0, <1>2, <2>1, <2>2, RewoundExact
<1>3. CASE /\ last = 0 /\ Rewind(1) /\ lastHash' = NoHash /\ pc' = "batch"
           /\ UNCHANGED <<last, target, end, logs, todo>>
  <2>1. 1 \in 1..(MaxHeight + 1) /\ ~(1 > 1)
    BY IndexerAssumption
  <2>2. QED
    BY <1>0, <1>3, <2>1, RewoundExact
<1>4. CASE last' = last - 1 /\ UNCHANGED <<database, pc, target>>
  <2>1. ResumesBeforeStart' /\ ~InBatch'
    BY <1>0, <1>4 DEF ResumesBeforeStart, InBatch
  <2>2. QED
    BY <1>0, <1>4, <2>1, QuietExact DEF ExactInv, Confirmed
<1>5. QED
  BY <1>1, <1>2, <1>3, <1>4 DEF recover

-----------------------------------------------------------------------------
(* The chain moves. *)

\* The chain before and after a step agree up to a height that both reach.
Agree(k) ==
  /\ Len(chain') \in Nat /\ k <= Len(chain) /\ k <= Len(chain')
  /\ \A m \in 0..k : HashOf(m)' = HashOf(m)
  /\ \A m \in 1..k : chain'[m] = chain[m]

LEMMA GrowAgrees ==
  ASSUME TypeOK, Grow
  PROVE  Agree(Len(chain)) /\ Len(chain') = Len(chain) + 1
<1> PICK new \in SUBSET (Events \ Happened) :
      chain' = Append(chain, [events |-> new, era |-> reorgs])
  BY DEF Grow
<1>1. [events |-> new, era |-> reorgs] \in Block
  BY DEF Block, TypeOK
<1>2. chain \in Seq(Block) /\ Len(chain) \in Nat
  BY ChainFacts
<1>3. Len(chain') = Len(chain) + 1 /\ \A m \in 1..Len(chain) : chain'[m] = chain[m]
  BY <1>1, <1>2, AppendProperties
<1>4. \A m \in 0..Len(chain) : SubSeq(chain', 1, m) = SubSeq(chain, 1, m)
  BY <1>1, <1>2, AppendKeepsPrefix
<1>5. QED
  BY <1>2, <1>3, <1>4 DEF Agree, HashOf

LEMMA ReorgAgrees ==
  ASSUME TypeOK, Reorg
  PROVE  /\ Agree(Len(chain')) /\ Len(chain') \in Nat
         /\ ~deep' => ~deep /\ highest - Confirmations <= Len(chain')
<1> PICK n \in 0..(Len(chain) - 1) :
      chain' = SubSeq(chain, 1, n) /\ deep' = (deep \/ n < highest - Confirmations)
  BY DEF Reorg
<1>1. chain \in Seq(Block) /\ Len(chain) \in Nat /\ highest \in Nat /\ Confirmations \in Nat
  BY ChainFacts, IndexerAssumption
<1>2. n \in 0..Len(chain) /\ n \in Nat
  BY <1>1
<1>3. Len(chain') = n /\ \A m \in 1..n : chain'[m] = chain[m]
  BY <1>1, <1>2, PrefixIsHash
<1>4. \A m \in 0..n : SubSeq(chain', 1, m) = SubSeq(chain, 1, m)
  BY <1>1, <1>2, PrefixOfPrefix
<1>5. ~deep' => ~deep /\ highest - Confirmations <= n
  <2>1. ~deep' => ~deep /\ ~(n < highest - Confirmations)
    BY Zenon
  <2>2. ~(n < highest - Confirmations) => highest - Confirmations <= n
    BY <1>1, <1>2
  <2>3. QED
    BY <2>1, <2>2, Zenon
<1>6. QED
  BY <1>1, <1>2, <1>3, <1>4, <1>5 DEF Agree, HashOf

\* What was exact about a batch stays so while the chain keeps its heights.
LEMMA AgreeBatch ==
  ASSUME IndexerInv, BatchExact, NEW k \in Nat, InBatch => end <= k, Agree(k),
         UNCHANGED <<database, pc, locals>>
  PROVE  BatchExact'
<1>1. CASE ~InBatch
  BY <1>1 DEF BatchExact, InBatch
<1>2. CASE InBatch
  <2>1. last \in Nat /\ end \in Nat /\ last < end /\ end <= k
    BY <1>2, IndexerAssumption DEF IndexerInv, LocalsOK, TypeOK
  <2>2. UNCHANGED <<rows, pc, last, lastHash, end, logs, todo>>
    BY DEF database, locals
  <2>3. \A m \in 1..end : chain'[m] = chain[m] /\ HashOf(m)' = HashOf(m)
    BY <2>1 DEF Agree
  <2>4. HashOf(last)' = HashOf(last)
    BY <2>1, <2>2 DEF Agree, HashOf
  <2>5. \A m \in 1..end : HasHeader(m) /\ HasHeader(m)'
    BY <2>1, ChainFacts DEF Agree, HasHeader, IndexerInv
  <2>6. HasHeader(last) /\ HasHeader(last)'
    BY <2>1, <2>2, ChainFacts DEF Agree, HasHeader, IndexerInv
  <2>7. Linked' <=> Linked
    BY <2>2, <2>4, <2>6 DEF Linked
  <2>8. KnownEvents' = KnownEvents
    BY <2>2 DEF KnownEvents
  <2>9. \A m \in 1..end : \A e : Logged(e, m)' <=> Logged(e, m)
    BY <2>2, <2>3 DEF Logged
  <2>10. \A m \in (last + 1)..end : m \in 1..end
    BY <2>1
  <2>11. pc = "discover" =>
           \A m \in (last + 1)..end : \A e \in chain'[m].events \cap KnownEvents' : Logged(e, m)'
    BY <2>3, <2>5, <2>8, <2>9, <2>10 DEF BatchExact
  <2>12. pc = "apply" /\ Linked =>
           \A m \in (last + 1)..end : \A e \in chain'[m].events : Logged(e, m)'
    BY <2>3, <2>5, <2>9, <2>10 DEF BatchExact
  <2>13. pc = "apply" => last + 1 \in todo \/ Linked
    BY DEF BatchExact
  <2>14. QED
    BY <2>2, <2>7, <2>11, <2>12, <2>13 DEF BatchExact
<1>3. QED
  BY <1>1, <1>2

LEMMA AgreeCheckpoint ==
  ASSUME IndexerInv, CheckpointOnChain, NEW k \in Nat,
         checkpoint.n > 0 => checkpoint.n <= k, Agree(k), UNCHANGED database
  PROVE  CheckpointOnChain'
<1>1. CASE checkpoint.hash = NoHash
  BY <1>1 DEF CheckpointOnChain, database
<1>2. CASE checkpoint.hash # NoHash
  <2>1. Len(checkpoint.hash) = checkpoint.n /\ checkpoint.n \in Nat /\ checkpoint.n > 0
    BY <1>2, CheckpointHash DEF IndexerInv
  <2>2. checkpoint.n \in 0..k
    BY <2>1
  <2>3. SubSeq(chain', 1, checkpoint.n) = SubSeq(chain, 1, checkpoint.n)
    BY <2>2 DEF Agree, HashOf
  <2>4. SubSeq(checkpoint.hash, 1, checkpoint.n) = SubSeq(chain, 1, checkpoint.n)
    BY <1>2, <2>1 DEF CheckpointOnChain, OnChain, IsPrefix
  <2>5. checkpoint.n <= Len(chain')
    BY <2>1, <2>2 DEF Agree
  <2>6. checkpoint' = checkpoint
    BY DEF database
  <2>7. QED
    BY <2>1, <2>3, <2>4, <2>5, <2>6 DEF CheckpointOnChain, OnChain, IsPrefix
<1>3. QED
  BY <1>1, <1>2

LEMMA GrowChain ==
  ASSUME TypeOK, ChainOK, Grow
  PROVE  ChainOK'
<1> DEFINE len == Len(chain)
<1>1. PICK new \in SUBSET (Events \ Happened) :
        /\ new # {} => len + 1 >= FirstBlock /\ Launch \in Happened \cup new
        /\ chain' = Append(chain, [events |-> new, era |-> reorgs])
  BY DEF Grow, FirstBlock
<1>2. [events |-> new, era |-> reorgs] \in Block
  BY <1>1 DEF Block, TypeOK
<1>3. chain \in Seq(Block) /\ len \in Nat /\ FirstBlock \in Nat
  BY ChainFacts, FirstBlockIsNat
<1>4. /\ Len(chain') = len + 1 /\ \A m \in 1..len : chain'[m] = chain[m]
      /\ chain'[len + 1].events = new
  BY <1>1, <1>2, <1>3, AppendProperties
<1>5. \A m \in 1..len : chain[m].events \subseteq Happened
  BY Zenon DEF Happened
<1>6. \A e \in Happened : \E m \in 1..len : e \in chain[m].events
  BY Zenon DEF Happened
<1> HIDE DEF len
<1>7. ASSUME NEW m \in 1..(len + 1), NEW e \in chain'[m].events
      PROVE  FirstBlock <= m /\ \E k \in 1..m : Launch \in chain'[k].events
  <2>1. CASE m \in 1..len
    <3>1. e \in chain[m].events
      BY <1>4, <1>7, <2>1
    <3>2. FirstBlock <= m /\ \E k \in 1..m : Launch \in chain[k].events
      BY <2>1, <3>1 DEF ChainOK, len
    <3>3. \A k \in 1..m : k \in 1..len
      BY <1>3, <2>1
    <3>4. QED
      BY <1>4, <3>2, <3>3
  <2>2. CASE m = len + 1
    <3>1. e \in new
      BY <1>4, <1>7, <2>2
    <3>2. FirstBlock <= m /\ Launch \in Happened \cup new
      BY <1>1, <1>3, <2>2, <3>1
    <3>3. \A k \in 1..len : k \in 1..m
      BY <1>3, <2>2
    <3>4. m \in 1..m
      BY <1>3, <2>2
    <3>5. CASE Launch \in new
      BY <1>4, <2>2, <3>2, <3>4, <3>5
    <3>6. CASE Launch \in Happened
      BY <1>4, <1>6, <3>2, <3>3, <3>6
    <3>7. QED
      BY <3>2, <3>5, <3>6
  <2>3. QED
    BY <1>3, <2>1, <2>2
<1>8. ASSUME NEW m \in 1..(len + 1), NEW n \in 1..(len + 1),
             chain'[m].events \cap chain'[n].events # {}
      PROVE  m = n
  <2>1. \A i \in 1..len : new \cap chain[i].events = {}
    BY <1>5
  <2>2. CASE m \in 1..len /\ n \in 1..len
    BY <1>4, <1>8, <2>2 DEF ChainOK, len
  <2>3. CASE m = len + 1 /\ n \in 1..len
    BY <1>4, <1>8, <2>1, <2>3
  <2>4. CASE n = len + 1 /\ m \in 1..len
    BY <1>4, <1>8, <2>1, <2>4
  <2>5. QED
    BY <1>3, <2>2, <2>3, <2>4
<1>9. QED
  BY <1>4, <1>7, <1>8 DEF ChainOK

LEMMA GrowExact ==
  ASSUME IndexerInv, ExactInv, Grow
  PROVE  ExactInv'
<1>1. UNCHANGED <<deep, database, pc, locals>> /\ struck' = (struck \/ (InBatch /\ Len(chain) < end))
  BY DEF Grow
<1>2. Agree(Len(chain)) /\ Len(chain') = Len(chain) + 1
  BY GrowAgrees DEF IndexerInv
<1>3. /\ TypeOK /\ Len(chain) \in Nat /\ highest \in Nat /\ Confirmations \in Nat
      /\ target \in Nat /\ end \in Nat /\ last \in Nat /\ checkpoint.n \in Nat
  BY ChainFacts, IndexerAssumption DEF IndexerInv, TypeOK
<1>4. ChainOK'
  BY GrowChain DEF IndexerInv, ExactInv
<1>5. RowsPlaced' /\ LogsPlaced' /\ ResumesBeforeStart'
  BY <1>1 DEF ExactInv, RowsPlaced, LogsPlaced, InBatch, ResumesBeforeStart, database, locals
<1>6. ~deep => Confirmed
  BY DEF ExactInv
<1>7. ASSUME Calm' PROVE ExactForCheckpoint' /\ BatchExact'
  <2>1. Calm
    BY <1>1, <1>7, Zenon DEF Calm
  <2>2. ASSUME InBatch PROVE end <= Len(chain)
    <3>1. CASE ~struck'
      <4>1. ~(Len(chain) < end)
        BY <1>1, <2>2, <3>1, Zenon
      <4>2. QED
        BY <1>3, <4>1
    <3>2. CASE ~deep
      <4>1. last < end /\ end <= target
        BY <2>2 DEF IndexerInv, LocalsOK
      <4>2. target <= highest - Confirmations /\ Len(chain) >= highest - Confirmations
        BY <1>3, <1>6, <3>2, <4>1 DEF Confirmed
      <4>3. QED
        BY <1>3, <4>1, <4>2
    <3>3. QED
      BY <1>1, <1>7, <3>1, <3>2, Zenon DEF Calm
  <2>3. BatchExact'
    BY <1>1, <1>2, <1>3, <2>1, <2>2, AgreeBatch DEF ExactInv
  <2>4. QED
    BY <1>1, <2>1, <2>3, SameExact DEF ExactInv
<1>8. ASSUME ~deep' PROVE Confirmed'
  <2>1. Confirmed
    BY <1>1, <1>6, <1>8
  <2>2. highest' = IF highest >= Len(chain) + 1 THEN highest ELSE Len(chain) + 1
    BY <1>3, MaxOfTwo DEF Grow
  <2>3. target' = target /\ checkpoint' = checkpoint
    BY <1>1 DEF database, locals
  <2>4. checkpoint.n > 0 => checkpoint.n <= Len(chain)
    BY <1>3, <2>1 DEF Confirmed
  <2>5. CheckpointOnChain'
    BY <1>1, <1>2, <1>3, <2>1, <2>4, AgreeCheckpoint DEF Confirmed
  <2>6. Len(chain') >= highest' - Confirmations
    BY <1>2, <1>3, <2>1, <2>2 DEF Confirmed
  <2>7. target' > 0 => target' <= highest' - Confirmations
    BY <1>3, <2>1, <2>2, <2>3 DEF Confirmed
  <2>8. checkpoint'.n > 0 => checkpoint'.n <= highest' - Confirmations
    BY <1>3, <2>1, <2>2, <2>3 DEF Confirmed
  <2>9. QED
    BY <2>5, <2>6, <2>7, <2>8 DEF Confirmed
<1>9. QED
  BY <1>4, <1>5, <1>7, <1>8 DEF ExactInv

LEMMA ReorgExact ==
  ASSUME IndexerInv, ExactInv, Reorg
  PROVE  ExactInv'
<1>1. UNCHANGED <<highest, database, pc, locals>> /\ struck' = (struck \/ InBatch)
  BY DEF Reorg
<1>2. /\ Agree(Len(chain')) /\ Len(chain') \in Nat
      /\ ~deep' => ~deep /\ highest - Confirmations <= Len(chain')
  BY ReorgAgrees DEF IndexerInv
<1>3. /\ TypeOK /\ Len(chain) \in Nat /\ highest \in Nat /\ Confirmations \in Nat
      /\ target \in Nat /\ end \in Nat /\ last \in Nat /\ checkpoint.n \in Nat
  BY ChainFacts, IndexerAssumption DEF IndexerInv, TypeOK
<1>4. ChainOK'
  <2>1. /\ \A m \in 1..Len(chain') : m \in 1..Len(chain) /\ chain'[m] = chain[m]
        /\ \A m \in 1..Len(chain') : \A k \in 1..m : k \in 1..Len(chain')
    BY <1>2, <1>3 DEF Agree
  <2>2. ASSUME NEW m \in 1..Len(chain'), NEW e \in chain'[m].events
        PROVE  FirstBlock <= m /\ \E k \in 1..m : Launch \in chain'[k].events
    <3>1. FirstBlock <= m /\ \E k \in 1..m : Launch \in chain[k].events
      BY <2>1, <2>2 DEF ExactInv, ChainOK
    <3>2. QED
      BY <2>1, <3>1
  <2>3. \A m, n \in 1..Len(chain') : chain'[m].events \cap chain'[n].events # {} => m = n
    BY <2>1 DEF ExactInv, ChainOK
  <2>4. QED
    BY <2>2, <2>3 DEF ChainOK
<1>5. RowsPlaced' /\ LogsPlaced' /\ ResumesBeforeStart'
  BY <1>1 DEF ExactInv, RowsPlaced, LogsPlaced, InBatch, ResumesBeforeStart, database, locals
<1>6. ~deep => Confirmed
  BY DEF ExactInv
<1>7. ASSUME Calm' PROVE ExactForCheckpoint' /\ BatchExact'
  <2>1. Calm
    BY <1>1, <1>2, <1>7, Zenon DEF Calm
  <2>2. ASSUME InBatch PROVE end <= Len(chain')
    <3>1. ~deep' /\ ~deep
      BY <1>1, <1>2, <1>7, <2>2, Zenon DEF Calm
    <3>2. last < end /\ end <= target
      BY <2>2 DEF IndexerInv, LocalsOK
    <3>3. target <= highest - Confirmations
      BY <1>3, <1>6, <3>1, <3>2 DEF Confirmed
    <3>4. QED
      BY <1>2, <1>3, <3>1, <3>2, <3>3
  <2>3. BatchExact'
    BY <1>1, <1>2, <2>1, <2>2, AgreeBatch DEF ExactInv
  <2>4. QED
    BY <1>1, <2>1, <2>3, SameExact DEF ExactInv
<1>8. ASSUME ~deep' PROVE Confirmed'
  <2>1. Confirmed /\ highest - Confirmations <= Len(chain')
    BY <1>2, <1>6, <1>8
  <2>2. target' = target /\ checkpoint' = checkpoint /\ highest' = highest
    BY <1>1 DEF database, locals
  <2>3. checkpoint.n > 0 => checkpoint.n <= Len(chain')
    BY <1>2, <1>3, <2>1 DEF Confirmed
  <2>4. CheckpointOnChain'
    BY <1>1, <1>2, <1>3, <2>1, <2>3, AgreeCheckpoint DEF Confirmed
  <2>5. Len(chain') >= highest' - Confirmations
    BY <1>2, <1>3, <2>1, <2>2
  <2>6. QED
    BY <2>1, <2>2, <2>4, <2>5 DEF Confirmed
<1>9. QED
  BY <1>4, <1>5, <1>7, <1>8 DEF ExactInv

-----------------------------------------------------------------------------
(* A batch is queried, completed and written. *)

Resuming == pc \in {"batch", "discover", "apply"} /\ Linked /\ ExactForCheckpoint

\* Nothing from the start block on was stored before a start that knows no hash.
LEMMA ResumedHash ==
  ASSUME IndexerInv, ExactInv, Resuming, NEW k \in Nat, 0 < k, FirstBlock <= k, k <= last
  PROVE  /\ lastHash # NoHash /\ last = checkpoint.n /\ checkpoint.hash = HashOf(last)
         /\ last \in 0..Len(chain) /\ k \in 0..last /\ k \in Heights
<1>1. last \in Nat /\ FirstBlock \in Nat /\ ResumesAtCheckpoint /\ TypeOK
  BY FirstBlockIsNat DEF IndexerInv, LocalsOK, TypeOK, Resuming
<1>2. lastHash # NoHash
  <2>1. SUFFICES ASSUME lastHash = NoHash PROVE FALSE
    OBVIOUS
  <2>2. last = 0 \/ last = FirstBlock - 1
    BY <2>1 DEF ExactInv, ResumesBeforeStart, Resuming
  <2>3. QED
    BY <1>1, <2>2
<1>3. last = checkpoint.n /\ lastHash = checkpoint.hash /\ HasHeader(last) /\ lastHash = HashOf(last)
  BY <1>1, <1>2 DEF ResumesAtCheckpoint, Resuming, Linked
<1>4. last \in 0..Len(chain) /\ k \in 0..last /\ k \in Heights
  BY <1>1, <1>3, ChainFacts DEF HasHeader, Heights
<1>5. QED
  BY <1>2, <1>3, <1>4

\* What the chain holds up to the last block written has its row.
LEMMA StoredBelow ==
  ASSUME IndexerInv, ExactInv, Resuming, NEW k \in 1..Len(chain), k <= last,
         NEW e \in chain[k].events
  PROVE  rows[e] = HashOf(k)
<1>1. FirstBlock <= k
  BY DEF ExactInv, ChainOK
<1>2. k \in Nat /\ 0 < k /\ chain \in Seq(Block)
  BY ChainFacts DEF IndexerInv
<1>3. /\ last = checkpoint.n /\ checkpoint.hash = HashOf(last)
      /\ last \in 0..Len(chain) /\ k \in 0..last /\ k \in Heights /\ k \in 1..last
  BY <1>1, <1>2, ResumedHash
<1>4. checkpoint.hash[k] = chain[k]
  BY <1>3, ChainFacts DEF IndexerInv
<1>5. rows[e] = SubSeq(checkpoint.hash, 1, k)
  BY <1>1, <1>3, <1>4 DEF ExactForCheckpoint, Resuming
<1>6. SubSeq(checkpoint.hash, 1, k) = HashOf(k)
  BY <1>2, <1>3, PrefixOfPrefix DEF HashOf
<1>7. QED
  BY <1>5, <1>6

LEMMA QueryBatchExact ==
  ASSUME IndexerInv, ExactInv, QueryBatch
  PROVE  ExactInv'
<1>1. CASE last < target
  <2>1. /\ end' \in (last + 1)..target /\ end' \in 0..MaxHeight /\ last + 1 \in Nat \ {0}
        /\ logs' = FilterLogs(last + 1, end', KnownEvents) /\ pc' = "discover"
        /\ UNCHANGED <<network, fails, database, last, lastHash, target, todo>>
    BY <1>1, BatchRange
  <2>2. UNCHANGED <<chain, highest, reorgs, deep, struck, checkpoint, blocks, rows>> /\ pc = "batch"
    BY <2>1 DEF network, database, QueryBatch
  <2>3. ChainOK' /\ RowsPlaced' /\ ResumesBeforeStart'
    BY <2>1, <2>2 DEF ExactInv, ChainOK, RowsPlaced, ResumesBeforeStart
  <2>4. LogsPlaced'
    <3>1. SUFFICES ASSUME NEW l \in logs' PROVE FirstBlock <= Len(l.hash)
      BY DEF LogsPlaced
    <3>2. l \in FilterLogs(last + 1, end', KnownEvents) /\ end' \in Int /\ TypeOK
      BY <2>1 DEF IndexerInv
    <3>3. PICK n \in (last + 1)..end' :
            n \in 1..Len(chain) /\ l.event \in chain[n].events /\ Len(l.hash) = n
      BY <2>1, <3>2, FilteredLog, KnownAreEvents
    <3>4. QED
      BY <3>3 DEF ExactInv, ChainOK
  <2>5. BatchExact'
    <3>1. SUFFICES ASSUME NEW m \in (last + 1)..end', HasHeader(m),
                          NEW e \in chain[m].events \cap KnownEvents
                   PROVE  Logged(e, m)'
      BY <2>1, <2>2 DEF BatchExact, HasHeader, KnownEvents
    <3>2. last + 1 \in Int /\ end' \in Int
      BY <2>1
    <3>3. [event |-> e, hash |-> HashOf(m)] \in logs'
      BY <2>1, <3>1, <3>2, FilterComplete
    <3>4. HashOf(m)' = HashOf(m)
      BY <2>2 DEF HashOf
    <3>5. QED
      BY <3>3, <3>4 DEF Logged
  <2>6. Calm' => ExactForCheckpoint' /\ BatchExact'
    BY <2>1, <2>2, <2>5, SameExact DEF Calm, ExactInv
  <2>7. ~deep' => Confirmed'
    BY <2>1, <2>2 DEF ExactInv, Confirmed, CheckpointOnChain, OnChain
  <2>8. QED
    BY <2>3, <2>4, <2>6, <2>7 DEF ExactInv
<1>2. CASE ~(last < target)
  <2>1. pc = "batch" /\ pc' = "head" /\ UNCHANGED <<network, fails, database, locals>>
    BY <1>2 DEF QueryBatch
  <2>2. ResumesBeforeStart' /\ ~InBatch'
    BY <2>1 DEF ExactInv, ResumesBeforeStart, InBatch, locals
  <2>3. QED
    BY <2>1, <2>2, QuietExact DEF locals, ExactInv, Confirmed
<1>3. QED
  BY <1>1, <1>2

\* A batch is complete once its launches are followed: a curve's event is on
\* the chain after its launch, which is in the tables or in this batch.
LEMMA DiscoverLaunchesExact ==
  ASSUME IndexerInv, ExactInv, DiscoverLaunches
  PROVE  ExactInv'
<1>1. /\ logs' = logs \cup Discovered /\ pc = "discover" /\ pc' = "apply"
      /\ todo' = {last + 1, end} \cup {Len(l.hash) : l \in logs'}
      /\ UNCHANGED <<network, fails, database, last, lastHash, target, end>>
  BY DEF DiscoverLaunches
<1>2. UNCHANGED <<chain, highest, reorgs, deep, struck, checkpoint, blocks, rows>>
  BY <1>1 DEF network, database
<1>3. /\ TypeOK /\ LogsOK /\ last \in Nat /\ end \in Nat /\ Len(chain) \in Nat
      /\ ResumesAtCheckpoint
  BY <1>1, ChainFacts, IndexerAssumption DEF IndexerInv, TypeOK, LocalsOK, InBatch
<1>4. ChainOK' /\ RowsPlaced' /\ ResumesBeforeStart'
  BY <1>1, <1>2 DEF ExactInv, ChainOK, RowsPlaced, ResumesBeforeStart
<1>5. LogsPlaced'
  <2>1. SUFFICES ASSUME NEW l \in logs' PROVE FirstBlock <= Len(l.hash)
    BY DEF LogsPlaced
  <2>2. CASE l \in logs
    BY <1>1, <2>2 DEF ExactInv, LogsPlaced, InBatch
  <2>3. CASE l \in Discovered
    <3>1. PICK n \in 1..Len(chain) : l.event \in chain[n].events /\ Len(l.hash) = n
      BY <1>3, <2>3, DiscoveredLog
    <3>2. QED
      BY <3>1 DEF ExactInv, ChainOK
  <2>4. QED
    BY <1>1, <2>2, <2>3
<1>6. ASSUME Calm, Linked, NEW m \in (last + 1)..end, HasHeader(m), NEW e \in chain[m].events
      PROVE  Logged(e, m)'
  <2>1. HashOf(m)' = HashOf(m)
    BY <1>2 DEF HashOf
  <2>2. m \in 1..Len(chain)
    BY <1>3, <1>6 DEF HasHeader
  <2>3. e \in Events
    <3>1. chain[m] \in Block
      BY <1>3, <2>2, ChainFacts, ElementOfSeq
    <3>2. QED
      BY <1>6, <3>1 DEF Block
  <2>4. CASE e \in KnownEvents
    <3>1. Logged(e, m)
      BY <1>1, <1>6, <2>4 DEF ExactInv, BatchExact
    <3>2. QED
      BY <1>1, <2>1, <3>1 DEF Logged
  <2>5. CASE e \notin KnownEvents
    <3>1. rows[Launch] = NoHash /\ e \in CurveEvents
      BY <2>3, <2>5 DEF KnownEvents, Events
    <3>2. PICK k \in 1..m : Launch \in chain[k].events
      BY <1>6, <2>2 DEF ExactInv, ChainOK
    <3>3. k \in 1..Len(chain) /\ k \in 0..Len(chain) /\ k \in Nat
      BY <1>3, <2>2
    <3>4. ~(k <= last)
      <4>1. Resuming
        BY <1>1, <1>6 DEF Resuming, ExactInv
      <4>2. k <= last => rows[Launch] = HashOf(k)
        BY <3>2, <3>3, <4>1, StoredBelow
      <4>3. HashOf(k) # NoHash
        BY <1>3, <3>3, ChainFacts
      <4>4. QED
        BY <3>1, <4>2, <4>3
    <3>5. k \in (last + 1)..end /\ HasHeader(k) /\ Launch \in KnownEvents
      BY <1>3, <2>2, <3>3, <3>4 DEF HasHeader, KnownEvents, Events
    <3>6. Logged(Launch, k)
      BY <1>1, <1>6, <3>2, <3>5 DEF ExactInv, BatchExact
    <3>7. PICK l \in logs : l.event = Launch /\ l.hash = HashOf(k)
      BY <3>6 DEF Logged
    <3>8. Len(l.hash) = k
      BY <1>3, <3>3, <3>7, ChainFacts
    <3>9. m \in k..end /\ k \in Int /\ end \in Int
      BY <1>3, <2>2
    <3>10. [event |-> e, hash |-> HashOf(m)] \in FilterLogs(Len(l.hash), end, CurveEvents)
      BY <1>6, <3>1, <3>8, <3>9, FilterComplete
    <3>11. [event |-> e, hash |-> HashOf(m)] \in Discovered
      BY <3>7, <3>10 DEF Discovered
    <3>12. QED
      BY <1>1, <2>1, <3>11 DEF Logged
  <2>6. QED
    BY <2>4, <2>5
<1>7. Linked' <=> Linked
  BY <1>1, <1>2 DEF Linked, HasHeader, HashOf
<1>8. Calm' => BatchExact'
  BY <1>1, <1>2, <1>6, <1>7 DEF BatchExact, Calm, HasHeader
<1>9. Calm' => ExactForCheckpoint'
  BY <1>1, <1>2, SameExact DEF Calm, ExactInv
<1>10. ~deep' => Confirmed'
  BY <1>1, <1>2 DEF ExactInv, Confirmed, CheckpointOnChain, OnChain
<1>11. QED
  BY <1>4, <1>5, <1>8, <1>9, <1>10 DEF ExactInv

LEMMA WrittenEvents ==
  ASSUME IndexerInv, NEW n, Writes(n), NEW e \in Written(n)
  PROVE  e \in chain[n].events
<1>1. PICK l \in Mine(n) : e = l.event
  BY DEF Written
<1>2. l \in logs /\ Len(l.hash) = n /\ l.hash = HashOf(n)
  BY DEF Writes, Mine
<1>3. LogsOK
  BY DEF IndexerInv, LocalsOK, InBatch, Writes
<1>4. e \in HashOf(n)[n].events
  BY <1>1, <1>2, <1>3 DEF LogsOK
<1>5. QED
  BY <1>4, WriteFacts

\* The block written follows the last one on the chain.
LEMMA WriteLinked ==
  ASSUME IndexerInv, ExactInv, Calm, NEW n, Writes(n)
  PROVE  Linked
<1>1. pc = "apply" /\ ~parentMismatch(n)
  BY DEF Writes
<1>2. /\ n \in (last + 1)..end /\ n \in Nat /\ last \in Nat /\ \A y \in todo : n <= y
      /\ n \in 1..Len(chain)
  BY WriteFacts
<1>3. CASE Linked
  BY <1>3
<1>4. CASE last + 1 \in todo /\ lastHash # NoHash
  <2>1. n = last + 1 /\ n - 1 = last
    BY <1>2, <1>4
  <2>2. ResumesAtCheckpoint /\ TypeOK /\ DatabaseOK
    BY <1>1 DEF IndexerInv, LocalsOK
  <2>3. last > 0
    BY <1>4, <2>2, CheckpointHash DEF ResumesAtCheckpoint
  <2>4. Parent(HashOf(n)) = lastHash
    BY <1>1, <1>4, <2>1, <2>3 DEF parentMismatch
  <2>5. chain \in Seq(Block) /\ Len(chain) \in Nat
    BY <2>2, ChainFacts
  <2>6. Parent(HashOf(n)) = HashOf(last)
    BY <1>2, <2>1, <2>5, ParentOfPrefix DEF HashOf
  <2>7. HasHeader(last)
    BY <1>2, <2>1, <2>5 DEF HasHeader
  <2>8. QED
    BY <2>4, <2>6, <2>7 DEF Linked
<1>5. last + 1 \in todo \/ Linked
  BY <1>1 DEF ExactInv, BatchExact
<1>6. QED
  BY <1>3, <1>4, <1>5 DEF Linked

LEMMA WriteExactTables ==
  ASSUME IndexerInv, ExactInv, Calm, NEW n, Writes(n)
  PROVE  ExactForCheckpoint'
<1>1. /\ n \in (last + 1)..end /\ n \in Nat /\ last \in Nat /\ last < n
      /\ n \in 0..Len(chain) /\ n \in 1..Len(chain) /\ \A y \in todo : n <= y
      /\ checkpoint.n \in Nat /\ checkpoint.n <= last
      /\ HashOf(n) \in Seq(Block) /\ Len(HashOf(n)) = n
      /\ checkpoint'.n = n /\ checkpoint'.hash = HashOf(n)
      /\ \A m \in Heights : blocks'[m] = IF m = n THEN HashOf(n) ELSE blocks[m]
  BY WriteFacts
<1>2. /\ TypeOK /\ DatabaseOK /\ chain \in Seq(Block) /\ Len(chain) \in Nat /\ end \in Nat
      /\ Heights \subseteq Nat /\ MaxHeight \in Nat
      /\ \A m \in 0..Len(chain) : Len(HashOf(m)) = m
  BY ChainFacts DEF IndexerInv, TypeOK
<1>3. Linked /\ Resuming /\ ExactForCheckpoint
  BY WriteLinked DEF Resuming, Writes, ExactInv
<1>4. \A m \in 0..n : SubSeq(HashOf(n), 1, m) = HashOf(m)
  BY <1>1, <1>2, PrefixOfPrefix DEF HashOf
<1>5. ASSUME NEW m \in Heights, FirstBlock <= m, blocks'[m] # NoHash
      PROVE  blocks'[m] = SubSeq(HashOf(n), 1, m)
  <2>1. CASE m = n
    BY <1>1, <1>4, <2>1
  <2>2. CASE m # n
    <3>1. blocks'[m] = blocks[m] /\ m \in Nat /\ 0 < m
      BY <1>1, <1>2, <2>2 DEF Heights
    <3>2. m <= checkpoint.n /\ m <= last
      BY <1>1, <1>2, <1>5, <3>1 DEF DatabaseOK
    <3>3. checkpoint.hash = HashOf(last) /\ last \in 0..Len(chain) /\ m \in 0..last
      BY <1>3, <1>5, <3>1, <3>2, ResumedHash
    <3>4. blocks[m] = SubSeq(HashOf(last), 1, m)
      BY <1>3, <1>5, <3>1, <3>3 DEF ExactForCheckpoint
    <3>5. blocks[m] = HashOf(m)
      BY <1>2, <3>3, <3>4, PrefixOfPrefix DEF HashOf
    <3>6. QED
      BY <1>1, <1>4, <3>1, <3>2, <3>5
  <2>3. QED
    BY <2>1, <2>2
<1>6. ASSUME NEW m \in Heights, FirstBlock <= m, m <= n, NEW e \in HashOf(n)[m].events
      PROVE  rows'[e] = SubSeq(HashOf(n), 1, m)
  <2>1. m \in 1..n /\ m \in 0..n /\ m \in 1..Len(chain) /\ m \in 0..Len(chain) /\ m \in Nat
    BY <1>1, <1>2, <1>6 DEF Heights
  <2>2. e \in chain[m].events
    BY <1>1, <1>2, <1>6, <2>1, ChainFacts
  <2>3. SubSeq(HashOf(n), 1, m) = HashOf(m)
    BY <1>4, <2>1
  <2>4. e \in Events
    <3>1. chain[m] \in Block
      BY <1>2, <2>1, ElementOfSeq
    <3>2. QED
      BY <2>2, <3>1 DEF Block
  <2>6. ASSUME last < m
        PROVE  Logged(e, m)
    <3>1. m \in (last + 1)..end /\ HasHeader(m)
      BY <1>1, <1>2, <2>1, <2>6 DEF HasHeader
    <3>2. QED
      BY <1>3, <2>2, <3>1 DEF ExactInv, BatchExact, Writes
  <2>7. CASE m = n
    <3>1. PICK l \in logs : l.event = e /\ l.hash = HashOf(n)
      BY <1>1, <2>6, <2>7 DEF Logged
    <3>2. l \in Mine(n)
      BY <1>1, <3>1 DEF Mine
    <3>3. e \in Written(n)
      BY <3>1, <3>2 DEF Written
    <3>4. QED
      BY <2>3, <2>4, <2>7, <3>3, WrittenRows
  <2>8. CASE m # n
    <3>1. e \notin Written(n)
      BY <1>1, <2>1, <2>2, <2>8, WrittenEvents DEF ExactInv, ChainOK
    <3>2. rows'[e] = rows[e]
      BY <2>4, <3>1, WrittenRows
    <3>3. m <= last
      <4>1. SUFFICES ASSUME last < m PROVE FALSE
        BY <1>1, <2>1
      <4>2. PICK l \in logs : l.event = e /\ l.hash = HashOf(m)
        BY <2>6, <4>1 DEF Logged
      <4>3. Len(l.hash) = m
        BY <1>2, <2>1, <4>2
      <4>4. m \in todo
        BY <4>1, <4>2, <4>3 DEF IndexerInv, LocalsOK, Writes
      <4>5. QED
        BY <1>1, <1>6, <2>1, <2>8, <4>4
    <3>4. rows[e] = HashOf(m)
      BY <1>3, <2>1, <2>2, <3>3, StoredBelow
    <3>5. QED
      BY <2>3, <3>2, <3>4
  <2>9. QED
    BY <2>7, <2>8
<1>7. QED
  BY <1>1, <1>5, <1>6 DEF ExactForCheckpoint

LEMMA WriteExact ==
  ASSUME IndexerInv, ExactInv, NEW n, Writes(n)
  PROVE  ExactInv'
<1>1. /\ n \in (last + 1)..end /\ n \in Nat /\ last \in Nat /\ last < n
      /\ n \in 0..Len(chain) /\ n \in 1..Len(chain)
      /\ HashOf(n) # NoHash /\ Len(HashOf(n)) = n
      /\ checkpoint'.n = n /\ checkpoint'.hash = HashOf(n)
  BY WriteFacts
<1>2. /\ UNCHANGED <<chain, highest, reorgs, deep, struck, target>>
      /\ last' = n /\ lastHash' = HashOf(n) /\ pc = "apply"
  BY DEF Writes, network
<1>3. TypeOK /\ end \in Nat /\ target \in Nat /\ end <= target /\ Len(chain) \in Nat
  BY <1>2, ChainFacts DEF IndexerInv, TypeOK, LocalsOK, InBatch
<1>4. ChainOK'
  BY <1>2 DEF ExactInv, ChainOK
<1>5. RowsPlaced'
  <2>1. SUFFICES ASSUME NEW e \in Events, rows'[e] # NoHash PROVE FirstBlock <= Len(rows'[e])
    BY DEF RowsPlaced
  <2>2. CASE e \in Written(n)
    <3>1. FirstBlock <= n
      BY <1>1, <2>2, WrittenEvents DEF ExactInv, ChainOK
    <3>2. QED
      BY <1>1, <2>2, <3>1, WrittenRows
  <2>3. CASE e \notin Written(n)
    BY <2>1, <2>3, WrittenRows DEF ExactInv, RowsPlaced
  <2>4. QED
    BY <2>2, <2>3
<1>6. ResumesBeforeStart'
  BY <1>1, <1>2 DEF ResumesBeforeStart
<1>7. LogsPlaced'
  <2>1. CASE todo = {n}
    BY <2>1 DEF Writes, LogsPlaced, InBatch
  <2>2. CASE todo # {n}
    BY <2>2 DEF Writes, LogsPlaced, InBatch, ExactInv
  <2>3. QED
    BY <2>1, <2>2
<1>8. ASSUME Calm' PROVE ExactForCheckpoint' /\ BatchExact'
  <2>1. Calm
    BY <1>2, <1>8 DEF Calm
  <2>2. CASE todo = {n}
    BY <2>1, <2>2, WriteExactTables DEF Writes, BatchExact
  <2>3. CASE todo # {n}
    <3>1. pc' = "apply" /\ UNCHANGED <<end, logs>>
      BY <2>3 DEF Writes
    <3>2. Linked'
      BY <1>1, <1>2 DEF Linked, HasHeader, HashOf
    <3>3. ASSUME NEW m \in (n + 1)..end, HasHeader(m), NEW e \in chain[m].events
          PROVE  Logged(e, m)'
      <4>1. m \in (last + 1)..end
        BY <1>1, <1>3
      <4>2. Logged(e, m)
        BY <1>2, <2>1, <3>3, <4>1, WriteLinked DEF ExactInv, BatchExact
      <4>3. HashOf(m)' = HashOf(m)
        BY <1>2 DEF HashOf
      <4>4. QED
        BY <3>1, <4>2, <4>3 DEF Logged
    <3>4. BatchExact'
      BY <1>2, <3>1, <3>2, <3>3 DEF BatchExact, HasHeader
    <3>5. QED
      BY <2>1, <3>4, WriteExactTables
  <2>4. QED
    BY <2>2, <2>3
<1>9. ASSUME ~deep' PROVE Confirmed'
  <2>1. Confirmed
    BY <1>2, <1>9 DEF ExactInv
  <2>2. highest \in Nat /\ Confirmations \in Nat
    BY <1>3, ChainFacts, IndexerAssumption
  <2>3. target > 0 /\ n <= target
    BY <1>1, <1>3
  <2>4. checkpoint'.n <= highest - Confirmations
    BY <1>1, <1>3, <2>1, <2>2, <2>3 DEF Confirmed
  <2>5. OnChain(HashOf(n))
    BY <1>1, <1>3, HashIsOnChain
  <2>6. CheckpointOnChain'
    BY <1>1, <1>2, <2>5 DEF CheckpointOnChain, OnChain
  <2>7. QED
    BY <1>2, <2>1, <2>4, <2>6 DEF Confirmed
<1>10. QED
  BY <1>4, <1>5, <1>6, <1>7, <1>8, <1>9 DEF ExactInv

LEMMA ExactStep ==
  ASSUME OneStartBlock
  PROVE  IndexerInv /\ ExactInv /\ [Next]_vars => ExactInv'
<1> SUFFICES ASSUME IndexerInv, ExactInv, [Next]_vars PROVE ExactInv'
  OBVIOUS
<1>1. CASE Grow
  BY <1>1, GrowExact
<1>2. CASE Reorg
  BY <1>2, ReorgExact
<1>3. CASE Fail
  BY <1>3, ExitExact DEF Fail
<1>4. CASE Start
  BY <1>4, StartExact
<1>5. CASE ReadHead \/ CheckLast \/ recover \/ QueryBatch \/ DiscoverLaunches
  BY <1>5, ReadHeadExact, CheckLastExact, RecoverExact, QueryBatchExact, DiscoverLaunchesExact
<1>6. CASE ApplyBlock
  <2>1. CASE Exit /\ UNCHANGED <<network, fails, database>>
    BY <2>1, ExitExact
  <2>2. CASE Writes(Min(todo))
    BY <2>2, WriteExact
  <2>3. QED
    BY <1>6, <2>1, <2>2, ApplyBlockCases
<1>7. CASE UNCHANGED vars
  BY <1>7 DEF vars, network, database, locals, ExactInv, ChainOK, RowsPlaced, LogsPlaced,
     InBatch, ResumesBeforeStart, Calm, ExactForCheckpoint, BatchExact, Linked, HasHeader,
     HashOf, Logged, KnownEvents, Confirmed, CheckpointOnChain, OnChain
<1>8. QED
  BY <1>1, <1>2, <1>3, <1>4, <1>5, <1>6, <1>7 DEF Next, Run

LEMMA ExactInductive ==
  ASSUME OneStartBlock
  PROVE  Spec => [](IndexerInv /\ ExactInv)
<1>1. Init => IndexerInv /\ ExactInv
  BY InitIndexer, InitExact
<1>2. IndexerInv /\ ExactInv /\ [Next]_vars => (IndexerInv /\ ExactInv)'
  BY IndexerStep, ExactStep
<1>3. QED
  BY <1>1, <1>2, PTL DEF Spec

LEMMA ExactFromInv ==
  ASSUME IndexerInv, ExactInv, Calm, CheckpointOnChain
  PROVE  Exact
<1> DEFINE c == checkpoint.hash
<1>1. /\ TypeOK /\ DatabaseOK /\ ExactForCheckpoint /\ RowsPlaced
      /\ chain \in Seq(Block) /\ Len(chain) \in Nat /\ Heights \subseteq Nat
  BY ChainFacts DEF IndexerInv, ExactInv
<1>2. ASSUME NEW n \in Heights, n <= checkpoint.n
      PROVE  /\ n \in 1..Len(chain) /\ n \in 0..Len(chain)
             /\ SubSeq(c, 1, n) = HashOf(n) /\ c[n] = chain[n]
  <2>1. n \in Nat /\ 0 < n /\ checkpoint.n \in Nat
    BY <1>1, IndexerAssumption DEF Heights, TypeOK
  <2>2. c \in Seq(Block) /\ Len(c) = checkpoint.n /\ c # NoHash
    BY <1>1, <1>2, <2>1, CheckpointHash
  <2>3. Len(c) <= Len(chain) /\ c = HashOf(Len(c))
    <3>1. IsPrefix(c, chain)
      BY <2>2 DEF CheckpointOnChain, OnChain
    <3>2. SubSeq(c, 1, Len(c)) = c
      BY <2>2, FullPrefix
    <3>3. QED
      BY <3>1, <3>2 DEF IsPrefix, HashOf
  <2>4. Len(c) \in 0..Len(chain) /\ n \in 0..Len(c) /\ n \in 1..Len(c)
    BY <1>1, <1>2, <2>1, <2>2, <2>3
  <2>5. n \in 1..Len(chain) /\ n \in 0..Len(chain)
    BY <1>1, <2>4
  <2>6. SubSeq(c, 1, n) = HashOf(n)
    BY <1>1, <2>3, <2>4, PrefixOfPrefix DEF HashOf
  <2>7. c[n] = chain[n]
    BY <1>1, <2>3, <2>4, ChainFacts
  <2>8. QED
    BY <2>5, <2>6, <2>7
<1> HIDE DEF c
<1>3. ASSUME NEW n \in Heights, FirstBlock <= n, blocks[n] # NoHash
      PROVE  blocks[n] = HashOf(n) /\ n \in 1..Len(chain) /\ OnChain(blocks[n])
  <2>1. n <= checkpoint.n /\ blocks[n] = SubSeq(c, 1, n)
    BY <1>1, <1>3 DEF DatabaseOK, ExactForCheckpoint, c
  <2>2. blocks[n] = HashOf(n) /\ n \in 1..Len(chain) /\ n \in 0..Len(chain)
    BY <1>2, <2>1
  <2>3. QED
    BY <1>1, <2>2, HashIsOnChain
<1>4. ASSUME NEW e \in Events, rows[e] # NoHash
      PROVE  OnChain(rows[e]) /\ e \in chain[Len(rows[e])].events
  <2>1. /\ Len(rows[e]) \in Heights /\ blocks[Len(rows[e])] = rows[e]
        /\ e \in rows[e][Len(rows[e])].events /\ FirstBlock <= Len(rows[e])
    BY <1>1, <1>4 DEF DatabaseOK, RowsPlaced
  <2>2. /\ rows[e] = HashOf(Len(rows[e])) /\ Len(rows[e]) \in 1..Len(chain)
        /\ OnChain(rows[e])
    BY <1>3, <1>4, <2>1
  <2>3. Len(rows[e]) \in 0..Len(chain) /\ Len(rows[e]) \in 1..Len(rows[e])
    BY <1>1, <2>2
  <2>4. rows[e][Len(rows[e])] = chain[Len(rows[e])]
    BY <1>1, <2>2, <2>3, ChainFacts
  <2>5. QED
    BY <2>1, <2>2, <2>4
<1>5. ASSUME NEW e \in Events, NEW n \in Heights, FirstBlock <= n, n <= checkpoint.n,
             e \in chain[n].events
      PROVE  rows[e] = HashOf(n)
  BY <1>1, <1>2, <1>5 DEF ExactForCheckpoint, c
<1>6. QED
  BY <1>3, <1>4, <1>5 DEF Exact, FirstBlock

\* As long as no block deeper than the confirmations is replaced, the tables
\* are exact at every moment: the checkpoint is on the present chain, and every
\* event from the start block to the checkpoint has the one row it should.
\* For any batch size, confirmations, events and chain, with failures anywhere,
\* when every start has the same INDEXER_START_BLOCK.
THEOREM ExactUnlessDeep ==
  ASSUME OneStartBlock
  PROVE  Spec => []AlwaysExact
<1>1. IndexerInv /\ ExactInv => AlwaysExact
  BY ExactFromInv DEF AlwaysExact, Calm, ExactInv, Confirmed
<1>2. QED
  BY <1>1, ExactInductive, PTL

\* For reorgs of any depth: unless one moved the chain at a running batch's own
\* heights, whenever the checkpoint is on the present chain the tables are exact.
THEOREM ExactWhenOnChain ==
  ASSUME OneStartBlock
  PROVE  Spec => []ExactAtCheckpoint
<1>1. IndexerInv /\ ExactInv => ExactAtCheckpoint
  BY ExactFromInv DEF ExactAtCheckpoint, Calm
<1>2. QED
  BY <1>1, ExactInductive, PTL
=============================================================================
