\* Reorgs above and below the confirmations, between batches and inside them, with
\* a failure or restart anywhere.
SPECIFICATION FairSpec
CONSTANTS
  Launch = launch
  CurveEvents = {trade}
  NoHash = nohash
  Confirmations = 2
  BatchSize = 3
  StartBlocks = {1}
  ReorgDepth = 4
  MaxHeight = 5
  MaxReorgs = 2
  MaxFails = 1
INVARIANTS
  TypeOK RowsNeverTorn AlwaysExact ExactAtCheckpoint
PROPERTIES
  CatchesUp
