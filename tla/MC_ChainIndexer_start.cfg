\* INDEXER_START_BLOCK raised from 1 to 4 between two starts, with no reorg.
SPECIFICATION Spec
CONSTANTS
  Launch = launch
  CurveEvents = {trade}
  NoHash = nohash
  Confirmations = 1
  BatchSize = 2
  StartBlocks = {1, 4}
  ReorgDepth = 1
  MaxHeight = 5
  MaxReorgs = 0
  MaxFails = 1
PROPERTIES
  StartKeepsCheckpoint
