\* The smallest bounds at which one deep reorg falls inside a batch.
SPECIFICATION Spec
CONSTANTS
  Launch = launch
  CurveEvents = {trade}
  NoHash = nohash
  Confirmations = 1
  BatchSize = 3
  StartBlocks = {1}
  ReorgDepth = 4
  MaxHeight = 4
  MaxReorgs = 1
  MaxFails = 0
INVARIANTS
  NoMixedState
