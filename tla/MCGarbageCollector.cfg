\* Two transactions, one key, one collector thread, direct writers.
CONSTANTS
  Key = {k1}
  Value = {v1}
  Tombstone = Tombstone
  MaxVersion = 3
  kNumShards = 2
  MaxTxns = 2
  UInt64Max = 99
  Scanner = {g1}
  DirectBatch = {}
SPECIFICATION SysSpec
INVARIANTS SnapshotStable FirstCommitterWins ObservationsMatchSI
PROPERTIES ImplementsSIUnlessExposed RepeatableReads
CHECK_DEADLOCK FALSE
