\* Two transactions over two keys, one collector thread.
CONSTANTS
  Key = {k1, k2}
  Value = {v1}
  Tombstone = Tombstone
  MaxVersion = 2
  kNumShards = 1
  MaxTxns = 2
  UInt64Max = 99
  Scanner = {g1}
  DirectBatch = {}
SPECIFICATION FailSpec
SYMMETRY FailSymmetry
INVARIANTS RetryNeverDoubles SnapshotStable FirstCommitterWins BatchesAccountedFor ObservationsAsAsked
PROPERTY ReadsChangeOnlyByFailedPut
CHECK_DEADLOCK FALSE
