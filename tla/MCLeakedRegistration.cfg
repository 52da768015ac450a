\* Two transactions, a fair collector.
CONSTANTS
  Key = {k1}
  Value = {v1}
  Tombstone = Tombstone
  MaxVersion = 2
  kNumShards = 1
  MaxTxns = 2
  UInt64Max = 99
  Scanner = {g1}
  DirectBatch = {}
SPECIFICATION FailFairSpec
PROPERTY EventuallyTrimmed
CHECK_DEADLOCK FALSE
