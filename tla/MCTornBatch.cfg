\* Two transactions over two keys, one collector thread.
CONSTANTS
  Key = {k1, k2}
  Value = {v1}
  Tombstone = Tombstone
  MaxVersion = 3
  kNumShards = 1
  MaxTxns = 2
  UInt64Max = 99
  Scanner = {g1}
  DirectBatch = {}
SPECIFICATION FailSpec
SYMMETRY FailSymmetry
INVARIANT AllOrNothing
CHECK_DEADLOCK FALSE
