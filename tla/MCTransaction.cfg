\* Two transactions over two keys, with direct writers beside them.
CONSTANTS
  Key = {k1, k2}
  Value = {v1}
  Tombstone = Tombstone
  MaxVersion = 3
  kNumShards = 2
  MaxTxns = 2
  UInt64Max = 99
  Scanner = {g1}
  DirectBatch <- WholeBatches
SYMMETRY DataSymmetry
SPECIFICATION TxnSpec
INVARIANTS ObservationsMatchSI CommitsInLog
PROPERTY ImplementsSI
CHECK_DEADLOCK FALSE
