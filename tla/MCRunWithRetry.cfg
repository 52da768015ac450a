\* Two callers, up to two attempts per call, four attempts altogether.
CONSTANTS
  Key = {k1}
  Value = {1, 2, 3, 4}
  Tombstone = Tombstone
  MaxVersion = 4
  kNumShards = 2
  MaxTxns = 4
  UInt64Max = 99
  Scanner = {}
  DirectBatch = {}
  Caller = {a, b}
  MaxAttempts = 2
SPECIFICATION RetrySpec
SYMMETRY CallerSymmetry
INVARIANTS EffectAtMostOnce EveryIncrementCounts ConflictMeansProgress NothingLeftRegistered
CHECK_DEADLOCK FALSE
