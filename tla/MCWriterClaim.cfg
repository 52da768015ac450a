\* First committer wins as documented, without the exception for blind spots.
CONSTANTS
  Key = {k1}
  Value = {v1}
  Tombstone = Tombstone
  MaxVersion = 3
  kNumShards = 2
  MaxTxns = 2
  UInt64Max = 99
  Scanner = {g1}
  DirectBatch = {}
SPECIFICATION SysSpec
INVARIANT FirstCommitterAlwaysWins
CHECK_DEADLOCK FALSE
