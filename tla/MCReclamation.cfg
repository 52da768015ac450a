\* Two threads inside RunOnce at once, fair like every library call; one
\* transaction, whose caller may keep it for ever, and direct writers.
CONSTANTS
  Key = {k1}
  Value = {v1}
  Tombstone = Tombstone
  MaxVersion = 3
  kNumShards = 2
  MaxTxns = 1
  UInt64Max = 99
  Scanner = {g1, g2}
  DirectBatch = {}
SPECIFICATION FairSpec
INVARIANT StatsConserved
PROPERTIES ImplementsStore EventuallyTrimmed
CHECK_DEADLOCK FALSE
