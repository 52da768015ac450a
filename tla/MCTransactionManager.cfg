\* Two shards, three transactions (two of them share a shard), one scanner.
CONSTANTS
  kNumShards = 2
  MaxTxns = 3
  MaxVersion = 3
  UInt64Max = 99
  Scanner = {g1}
SPECIFICATION Spec
INVARIANTS TypeOK RegistryExact BoundaryNotAhead BoundarySafe HorizonSafe
CHECK_DEADLOCK FALSE
