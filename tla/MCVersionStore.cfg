\* Two keys, two values, every sequence of up to four batches, every boundary.
CONSTANTS
  Key = {k1, k2}
  Value = {v1, v2}
  Tombstone = Tombstone
  MaxVersion = 4
SYMMETRY StoreSymmetry
SPECIFICATION Spec
INVARIANTS TypeOK HistoriesIncreasing VisibleAboveHorizon ConflictCheckExact RetentionBound KeysReclaimed
PROPERTY ImplementsKVStore
