----------------------------- MODULE VersionStore -----------------------------
(***************************************************************************)
(* VersionStore (src/version_store.cpp).  Every method holds mutex_ for    *)
(* its whole body, shared for readers and exclusive for writers, so every  *)
(* method is one atomic step: writers are actions, readers are state       *)
(* functions.  An empty key is rejected before the lock with no effect;    *)
(* the callers' modules model that reply.                                  *)
(*                                                                         *)
(* The history variable `log` keeps every batch ever applied, the one at   *)
(* index v being version v: it is what the store would hold if nothing     *)
(* were ever collected.  `horizon` is the largest boundary collected.      *)
(***************************************************************************)
EXTENDS VersionHistory, Totals

CONSTANTS Key,         \* the non-empty keys
          MaxVersion   \* bound: how many versions are ever assigned

ASSUME MaxVersionAssumption == MaxVersion \in Nat

VARIABLES table, next_version, log, horizon

storeVars == <<table, next_version, log, horizon>>

\* A batch of WriteOps with distinct keys (ApplyBatch's documented contract, and
\* what Transaction::Commit passes): a function from the keys written.
Batch == UNION {[D -> Cell] : D \in (SUBSET Key) \ {{}}}

CurrentVersion == next_version - 1

LatestVersion(k) == LatestOf(table[k])

\* VersionStore::Get: the latest value, Tombstone for NotFound.
Get(k) == IF table[k] = <<>> THEN Tombstone ELSE table[k][Len(table[k])].value

GetAsOf(k, as_of) == VisibleAt(table[k], as_of)

VersionCount(k) == Len(table[k])

KeyCount == Cardinality({k \in Key : table[k] # <<>>})

Init ==
  /\ table = [k \in Key |-> <<>>]
  /\ next_version = 1
  /\ log = <<>>
  /\ horizon = 0

-------------------------------------------------------------------------------
Mut_ApplyBatchSameVersion(ops) ==
  /\ next_version <= MaxVersion
  /\ Len(log) < MaxVersion
  /\ table' = [k \in Key |->
                 IF k \in DOMAIN ops
                 THEN Append(table[k], [version |-> next_version, value |-> ops[k]])
                 ELSE table[k]]
  /\ log' = Append(log, ops)
  /\ UNCHANGED <<next_version, horizon>>

Mut_ApplyBatchPreincrement(ops) ==
  /\ next_version <= MaxVersion
  /\ next_version' = next_version + 1
  /\ table' = [k \in Key |->
                 IF k \in DOMAIN ops
                 THEN Append(table[k], [version |-> next_version + 1, value |-> ops[k]])
                 ELSE table[k]]
  /\ log' = Append(log, ops)
  /\ UNCHANGED horizon

\* VersionStore::ApplyBatch: one new version for the whole batch.
ApplyBatch(ops) ==
  /\ next_version <= MaxVersion
  /\ next_version' = next_version + 1
  /\ table' = [k \in Key |->
                 IF k \in DOMAIN ops
                 THEN Append(table[k], [version |-> next_version, value |-> ops[k]])
                 ELSE table[k]]
  /\ log' = Append(log, ops)
  /\ UNCHANGED horizon

Put(k, v) == ApplyBatch([x \in {k} |-> v])

\* NotFound, with no effect, unless the latest version holds a value.
Delete(k) ==
  /\ Get(k) # Tombstone
  /\ ApplyBatch([x \in {k} |-> Tombstone])

\* The validation pass of ApplyBatchIfNoConflict: its conflicting keys.
Conflicts(ops, snapshot_version) ==
  {k \in DOMAIN ops : LatestVersion(k) > snapshot_version}

ApplyBatchIfNoConflict(ops, snapshot_version) ==
  /\ Conflicts(ops, snapshot_version) = {}
  /\ ApplyBatch(ops)

\* The GCStats CollectGarbage returns.
GCStats(safe_boundary) ==
  [versions_reclaimed |-> Total([k \in Key |-> Reclaimed(table[k], safe_boundary)]),
   keys_removed |-> Cardinality({k \in Key : table[k] # <<>>
                                   /\ Collected(table[k], safe_boundary) = <<>>})]

CollectGarbage(safe_boundary) ==
  /\ table' = [k \in Key |-> Collected(table[k], safe_boundary)]
  /\ horizon' = IF safe_boundary > horizon THEN safe_boundary ELSE horizon
  /\ UNCHANGED <<next_version, log>>

-------------------------------------------------------------------------------
(* The store under direct callers that respect its documented contract: the *)
(* boundary is no newer than the current version, and a snapshot is no      *)
(* older than the last boundary.                                            *)

Next ==
  \/ \E k \in Key, v \in Value : Put(k, v)
  \/ \E k \in Key : Delete(k)
  \/ \E ops \in Batch : ApplyBatch(ops)
  \/ \E ops \in Batch, s \in horizon .. CurrentVersion : ApplyBatchIfNoConflict(ops, s)
  \/ \E b \in 0 .. CurrentVersion : CollectGarbage(b)

Spec == Init /\ [][Next]_storeVars

-------------------------------------------------------------------------------
\* Versions that wrote k no later than version s, in the uncollected log.
Writes(k, s) == {i \in 1 .. Len(log) : i <= s /\ k \in DOMAIN log[i]}

\* What a reader at version s must see: the last write at or before s.
LogAsOf(k, s) ==
  IF Writes(k, s) = {} THEN Tombstone
  ELSE log[CHOOSE i \in Writes(k, s) : \A j \in Writes(k, s) : j <= i][k]

\* The store's state is well typed, and the version counter counts the batches.
TypeOK ==
  /\ next_version \in 1 .. MaxVersion + 1
  /\ log \in Seq(Batch) /\ Len(log) = CurrentVersion
  /\ table \in [Key -> Seq(VersionedValue)]
  /\ horizon \in 0 .. CurrentVersion

\* Every history is strictly increasing and not ahead of the counter: what
\* partition_point relies on in GetAsOf and CollectGarbage.
HistoriesIncreasing ==
  \A k \in Key : Increasing(table[k]) /\ LatestVersion(k) <= CurrentVersion

\* Collection loses nothing a legitimate reader needs: at every version from
\* the horizon on, GetAsOf answers as if nothing had ever been collected.
VisibleAboveHorizon ==
  \A k \in Key, s \in horizon .. MaxVersion : GetAsOf(k, s) = LogAsOf(k, s)

\* The conflict check stays exact after entries and whole keys were dropped: a
\* key's latest version is newer than s iff some batch after s wrote it.
ConflictCheckExact ==
  \A k \in Key, s \in horizon .. CurrentVersion :
    LatestVersion(k) > s <=> \E i \in s + 1 .. Len(log) : k \in DOMAIN log[i]

\* Collection reclaims all it may: per key at most one version at or before
\* the horizon survives, and never a tombstone with nothing after it.
RetentionBound ==
  \A k \in Key :
    LET old == {i \in 1 .. Len(table[k]) : table[k][i].version <= horizon}
    IN /\ Cardinality(old) <= 1
       /\ Cardinality(old) = Len(table[k]) => \A i \in old : table[k][i].value # Tombstone

===============================================================================
