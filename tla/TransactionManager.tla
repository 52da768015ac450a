-------------------------- MODULE TransactionManager --------------------------
(***************************************************************************)
(* The active-snapshot registry of mvcc-lite: TransactionManager::Begin,   *)
(* Unregister and OldestActiveSnapshot (src/transaction.cpp), with the     *)
(* granularity of the code: each shard mutex section is one step, the      *)
(* store's version is read outside every shard lock, and a scan visits the *)
(* shards one lock at a time.                                              *)
(*                                                                         *)
(* A transaction is identified by its txn_id and, being used by one thread *)
(* at a time, is also the process that executes its own Begin.  A Scanner  *)
(* is any thread that calls OldestActiveSnapshot; what it does with the    *)
(* result is CollectGarbage, whose effect on this component is only that   *)
(* history below the boundary may be gone.                                 *)
(***************************************************************************)
EXTENDS Integers

CONSTANTS kNumShards,   \* number of registry shards (16 in the code)
          MaxTxns,      \* bound: how many transactions ever begin
          MaxVersion,   \* bound: how many versions the store ever assigns
          UInt64Max,    \* std::numeric_limits<uint64_t>::max()
          Scanner       \* threads that compute a boundary

ASSUME ShardsAssumption == kNumShards \in Nat \ {0}
ASSUME BoundsAssumption == /\ MaxTxns \in Nat
                           /\ MaxVersion \in Nat
                           /\ UInt64Max \in Nat
                           /\ MaxVersion < UInt64Max

VARIABLES version,      \* VersionStore::CurrentVersion()
          next_txn_id,  \* the atomic id counter
          shards,       \* shards[s] is shard s's active_snapshots map
          stage,        \* how far each transaction's Begin/Unregister has come
          snapshot,     \* the local `snapshot` of Begin, then snapshot_version_
          scan,         \* locals of each scanner's OldestActiveSnapshot
          exposed,      \* history variable: see ReturnBoundary
          horizon       \* history variable: largest boundary collected so far

mgrVars == <<version, next_txn_id, shards, stage, snapshot, scan, exposed, horizon>>

-------------------------------------------------------------------------------
TxnId == 1 .. MaxTxns
Shard == 0 .. kNumShards - 1
Version == 0 .. MaxVersion

Stages == {"none",         \* Begin not called
           "assigned",     \* has its id, not in any shard
           "placeholder",  \* registered with snapshot 0
           "read",         \* current version read, shard entry still 0
           "live",         \* registered with its snapshot, handed to the caller
           "gone"}         \* unregistered

Registered == {"placeholder", "read", "live"}

ShardFor(t) == t % kNumShards

\* unordered_map assignment m[k] = v and erase(k)
MapPut(m, k, v) == [x \in DOMAIN m \cup {k} |-> IF x = k THEN v ELSE m[x]]
MapErase(m, k) == [x \in DOMAIN m \ {k} |-> m[x]]

IsMin(m, S) == m \in S /\ \A x \in S : m <= x

Larger(a, b) == IF a >= b THEN a ELSE b

\* `missed` is history: the transactions that registered, during this scan, in
\* a shard the scan had already left.
IdleScan == [pc |-> "idle", at |-> 0, any_active |-> FALSE,
             oldest |-> UInt64Max, missed |-> {}]

Init ==
  /\ version = 0
  /\ next_txn_id = 1
  /\ shards = [s \in Shard |-> [t \in {} |-> 0]]
  /\ stage = [t \in TxnId |-> "none"]
  /\ snapshot = [t \in TxnId |-> 0]
  /\ scan = [c \in Scanner |-> IdleScan]
  /\ exposed = {}
  /\ horizon = 0

-------------------------------------------------------------------------------
(* TransactionManager::Begin *)

\* next_txn_id_.fetch_add(1): the transaction is the one that got this id.
AssignId(t) ==
  /\ t = next_txn_id
  /\ stage[t] = "none"
  /\ next_txn_id' = next_txn_id + 1
  /\ stage' = [stage EXCEPT ![t] = "assigned"]
  /\ UNCHANGED <<version, shards, snapshot, scan, exposed, horizon>>

\* Scanners that have already left t's shard and have not returned yet.
ScannedPast(t) == {c \in Scanner : scan[c].pc = "scan" /\ ShardFor(t) < scan[c].at}

\* Phase 1, under the shard lock: register the placeholder 0.
RegisterPlaceholder(t) ==
  /\ stage[t] = "assigned"
  /\ shards' = [shards EXCEPT ![ShardFor(t)] = MapPut(@, t, 0)]
  /\ stage' = [stage EXCEPT ![t] = "placeholder"]
  /\ scan' = [c \in Scanner |->
                IF c \in ScannedPast(t)
                THEN [scan[c] EXCEPT !.missed = @ \cup {t}] ELSE scan[c]]
  /\ UNCHANGED <<version, next_txn_id, snapshot, exposed, horizon>>

Mut_ReadSnapshotNextVersion(t) ==
  /\ stage[t] = "placeholder"
  /\ snapshot' = [snapshot EXCEPT ![t] = version + 1]
  /\ stage' = [stage EXCEPT ![t] = "read"]
  /\ UNCHANGED <<version, next_txn_id, shards, scan, exposed, horizon>>

Mut_ReadSnapshotPlaceholder(t) ==
  /\ stage[t] = "placeholder"
  /\ snapshot' = [snapshot EXCEPT ![t] = 0]
  /\ stage' = [stage EXCEPT ![t] = "read"]
  /\ UNCHANGED <<version, next_txn_id, shards, scan, exposed, horizon>>

\* store_.CurrentVersion(), with no shard lock held.
ReadSnapshot(t) ==
  /\ stage[t] = "placeholder"
  /\ snapshot' = [snapshot EXCEPT ![t] = version]
  /\ stage' = [stage EXCEPT ![t] = "read"]
  /\ UNCHANGED <<version, next_txn_id, shards, scan, exposed, horizon>>

\* Phase 2, under the shard lock: refine the placeholder; Begin returns.
RefineSnapshot(t) ==
  /\ stage[t] = "read"
  /\ shards' = [shards EXCEPT ![ShardFor(t)] = MapPut(@, t, snapshot[t])]
  /\ stage' = [stage EXCEPT ![t] = "live"]
  /\ UNCHANGED <<version, next_txn_id, snapshot, scan, exposed, horizon>>

Mut_UnregisterKeepsEntry(t) ==
  /\ stage[t] = "live"
  /\ stage' = [stage EXCEPT ![t] = "gone"]
  /\ UNCHANGED <<version, next_txn_id, shards, snapshot, scan, exposed, horizon>>

\* TransactionManager::Unregister, from Commit, Abort or the destructor.
Unregister(t) ==
  /\ stage[t] = "live"
  /\ shards' = [shards EXCEPT ![ShardFor(t)] = MapErase(@, t)]
  /\ stage' = [stage EXCEPT ![t] = "gone"]
  /\ UNCHANGED <<version, next_txn_id, snapshot, scan, exposed, horizon>>

-------------------------------------------------------------------------------
(* TransactionManager::OldestActiveSnapshot *)

StartScan(c) ==
  /\ scan[c].pc = "idle"
  /\ scan' = [scan EXCEPT ![c] = [IdleScan EXCEPT !.pc = "scan"]]
  /\ UNCHANGED <<version, next_txn_id, shards, stage, snapshot, exposed, horizon>>

Mut_VisitShardForgetsOldest(c) ==
  /\ scan[c].pc = "scan"
  /\ scan[c].at < kNumShards
  /\ LET active == shards[scan[c].at]
         seen   == {active[t] : t \in DOMAIN active}
     IN \E m \in IF seen = {} THEN {scan[c].oldest} ELSE seen :
          /\ \A x \in seen : m <= x
          /\ scan' = [scan EXCEPT ![c] =
                        [scan[c] EXCEPT
                           !.at = scan[c].at + 1,
                           !.any_active = scan[c].any_active \/ DOMAIN active # {},
                           !.oldest = m]]
  /\ UNCHANGED <<version, next_txn_id, shards, stage, snapshot, exposed, horizon>>

Mut_VisitShardSkipsPlaceholders(c) ==
  /\ scan[c].pc = "scan"
  /\ scan[c].at < kNumShards
  /\ LET active == shards[scan[c].at]
         refined == {t \in DOMAIN active : active[t] # 0}
         seen   == {scan[c].oldest} \cup {active[t] : t \in refined}
     IN \E m \in seen :
          /\ IsMin(m, seen)
          /\ scan' = [scan EXCEPT ![c] =
                        [scan[c] EXCEPT
                           !.at = scan[c].at + 1,
                           !.any_active = scan[c].any_active \/ refined # {},
                           !.oldest = m]]
  /\ UNCHANGED <<version, next_txn_id, shards, stage, snapshot, exposed, horizon>>

\* One iteration of the loop over shards_, under that shard's lock.
VisitShard(c) ==
  /\ scan[c].pc = "scan"
  /\ scan[c].at < kNumShards
  /\ LET active == shards[scan[c].at]
         seen   == {scan[c].oldest} \cup {active[t] : t \in DOMAIN active}
     IN \E m \in seen :
          /\ IsMin(m, seen)
          /\ scan' = [scan EXCEPT ![c] =
                        [scan[c] EXCEPT
                           !.at = scan[c].at + 1,
                           !.any_active = scan[c].any_active \/ DOMAIN active # {},
                           !.oldest = m]]
  /\ UNCHANGED <<version, next_txn_id, shards, stage, snapshot, exposed, horizon>>

Mut_ReturnBoundaryNoFallback(c) ==
  /\ scan[c].pc = "scan"
  /\ scan[c].at = kNumShards
  /\ scan' = [scan EXCEPT ![c] = [IdleScan EXCEPT !.pc = "done", !.oldest = scan[c].oldest]]
  /\ exposed' = exposed \cup {t \in scan[c].missed : stage[t] \in {"read", "live"}}
  /\ UNCHANGED <<version, next_txn_id, shards, stage, snapshot, horizon>>

\* After the loop: with nothing seen, the store's version is read only now.
\* The history variable `exposed` collects the transactions that took their
\* snapshot inside this scan without the scan being able to see them.
ReturnBoundary(c) ==
  /\ scan[c].pc = "scan"
  /\ scan[c].at = kNumShards
  /\ LET b == IF scan[c].any_active THEN scan[c].oldest ELSE version
     IN scan' = [scan EXCEPT ![c] = [IdleScan EXCEPT !.pc = "done", !.oldest = b]]
  /\ exposed' = exposed \cup {t \in scan[c].missed : stage[t] \in {"read", "live"}}
  /\ UNCHANGED <<version, next_txn_id, shards, stage, snapshot, horizon>>

\* The scanner passes the returned boundary to VersionStore::CollectGarbage.
UseBoundary(c) ==
  /\ scan[c].pc = "done"
  /\ horizon' = Larger(horizon, scan[c].oldest)
  /\ scan' = [scan EXCEPT ![c] = IdleScan]
  /\ UNCHANGED <<version, next_txn_id, shards, stage, snapshot, exposed>>

\* Any write of the store (Put, Delete, ApplyBatch, a commit): one new version.
StoreWrite ==
  /\ version < MaxVersion
  /\ version' = version + 1
  /\ UNCHANGED <<next_txn_id, shards, stage, snapshot, scan, exposed, horizon>>

-------------------------------------------------------------------------------
TxnStep(t) == \/ AssignId(t)
              \/ RegisterPlaceholder(t)
              \/ ReadSnapshot(t)
              \/ RefineSnapshot(t)
              \/ Unregister(t)

ScanStep(c) == \/ StartScan(c)
               \/ VisitShard(c)
               \/ ReturnBoundary(c)
               \/ UseBoundary(c)

Next == \/ \E t \in TxnId : TxnStep(t)
        \/ \E c \in Scanner : ScanStep(c)
        \/ StoreWrite

Spec == Init /\ [][Next]_mgrVars

-------------------------------------------------------------------------------
ScanRecord == [pc : {"idle", "scan", "done"}, at : 0 .. kNumShards,
               any_active : BOOLEAN, oldest : Version \cup {UInt64Max},
               missed : SUBSET TxnId]

\* Type correctness of the registry: versions, ids and scan locals stay in
\* their ranges, and a shard maps transaction ids to versions.
TypeOK ==
  /\ version \in Version
  /\ next_txn_id \in 1 .. MaxTxns + 1
  /\ DOMAIN shards = Shard
  /\ \A s \in Shard : /\ DOMAIN shards[s] \subseteq TxnId
                       /\ shards[s] \in [DOMAIN shards[s] -> Version]
  /\ stage \in [TxnId -> Stages]
  /\ snapshot \in [TxnId -> Version]
  /\ scan \in [Scanner -> ScanRecord]
  /\ exposed \subseteq TxnId
  /\ horizon \in Version

\* Transactions that have a snapshot they will read from.
Holding == {t \in TxnId : stage[t] \in {"read", "live"}}

\* The registry is exact: a shard holds precisely the transactions between
\* their placeholder and their Unregister, each in its own shard, with the
\* placeholder 0 or the refined snapshot.  A finished transaction left behind
\* would pin the collection boundary for ever (transaction.cpp:20-31).
RegistryExact ==
  \A s \in Shard :
    /\ DOMAIN shards[s] = {t \in TxnId : stage[t] \in Registered /\ ShardFor(t) = s}
    /\ \A t \in DOMAIN shards[s] :
         shards[s][t] = IF stage[t] = "live" THEN snapshot[t] ELSE 0

\* A boundary returned by OldestActiveSnapshot never exceeds the store's
\* current version (tests/stress_test_transaction.cpp:213-219).
BoundaryNotAhead == \A c \in Scanner : scan[c].pc = "done" => scan[c].oldest <= version

\* What two-phase registration does guarantee: a returned boundary is at most
\* the snapshot of every transaction that holds one, except those that both
\* registered and read the version inside the scan, behind its back.
BoundarySafe ==
  \A c \in Scanner : scan[c].pc = "done" =>
    \A t \in Holding \ exposed : scan[c].oldest <= snapshot[t]

\* Such a transaction never holds a snapshot older than a boundary that was
\* acted on, at any later time (gc.h, "no transaction can ever hold a snapshot
\* older than a boundary value this class has already acted on").
HorizonSafe == \A t \in Holding \ exposed : horizon <= snapshot[t]

===============================================================================
