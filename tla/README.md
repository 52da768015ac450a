# mvcc-lite in TLA+

A verification project for mvcc-lite: an in-memory multi-version key-value
store with snapshot-isolated transactions, optimistic concurrency control and a
garbage collector. The modules follow `src/src/*.cpp` and
`src/include/mvcc/*.h`; file and line numbers below refer to those.

## 1. The system

| component | state | operations | interacts with |
|---|---|---|---|
| `VersionStore` | `table_` (per key, a vector of versions, tombstones included), `next_version_` | `Put`, `Delete`, `Get`, `GetAsOf`, `ApplyBatch`, `ApplyBatchIfNoConflict`, `CollectGarbage`, counters | called by everybody; one `shared_mutex` around each method |
| `TransactionManager` | `next_txn_id_`, 16 shards of `active_snapshots` | `Begin`, `Unregister`, `OldestActiveSnapshot`, `ActiveTransactionCount` | reads `CurrentVersion()`; one mutex per shard |
| `Transaction` | `state_`, `snapshot_version_`, `write_set_` | `Get`, `Put`, `Delete`, `Commit`, `Abort`, destructor | store and manager; used by one thread at a time |
| `GarbageCollector` | `cumulative_stats_`, background thread and its handle, `running_`, `stop_requested_`, `cv_mutex_` | `RunOnce`, `StartBackground`, `StopBackground`, destructor, `BackgroundLoop` | `OldestActiveSnapshot`, then `CollectGarbage` |
| `RunWithRetry` | local attempt counter | retry loop | `Begin`, user callback, `Commit` |
| `KVStore` | one map | `Put`, `Get`, `Delete`, `Contains`, `Size` | stands alone (the unversioned predecessor) |
| `Status` | immutable value | codes and predicates | returned by all of the above |

What is hard here:

* **No lock spans two components.** `Begin` is four separate steps (take an id,
  register the placeholder 0, read the store's version, refine the entry).
  `OldestActiveSnapshot` locks the shards one after the other and reads the
  store's version, if at all, after the last one. `RunOnce` uses the result
  later. `Commit` applies in the store and unregisters afterwards.
* **The collector removes what other code compares with.** Conflict detection
  looks at the latest version of a key, and a collection may drop that entry
  and the whole key.
* **Registration pins reclamation.** Whatever is left in a shard keeps every
  later collection from making progress.
* **`partition_point` trusts an order** that every writer and every trim has to
  preserve.
* **The background thread is controlled through two flags, a condition variable
  and a `std::thread` handle**, each accessed on its own; a mistake with the
  handle ends the process.
* **Allocations fail between effects that belong together**: a version number
  and its entries, a buffered key and its value, a registration and the object
  that removes it.

`PROJECT.json` lists each hazard at its line with the properties that watch it.

What makes each component correct: the *store* answers, from the last boundary
on, as if nothing had ever been collected, and reclaims everything else; the
*manager* keeps an exact registry and returns a boundary no newer than any
snapshot in use; a *transaction* behaves as in `SnapshotIsolation`; the
*collector* is invisible to transactions, counts each reclaimed entry once, and
eventually reclaims all that is unreachable; its *background thread* is never
outlived by its owner, ends when asked and only then; a *retried* call takes
effect at most once and leaves nothing behind.

## 2. The modules

| module | models |
|---|---|
| `VersionHistory` | the pure computations on one key's history: `partition_point`, the entry a snapshot sees, what one collection leaves and counts |
| `Totals` | the sums that a collection's and a collector's statistics are |
| `VersionStore` | the store; writers are actions, readers state functions (each method is one lock section, hence one step) |
| `VersionHistoryProofs` | lemmas about one history: the binary search, what a snapshot sees, what a collection keeps |
| `VersionStoreProofs` | inductive invariant and theorems about the store |
| `TransactionManager` | the sharded registry and its scans, one action per lock section |
| `TransactionManagerProofs` | inductive invariant and theorems about the registry |
| `SnapshotIsolation` | abstract specification of transactions: a log of batches, nothing else |
| `Transaction` | transaction objects; composes `VersionStore` and `TransactionManager` by `INSTANCE` |
| `TransactionProofs` | inductive invariant of the composition, refinement of `SnapshotIsolation` |
| `GarbageCollector` | `RunOnce` on any number of threads; extends `Transaction`, so it is the whole system |
| `GarbageCollectorProofs` | theorems about the whole system, and about it when memory runs out |
| `BackgroundThread` | the life cycle of the collector's thread: one step per atomic access, lock section, wait or `std::thread` operation, spurious wake-ups, timeouts and a failing thread creation included |
| `BackgroundThreadProofs` | inductive invariant and theorems about that life cycle |
| `RunWithRetry` | the retry loop on any number of threads; extends `Transaction`, every attempt being a transaction of its own |
| `RunWithRetryProofs` | inductive invariant of the calls, and what they promise |
| `KVStore` | the unversioned store; the abstract specification of the versioned one for callers without snapshots |
| `SingleKeyStore` | `VersionStore` used like that, and the map it presents; `SingleKeyStoreProofs` has the theorems |
| `AllocationFailure` | the whole system with `std::bad_alloc` out of `Commit`, `Put` and `Begin`; extends `GarbageCollector` |
| `MC...` | finite instances and symmetry sets |

Correspondence of state. A key with no entry in `table_` is the empty history.
No method that returns leaves an empty vector behind; one whose `push_back`
throws may, and only `KeyCount` could tell. A batch is a function from the keys
it writes: `Commit` builds its ops from a map, and `ApplyBatch` documents
distinct keys. What callers pass to `ApplyBatch` outside any transaction is the
constant `DirectBatch`: in run `transactions` every batch that writes all the
keys, in the others none (direct `Put` and `Delete` remain); the theorems hold
for any set of batches. `Tombstone` is `std::nullopt` and doubles as NotFound.
`TransactionManager`'s `version` is the store's `next_version - 1` in the
composition. `stage[t]` is the program counter of `t`'s `Begin` and
`Unregister`; `scan[c]` holds the locals of `OldestActiveSnapshot`. `state[t]`
is `state_`, with `"none"` before `Begin` returned the object and `"dropped"`
once the destructor ran on it. Calls that return `InvalidArgument` change
nothing; they are the guards (`Usable`, non-empty keys and batches).

History variables, never read by a guard of the code's actions:

* `log`: all batches applied, batch `v` being version `v` — the store without
  collection;
* `horizon`: the largest boundary ever passed to `CollectGarbage`;
* `scan[c].missed`: the transactions that registered, during this scan, in a
  shard the scan had already left;
* `exposed`: those of them that already held a snapshot when the scan returned;
* `made`, `called_at` (`RunWithRetry`): the attempts of a call, and how long the
  log was when it began;
* `torn`, `unasked` (`AllocationFailure`): the versions at which a part of a
  transaction's batch landed; the deletes in its buffer that a failed `Put` left
  there. `Asked(t)` is the buffer without them.

The callback of `RunWithRetry` is the caller's: in the model it may increment a
counter it read in its transaction, do nothing, commit or abort on its own, and
return any status, `Conflict` included, or throw. `RunWithRetry` hands a status
of the callback's own on at once and retries only what `Commit` reported
(`transaction.cpp:254-276`), so what the result `Conflict` means is stated for
callbacks that returned OK. The increment makes a lost or doubled update
visible: the counter must equal the number of successful calls.

Operators named `Mut_...` are deliberately wrong variants of the definition that
follows them. No specification uses them; substituting one for its definition
must make the property it is listed with fail.

## 3. What the runs check

Version counters, ids and values are bounded by `MaxVersion`, `MaxTxns` and
the sets `Key`, `Value`, `Scanner`, retries by `Caller` and `MaxAttempts`, the
collector's thread by `Controller` and `MaxLoops`; `UInt64Max` stands for the start value of
the minimum and only has to exceed every version. Two shards are enough to have
a shard in front of the scan and one behind it; three transactions put two of
them in one shard. Three versions allow create, delete (or overwrite) and a
commit that races with it. `Value` may hold a single value because a tombstone
is a second distinguishable content.

| run | instance | shows |
|---|---|---|
| `registry` | 2 shards, 3 transactions, 3 versions, 1 scanner | `RegistryExact`, `BoundaryNotAhead`, `BoundarySafe`, `HorizonSafe` |
| `store` | 2 keys, 2 values, 4 versions | sorted histories, reads and conflict checks exact from the horizon on, nothing superfluous retained; to single-key callers a `KVStore`, whose size `KeyCount` comes back to |
| `transactions` | 2 keys, 2 transactions, 3 versions, no collector | refinement of `SnapshotIsolation`, batches from outside any transaction included; every possible read and conflict check agrees with it; the version `Commit` reports holds the whole buffer and was reported to nobody else (`CommitsInLog`; that nothing else came from the transaction is `ImplementsSI`) |
| `system` | 1 key, 2 transactions, 3 versions, 1 collector | `SnapshotStable`, `RepeatableReads`, `FirstCommitterWins` and `ObservationsMatchSI` for transactions that are not exposed; every step other than those of exposed transactions is one of `SnapshotIsolation` |
| `reclamation` | 1 transaction, 3 versions, 2 collectors | statistics of concurrent passes add up; what `CollectGarbage` trusts its caller with (`version_store.h:121-127`) holds towards all but exposed transactions (`ImplementsStore`); liveness of reclamation |
| `background` | 1 controlling thread, 3 background threads in succession | one owned thread at most, no termination of the process, stops return, passes go on |
| `retry` | 2 callers, 4 attempts, at most 2 per call | a call takes effect at most once, no increment is lost, a conflict that `Commit` reported means that somebody else committed, nothing stays registered |
| `failing_commits` | 2 keys, 2 transactions, 2 versions, 1 collector, failing allocations | for transactions that are not exposed: one that threw half-way lands nothing more and never commits (`RetryNeverDoubles`), what others read (`SnapshotStable`) or win (`FirstCommitterWins`) is untouched, and but for the keys that a failed `Put` hides, reads and refusals are as asked for (`ObservationsAsAsked`, `ReadsChangeOnlyByFailedPut`); for all: every batch in the log is one transaction's (`BatchesAccountedFor`) |
| `writer_claim` | as `system` | **violation** of `FirstCommitterAlwaysWins` |
| `control_race` | 2 controlling threads | **violation** of `NeverTerminates` |
| `torn_batch` | 2 keys, failing allocations | **violation** of `AllOrNothing` |
| `leaked_registration` | 2 transactions, 2 versions, failing allocations | **violation** of `EventuallyTrimmed` |

Four attempts in `retry` let both callers use up two, and let one fail and try
again while the other calls twice. Three background threads are two restarts,
enough for a flag of one life to reach the next but one. TLC also compares
`Total` with the library's sum over a set, on small functions, when it loads the
instances of the whole system. In `failing_commits`
nobody writes outside a transaction, so that whatever is in the log came from a
commit. Two versions let a commit tear and then be tried again, be overtaken by
the other transaction or have what landed collected: the exemption of exposed
transactions from `RetryNeverDoubles` is already needed there. A batch that
tears in a longer history is left to the theorems.

`reclamation` has one transaction, so that `EventuallyTrimmed` is shown for
callers that come to an end. It does not say what happens while Begins never
cease: a scan that meets a placeholder returns 0, and nothing in the code keeps
scan after scan from meeting one.

`CHECK_DEADLOCK FALSE` where it appears: a library stops when its callers stop,
and in a bounded instance they run out of transactions and versions. The store
never stops (a collection is always possible) and is checked for deadlock.

Fairness, where it is assumed:

* `reclamation` (`Fairness`): `RunOnceStep` is weakly fair because
  `BackgroundLoop` runs passes for ever and its wait has a finite interval. A
  thread inside `Begin`, `Commit` or `Abort` finishes its call: these calls take
  one lock at a time and never wait for anything else. Callers are not fair:
  they may keep a transaction open, or stop using one, for ever, so
  `EventuallyTrimmed` promises reclamation only up to the oldest snapshot that
  is still in use. `leaked_registration` assumes the same, and no failure ever
  has to happen.
* `background` (`Scheduling`): threads keep running; a controller is strongly
  fair because the loop gives `cv_mutex_` up for an interval at a time, and a
  mutex that is free again and again is eventually obtained. Nothing forces a
  wait to time out, so `StopReturns` does not lean on the interval.
  `PassesRecur` needs it, and has it as a hypothesis: strong fairness of the
  timeout, since `wait_for` with a predicate computes its deadline once and
  spurious wake-ups do not postpone it.

### Finding 1: a Begin inside a scan

`transaction.h:179-223` argues that a transaction a scan does not see takes its
snapshot after the scan. That is so for a scan that is one step. The scan in the
code is a loop over locks: a transaction can register in a shard the loop has
already left, read its snapshot, return to its caller, and a write can follow,
all before the loop ends. The boundary is then the version read by the fallback
at `transaction.cpp:219`, or a newer snapshot found in a later shard, and it is
above the snapshot of a live transaction, whose versions the collection then
erases. `writer_claim` shows the worst that follows: a dropped tombstone hides a
conflict, and a committed delete is overwritten. `BoundarySafe` and
`HorizonSafe` state, and the proofs establish, that this is the only way: every
transaction outside `exposed` is protected for its whole life.

### Finding 2: control calls from two threads

`running_` is atomic, but `StartBackground` tests it at `gc.cpp:18` and sets it
at `gc.cpp:26`. Two threads that start at the same time both get past the test;
the second assignment to the joinable handle calls `std::terminate`
(`control_race`), although the class documents the second start as a no-op. With
one controlling thread every sequence of calls is safe (`background`), a failed
thread creation included: `running_` then stays set without a thread, further
starts do nothing, and the next stop repairs it.

### Findings 3 to 5: memory exhaustion

`ApplyBatchIfNoConflict` advances the version and then appends key by key. An
append that throws leaves a part of the batch behind, visible to all later
readers (`torn_batch`). What landed makes every later attempt of the same
transaction conflict with itself, so a retried commit lands nothing more
(`failing_commits`), unless finding 1 has struck as well: if a scan overlooked
the transaction, a pass may drop a tombstone that landed, with it the conflict,
and the key is written a second time. `Begin` registers the snapshot before it creates the
object: a failing `new` leaves an entry nobody removes, and reclamation stops at
that snapshot (`leaked_registration`). `Transaction::Put` evaluates
`write_set_[key] = value` (`transaction.cpp:60`): the key is inserted as a delete
before the value is copied, and if the copy throws the delete stays. `Get` then
denies a key the transaction never wrote, although `transaction.h:78-79` promises
the snapshot for it, and `Commit` deletes it. In `failing_commits` this is the
action `PutThrows`; `ReadsChangeOnlyByFailedPut` and `ObservationsAsAsked` say that
nothing but the key of the failed `Put` is affected, and have to except that key.

### Finding 6: what KeyCount counts

`version_store.h:96-97` documents `KeyCount` as the "Number of distinct keys ever
written, including ones whose latest version is a tombstone". A collection drops
a key together with its last tombstone (`version_store.cpp:181`), and it is no
longer counted: `KeysReclaimed`, which run `store` checks and
`KeysReclaimedCorrect` proves, says the opposite of the comment. The tests side
with the code (`tests/test_version_store.cpp:289`); it is the comment that is out
of date.

## 4. What is proved

Every theorem holds for all values of the constants that satisfy the assumptions
named in the modules: at least one shard, bounds that are naturals, `MaxVersion`
below `UInt64Max`, `Tombstone` different from every value, and, for the
statistics, finitely many keys and collector threads (a table and a process have
no more). TLC evaluates these assumptions on every run.

| module | theorem | states |
|---|---|---|
| `TransactionManagerProofs` | `TypeCorrect`, `RegistryCorrect`, `BoundaryNotAheadCorrect`, `BoundaryCorrect`, `HorizonCorrect` | the five invariants of run `registry` |
| `VersionStoreProofs` | `StoreTypeCorrect`, `HistoriesCorrect`, `ReadsCorrect`, `ConflictCheckCorrect`, `RetentionCorrect` | the invariants of run `store` |
| `SingleKeyStoreProofs` | `SingleKeyCorrect`, `SingleKeyRefines`, `KeysReclaimedCorrect` | `ImplementsKVStore`, `SingleSpec => KV!Spec`, `KeysReclaimed` |
| `TransactionProofs` | `CommitsCorrect`, `ObservationsCorrect`, `TransactionsImplementSI` | the properties of run `transactions`, the refinement included |
| `GarbageCollectorProofs` | `StoreContractKept`, `RegistryContractKept` | `ImplementsStore` of run `reclamation`; the whole system implements `TransactionManager` |
| | `SnapshotsStable`, `ReadsRepeat`, `FirstCommitterCorrect`, `SystemObservations`, `SystemCommits`, `SystemImplementsSI` | the properties of run `system`, and `CommitsInLog` |
| | `StatsCorrect` | `StatsConserved` of run `reclamation` |
| | `RetryCorrect`, `ReadsUnderFailure`, `FirstCommitterUnderFailure`, `CommitsUnderFailure`, `ObservationsUnderFailure`, `ReadsRepeatUnderFailure` | the properties of run `failing_commits` |
| | `StatsUnderFailure` | `StatsConserved` when memory runs out |
| `BackgroundThreadProofs` | `ThreadOwned`, `LifeCycleSafe` | the invariants of run `background`, for calls that do not overlap |
| `RunWithRetryProofs` | `CallersUseTransactions` | `RetrySpec => TxnSpec` |
| | `EffectCorrect`, `IncrementsCorrect`, `ProgressCorrect`, `UnregisteredCorrect` | the invariants of run `retry` |

### The registry

None of the boundary properties is inductive. A boundary is right when it is
returned because of what the scan knew on the way, so the inductive invariant
`IInv` adds `ScanProgress`: a transaction registered in a shard that the scan
has left is either one it missed, or *covered*, meaning that the scan saw
something active, that its minimum is 0 if the transaction is still at its
placeholder, and that its minimum is at most the transaction's snapshot if it
has one. Reading the snapshot keeps a transaction covered because the minimum
is then 0; visiting a shard covers what `RegistryExact` says is in it; a
returning scan has left every shard. `SnapshotNotAhead` and `HorizonNotAhead`
relate snapshots and the horizon to the version, which is what a transaction
reading its snapshot after the boundary was computed needs. There is one lemma
per action.

### The store

What a reader sees says nothing about entries a later collection will look at,
so `VisibleAboveHorizon` is not inductive. The invariant `IInv` of
`VersionStoreProofs` relates each history to the log entry by entry: every entry
is the log's value at its version (`EntriesLogged`); every write above the
horizon still has its entry (`RecentKept`); the last write at or below the
horizon has its entry too, or it is a tombstone and no entry is as old
(`LastKept`). A batch is newer than all of this. A collection keeps what is
above its boundary and the newest entry within it, and by `EntriesLogged` and
`LastKept` that entry is the last write at or below the new horizon. The steps
rest on `VersionHistoryProofs`: on a sorted history `PartitionPoint` separates
the in-bound entries from the others (`PartitionPointOrdered`), `Collected`
keeps and drops what the previous sentence says (`CollectedHistory`),
`VisibleAt` is the newest entry in bound (`VisibleEntry`), `LatestOf` the newest
of all (`LatestEntry`).

Nothing in this needs a batch to be whole: `Sound` is `IInv` without that
demand, and is kept by whatever lands of a batch (`ApplyBatchSound`).

`RetentionBound` says how many entries are left, not which, so it has an
invariant of its own beside `IInv`: `Trim`, that all but the first entry of a
history are above the horizon, and that a lone entry within it is no tombstone.
The case that matters is a boundary *older* than the last one, which may not
leave more than the last one did (`CollectedRetained`). `KeysReclaimed` follows
from both.

The map that single-key callers see is that of the keys whose newest entry holds
a value. Type correctness is all the invariant that refinement needs: an append
makes its cell the newest (`WriteLatest`), and a collection keeps the newest
entry of a history or drops the history because that entry is a tombstone
(`CollectedNewest`), so that a pass is a stutter.

### Transactions and the whole system

The composition reuses both invariants: every step of a transaction is a step of
`VersionStore` and one of `TransactionManager`, or leaves them alone
(`UsesStore` and its counterpart), so that their `IInv` is kept. `TInv` adds how
the transactions relate to them: a transaction is handed out exactly when
`Begin` has returned and is registered while it is active (`Lifecycle`), and the
log holds the commits (`CommitsInLog`). `HorizonSafe` then puts the snapshot of
every transaction outside `exposed` at or above the horizon, where reads and
conflict checks are exact; that is `ObservationsMatchSI`, and with it each step
simulates one of `SnapshotIsolation` (`StepSimulates`). The mapping lets a
transaction begin when it reads its snapshot, one step before its caller has it.

With passes, `SysInv` adds `FirstCommitterWins`: the commit that would break it
is refused because the conflict check is exact then, and no later step can,
because a log never changes below its end. A pass changes nothing that
`SnapshotIsolation` sees. `ExposedStep` in `ImplementsSIUnlessExposed` is what
finding 1 costs, and only that.

`ImplementsStore` follows from the same facts. Every step that touches the store
is a `ContractStep`: a direct batch; a commit validated against a snapshot that is
at or above the horizon, by `HorizonSafe`; or a collection whose boundary is at
most the current version (`BoundaryNotAhead`) and every snapshot in use
(`BoundarySafe`), however old it is. An exposed transaction may commit below the
horizon, against what `version_store.h:121-127` asks for; that is finding 1 again,
and the only exception.

`RepeatableReads` compares the states before and after a step. In both the store
shows what the log does (`SnapshotStable`), the log below the snapshot is the
same in both (`LogShowsSame`), and as long as a transaction is in use it keeps
its snapshot and everything it has buffered (`UseKept`).

### The statistics

`StatsConserved` balances sums over keys, versions and collector threads. A sum
defined by recursion could not be reasoned about, so `Total` counts a disjoint
union: that a sum changes by what one term changes by, or by the sum of what all
of them do, follows from facts about cardinalities (`TotalAdd`, `TotalUpdate`,
`TotalExtend`). With them a batch adds as many entries to the log as to the
table (`WrittenGrows`, `StoredGrows`), a collection takes from the table what its
statistics say (`StoredShrinks`, from `CollectedCounts` about one history), and
`Accumulate` moves a pass's numbers into the total.

The second half is not inductive: that removed keys are at most the tombstones
written says nothing about the tombstones that are still there to be removed.
`StatsInv` therefore counts those in (`TombstonesStored`, over the versions that
`Marks` collects of a history): a key that is removed takes its tombstone along.
It also says that a thread that scans has nothing left to add up
(`NothingPending`), without which a second `Collect` would overwrite the numbers
of the first.

### Retries

Every step of a call is one of its current attempt, so `TInv` holds
(`CallersUseTransactions`). `CallInv` says what a call knows of its attempts at
each place of the loop: all but the last are refused and unregistered
(`Earlier`), the status tells how the last one ended (`Outcome`), and the
snapshot of an attempt includes the batch that beat the one before
(`Progress`, which counts batches against attempts). `EveryIncrementCounts`
needs in addition that a buffer holds one more than its snapshot shows
(`Buffered`): when the commit is let through, nothing was written to the key
since, so it is one more than the latest value.

### The background thread

`IInv` says that a live thread is the one the handle names, that a joinable
handle implies `running_` and an object that exists (`HandleOwns`), and what a
call has established by the point it has reached (`CallEstablished`), for
instance that no thread is joinable when a start is about to create one. What a
call established another call can undo, so the theorems have the hypothesis
`[]Serial`: at any time at most one thread is inside `StartBackground`,
`StopBackground` or the destructor. With one controlling thread, as in run
`background`, it always holds. Without it both statements are false, which is
finding 2.

### Memory exhaustion

With failures `TInv` does not hold: a batch may land without some of its keys,
or with none, and a transaction may stay registered that nobody was handed. The
registry's invariant survives (`FailKeepsRegistry`; a spent id is like one that
left), and `FailInv` adds `TornStuck`: a transaction of whose batch something
landed, and that is still active, has a key in its write set with a version newer
than its snapshot. Further buffered writes only add keys, further batches only
newer versions, and a pass keeps every entry above its boundary
(`CollectLatest`), which is at most the snapshot by `BoundarySafe`. So the
conflict check refuses the next attempt.

`RetryNeverDoubles` needs `TornOnce` besides: an attempt that throws had passed the
conflict check, so nothing of the transaction had landed before.

For everybody else nothing changes. `Upheld` is the part of `TInv` that needs
neither whole batches nor handed-out registrations: `Sound`, the registry's
invariant, `CommitsInLog`, and that a transaction somebody has went through
`Begin` (`HandedOut`). Reads, conflict checks and first committer wins are proved
from `Upheld` once, for the system with and without failures. A failure touches
no transaction object but the buffer of the transaction whose `Put` fails, and
only adds to the log, so commits stay final (`FailFinal`) and `PromiseInv` is
kept.

`BatchesAccountedFor` is part of `PromiseInv`: a batch lands at the next version,
which is nobody's yet, and for one transaction (`LandedGrows`), and what has
landed for a transaction stays (`LandedStays`). It does not say that each
transaction landed once, which is `RetryNeverDoubles` and true only outside
`exposed`. `ObservationsAsAsked` compares with `SnapshotIsolation` over `Asked`,
and leaves out only the keys in `unasked`. Those read as deleted from the failed
`Put` on (`UnaskedBuffered`), which is the one change
`ReadsChangeOnlyByFailedPut` allows.

Of what the system without failures promises, this loses `AllOrNothing`,
`EventuallyTrimmed` and, for the key of a failed `Put`, `ObservationsMatchSI`
(findings 3 to 5).

### Only model-checked

* liveness (`EventuallyTrimmed`, `StopReturns`, `PassesRecur`): fairness and
  `ENABLED` are outside the proof system's reach;
* the four violations, which are counterexamples.

## 5. What is not modelled

Not modelled:

* the messages of `Status` and its `ToString` (wording; the codes and predicates
  that control flow depends on are in `RunWithRetry`);
* the benchmark, a harness of timed loops whose results are measurements;
* `ActiveTransactionCount` (a sum over the shards that no code of the library
  uses, exact only while nobody begins or ends) and `VersionStore`'s introspection beyond its use in
  `KeysReclaimed`;
* destroying a store, manager or collector that is still in use, which the
  headers leave to the caller;
* out of memory in a direct `Put`, `Delete` or `ApplyBatch`: it spends a version
  number and may land in part, like a commit, but for no transaction;
* what memory exhaustion leaves elsewhere: an output argument already assigned by
  a call that then throws, and the empty vector of a key whose first `push_back`
  threw, which only `KeyCount` counts.

Every safety property that a passing run checks is also a theorem. Of the parts
listed above, out of memory in a direct write is the one that would add an
action; `Sound` already covers what such a call leaves in the histories.
