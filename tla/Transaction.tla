----------------------------- MODULE Transaction ------------------------------
(***************************************************************************)
(* Transaction objects (src/transaction.cpp) over the VersionStore and the *)
(* TransactionManager, with direct callers of the store beside them.       *)
(*                                                                         *)
(* A Transaction is used by one thread at a time, so its own fields change *)
(* together with the lock-protected step they accompany; what other        *)
(* threads can interleave with are the store's lock sections and the shard *)
(* lock sections.  Commit and Abort are therefore two steps: the one that  *)
(* decides the outcome (the store section, or a local change) and the      *)
(* Unregister that follows.  Get is one store section that changes         *)
(* nothing, so it is a state function.  A call that returns                *)
(* InvalidArgument (not active, empty key) changes nothing either: the     *)
(* early return is the Usable guard.                                       *)
(***************************************************************************)
EXTENDS Integers, Sequences, FiniteSets

CONSTANTS Key, Value, Tombstone, MaxVersion,
          kNumShards, MaxTxns, UInt64Max, Scanner,
          DirectBatch   \* what direct callers pass to ApplyBatch

ASSUME TombstoneAssumption == Tombstone \notin Value
ASSUME ShardsAssumption == kNumShards \in Nat \ {0}
ASSUME BoundsAssumption == /\ MaxTxns \in Nat
                           /\ MaxVersion \in Nat
                           /\ UInt64Max \in Nat
                           /\ MaxVersion < UInt64Max

VARIABLES
  table, next_version, log, horizon,                    \* VersionStore
  next_txn_id, shards, stage, snapshot, scan, exposed,  \* TransactionManager
  state,           \* state_ of each transaction; "none" before Begin returns it
  write_set,       \* write_set_: keys buffered, each with a value or a tombstone
  commit_version,  \* *out_commit_version of a successful Commit, 0 before
  conflicting_keys \* *out_conflicting_keys of a refused Commit, {} otherwise

Store == INSTANCE VersionStore
Mgr   == INSTANCE TransactionManager WITH version <- next_version - 1

ASSUME DirectAssumption == DirectBatch \subseteq Store!Batch

storeVars == <<table, next_version, log, horizon>>
regVars   == <<next_txn_id, shards, stage, snapshot, scan, exposed>>
objVars   == <<state, write_set, commit_version, conflicting_keys>>
txnVars   == <<storeVars, regVars, objVars>>

TxnId == Mgr!TxnId
Empty == [k \in {} |-> Tombstone]

\* "dropped" is the destructor run on an active transaction.
States == {"none", "kActive", "kCommitted", "kAborted", "dropped"}

Init ==
  /\ Store!Init
  /\ Mgr!Init
  /\ state = [t \in TxnId |-> "none"]
  /\ write_set = [t \in TxnId |-> Empty]
  /\ commit_version = [t \in TxnId |-> 0]
  /\ conflicting_keys = [t \in TxnId |-> {}]

-------------------------------------------------------------------------------
(* TransactionManager::Begin: its four steps, the last one handing out the  *)
(* constructed object.                                                      *)

BeginStep(t) ==
  /\ UNCHANGED <<storeVars, objVars>>
  /\ \/ Mgr!AssignId(t)
     \/ Mgr!RegisterPlaceholder(t)
     \/ Mgr!ReadSnapshot(t)

BeginReturn(t) ==
  /\ UNCHANGED storeVars
  /\ Mgr!RefineSnapshot(t)
  /\ state' = [state EXCEPT ![t] = "kActive"]
  /\ UNCHANGED <<write_set, commit_version, conflicting_keys>>

-------------------------------------------------------------------------------
Usable(t) == stage[t] = "live" /\ state[t] = "kActive"

Mut_GetLatest(t, k) == IF k \in DOMAIN write_set[t] THEN write_set[t][k] ELSE Store!Get(k)

\* Transaction::Get: the own buffered write wins over the snapshot; Tombstone
\* is NotFound.
Get(t, k) == IF k \in DOMAIN write_set[t] THEN write_set[t][k]
             ELSE Store!GetAsOf(k, snapshot[t])

Put(t, k, v) ==
  /\ Usable(t)
  /\ write_set' = [write_set EXCEPT ![t] = Mgr!MapPut(@, k, v)]
  /\ UNCHANGED <<storeVars, regVars, state, commit_version, conflicting_keys>>

\* NotFound, with nothing buffered, unless the transaction sees a value.
Delete(t, k) ==
  /\ Usable(t)
  /\ Get(t, k) # Tombstone
  /\ write_set' = [write_set EXCEPT ![t] = Mgr!MapPut(@, k, Tombstone)]
  /\ UNCHANGED <<storeVars, regVars, state, commit_version, conflicting_keys>>

-------------------------------------------------------------------------------
(* Transaction::Commit, Abort, destructor *)

CommitReadOnly(t) ==
  /\ Usable(t)
  /\ write_set[t] = Empty
  /\ state' = [state EXCEPT ![t] = "kCommitted"]
  /\ commit_version' = [commit_version EXCEPT ![t] = snapshot[t]]
  /\ UNCHANGED <<storeVars, regVars, write_set, conflicting_keys>>

Mut_CommitApplyUnchecked(t) ==
  /\ Usable(t)
  /\ write_set[t] # Empty
  /\ Store!ApplyBatch(write_set[t])
  /\ Mgr!StoreWrite
  /\ state' = [state EXCEPT ![t] = "kCommitted"]
  /\ commit_version' = [commit_version EXCEPT ![t] = next_version]
  /\ UNCHANGED <<write_set, conflicting_keys>>

Mut_CommitApplyStaleVersion(t) ==
  /\ Usable(t)
  /\ write_set[t] # Empty
  /\ Store!ApplyBatchIfNoConflict(write_set[t], snapshot[t])
  /\ Mgr!StoreWrite
  /\ state' = [state EXCEPT ![t] = "kCommitted"]
  /\ commit_version' = [commit_version EXCEPT ![t] = next_version - 1]
  /\ UNCHANGED <<write_set, conflicting_keys>>

\* ApplyBatchIfNoConflict validates and applies under one lock section.
CommitApply(t) ==
  /\ Usable(t)
  /\ write_set[t] # Empty
  /\ Store!ApplyBatchIfNoConflict(write_set[t], snapshot[t])
  /\ Mgr!StoreWrite
  /\ state' = [state EXCEPT ![t] = "kCommitted"]
  /\ commit_version' = [commit_version EXCEPT ![t] = next_version]
  /\ UNCHANGED <<write_set, conflicting_keys>>

\* On conflict nothing is applied, the buffer is discarded, the transaction is
\* aborted; the conflicting keys are reported.
CommitConflict(t) ==
  /\ Usable(t)
  /\ Store!Conflicts(write_set[t], snapshot[t]) # {}
  /\ conflicting_keys' =
       [conflicting_keys EXCEPT ![t] = Store!Conflicts(write_set[t], snapshot[t])]
  /\ write_set' = [write_set EXCEPT ![t] = Empty]
  /\ state' = [state EXCEPT ![t] = "kAborted"]
  /\ UNCHANGED <<storeVars, regVars, commit_version>>

Abort(t) ==
  /\ Usable(t)
  /\ write_set' = [write_set EXCEPT ![t] = Empty]
  /\ state' = [state EXCEPT ![t] = "kAborted"]
  /\ UNCHANGED <<storeVars, regVars, commit_version, conflicting_keys>>

\* The Unregister at the end of Commit and Abort.
EndUnregister(t) ==
  /\ state[t] \in {"kCommitted", "kAborted"}
  /\ UNCHANGED <<storeVars, objVars>>
  /\ Mgr!Unregister(t)

Mut_DestroyLeaksRegistration(t) ==
  /\ Usable(t)
  /\ state' = [state EXCEPT ![t] = "dropped"]
  /\ write_set' = [write_set EXCEPT ![t] = Empty]
  /\ UNCHANGED <<storeVars, regVars, commit_version, conflicting_keys>>

\* ~Transaction on an active transaction: unregister, nothing else.
Destroy(t) ==
  /\ Usable(t)
  /\ UNCHANGED storeVars
  /\ Mgr!Unregister(t)
  /\ state' = [state EXCEPT ![t] = "dropped"]
  /\ write_set' = [write_set EXCEPT ![t] = Empty]
  /\ UNCHANGED <<commit_version, conflicting_keys>>

\* A caller of VersionStore::Put, Delete or ApplyBatch outside any transaction.
DirectWrite ==
  /\ \/ \E k \in Key : Store!Delete(k) \/ \E v \in Value : Store!Put(k, v)
     \/ \E ops \in DirectBatch : Store!ApplyBatch(ops)
  /\ Mgr!StoreWrite
  /\ UNCHANGED objVars

-------------------------------------------------------------------------------
TxnStep(t) ==
  \/ BeginStep(t)
  \/ BeginReturn(t)
  \/ \E k \in Key : Delete(t, k) \/ \E v \in Value : Put(t, k, v)
  \/ CommitReadOnly(t)
  \/ CommitApply(t)
  \/ CommitConflict(t)
  \/ Abort(t)
  \/ EndUnregister(t)
  \/ Destroy(t)

TxnNext == DirectWrite \/ \E t \in TxnId : TxnStep(t)

TxnSpec == Init /\ [][TxnNext]_txnVars

-------------------------------------------------------------------------------
(* Refinement: to the abstract specification a transaction begins when it   *)
(* reads its snapshot version, before Begin has returned it to the caller.  *)

SI == INSTANCE SnapshotIsolation
        WITH state <- [t \in TxnId |-> IF stage[t] = "read" THEN "kActive" ELSE state[t]]

\* With no collector running, transactions implement snapshot isolation for
\* every interleaving of Begin's steps, buffered calls, commits, direct writers
\* and destructors (transaction.h:21-67): atomic batches, no effect
\* of what does not commit, first committer wins, and exactly the conflicting keys reported.
ImplementsSI == SI!Spec

\* At every moment, Get would answer each active transaction what snapshot
\* isolation prescribes, and Commit would refuse it for exactly the keys that
\* someone else wrote since its snapshot (transaction.cpp:33-50, 125-138), unless
\* its Begin was in a scan's blind spot.
ObservationsMatchSI ==
  \A t \in TxnId \ exposed : Usable(t) =>
    /\ \A k \in Key : Get(t, k) = SI!Sees(t, k)
    /\ Store!Conflicts(write_set[t], snapshot[t]) = SI!Overwritten(t)

\* An acknowledged commit is not lost, not torn and not shared: at the version that
\* Commit reported, the log holds all that the transaction had buffered and nothing
\* else, and no other transaction was told that version (transaction.cpp:140-145).
\* It does not say that no other batch came from it: that is ImplementsSI.
CommitsInLog ==
  \A t \in TxnId : state[t] = "kCommitted" /\ write_set[t] # Empty =>
    /\ commit_version[t] \in 1 .. Len(log)
    /\ log[commit_version[t]] = write_set[t]
    /\ \A u \in TxnId \ {t} : state[u] = "kCommitted" /\ write_set[u] # Empty
                                => commit_version[u] # commit_version[t]

===============================================================================
