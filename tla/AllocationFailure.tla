-------------------------- MODULE AllocationFailure ---------------------------
(***************************************************************************)
(* The whole system when memory runs out: std::bad_alloc out of a library  *)
(* call, which unwinds to the caller.  Everybody writes through            *)
(* transactions.                                                           *)
(*                                                                         *)
(* Four failures leave something behind.  The version counter is advanced  *)
(* before a batch's entries are appended one by one, in no particular      *)
(* order; the transaction stays active.  A transaction's Put inserts the   *)
(* key as a delete before it copies the value.  Begin registers its        *)
(* snapshot before it creates the object that would remove it.  And the    *)
(* placeholder may find no room: the id is spent.                          *)
(*                                                                         *)
(* The other calls allocate before they change anything, or change only an *)
(* output argument of a call that then throws.  An append that throws may  *)
(* also leave an empty history, which stands for no history: only KeyCount *)
(* tells them apart.                                                       *)
(***************************************************************************)
EXTENDS GarbageCollector

VARIABLES
  torn,     \* history: the versions at which a part of t's batch landed
  unasked   \* history: the deletes in t's buffer that nobody asked for

failVars == <<vars, torn, unasked>>

FailInit ==
  /\ SysInit
  /\ torn = [t \in TxnId |-> {}]
  /\ unasked = [t \in TxnId |-> {}]

-------------------------------------------------------------------------------
\* push_back or table_[key] throws inside ApplyBatchIfNoConflict: only the keys
\* appended so far are there, under a version of their own.
CommitThrows(t) ==
  /\ Usable(t)
  /\ write_set[t] # Empty
  /\ Store!Conflicts(write_set[t], snapshot[t]) = {}
  /\ \E landed \in (SUBSET DOMAIN write_set[t]) \ {DOMAIN write_set[t]} :
       /\ Store!ApplyBatch([k \in landed |-> write_set[t][k]])
       /\ torn' = IF landed = {} THEN torn
                  ELSE [torn EXCEPT ![t] = @ \cup {next_version}]
  /\ Mgr!StoreWrite
  /\ UNCHANGED <<objVars, gcVars, unasked>>

\* The copy of the value throws after write_set_[key] has inserted std::nullopt.
\* If the key was already there, its entry is left as it was.
PutThrows(t, k) ==
  /\ Usable(t)
  /\ k \notin DOMAIN write_set[t]
  /\ write_set' = [write_set EXCEPT ![t] = Mgr!MapPut(@, k, Tombstone)]
  /\ unasked' = [unasked EXCEPT ![t] = @ \cup {k}]
  /\ UNCHANGED <<storeVars, regVars, state, commit_version, conflicting_keys, gcVars, torn>>

\* new Transaction throws: the snapshot is registered, nobody has the object.
BeginThrows(t) ==
  /\ UNCHANGED <<storeVars, objVars, gcVars, torn, unasked>>
  /\ Mgr!RefineSnapshot(t)

\* active_snapshots[txn_id] = 0 throws: nothing is registered.
PlaceholderThrows(t) ==
  /\ stage[t] = "assigned"
  /\ stage' = [stage EXCEPT ![t] = "gone"]
  /\ UNCHANGED <<storeVars, next_txn_id, shards, snapshot, scan, exposed, objVars, gcVars,
                 torn, unasked>>

Failure(t) ==
  \/ CommitThrows(t)
  \/ \E k \in Key : PutThrows(t, k)
  \/ BeginThrows(t)
  \/ PlaceholderThrows(t)

\* A delete nobody asked for is gone once a Put has overwritten it, or the buffer
\* has been cleared.
Regular ==
  /\ \/ \E t \in TxnId : TxnStep(t) /\ UNCHANGED gcVars
     \/ \E c \in Scanner : RunOnceStep(c)
  /\ unasked' = [t \in TxnId |-> {k \in unasked[t] : /\ k \in DOMAIN write_set'[t]
                                                     /\ write_set'[t][k] = Tombstone}]
  /\ UNCHANGED torn

FailNext == Regular \/ \E t \in TxnId : Failure(t)

FailSpec == FailInit /\ [][FailNext]_failVars

\* As in FairSpec; no failure ever has to happen.
FailFairSpec == FailSpec /\ Fairness

-------------------------------------------------------------------------------
\* What t's caller has asked for, and snapshot isolation for that.
Asked(t) == [k \in DOMAIN write_set[t] \ unasked[t] |-> write_set[t][k]]

AskedSI == INSTANCE SnapshotIsolation
             WITH state <- [t \in TxnId |-> IF stage[t] = "read" THEN "kActive" ELSE state[t]],
                  write_set <- [t \in TxnId |-> Asked(t)]

\* A commit that threw half-way is never completed by trying again, not even when
\* the collector has run in between: what landed makes every later attempt of the
\* same transaction conflict with itself (version_store.cpp:211-233), so no write
\* is applied under two versions.  Only if OldestActiveSnapshot overlooked the
\* transaction can the collector drop a tombstone that landed, and with it the
\* conflict.
RetryNeverDoubles ==
  \A t \in TxnId \ exposed : torn[t] # {} => /\ Cardinality(torn[t]) = 1
                                             /\ state[t] # "kCommitted"

\* The versions at which something of t landed.
Landed(t) == torn[t] \cup (IF state[t] = "kCommitted" /\ write_set[t] # Empty
                           THEN {commit_version[t]} ELSE {})

\* Failures included, every acknowledged commit is whole at the version Commit
\* reported, and every batch that readers can see is accounted for by exactly one
\* transaction, as the commit it was told of or as a part of one that threw
\* (transaction.cpp:125-145, version_store.cpp:229-233).
BatchesAccountedFor ==
  /\ CommitsInLog
  /\ \A t \in TxnId : Landed(t) \subseteq DOMAIN log
  /\ \A t, u \in TxnId : t # u => Landed(t) \cap Landed(u) = {}
  /\ \A i \in DOMAIN log : DOMAIN log[i] # {} => \E t \in TxnId : i \in Landed(t)
  /\ \A t \in TxnId : state[t] = "kCommitted" /\ write_set[t] # Empty
                        => commit_version[t] \notin torn[t]

\* Apart from the deletes that a failed Put leaves behind, memory exhaustion
\* changes neither what Get answers nor which keys Commit would refuse: both are
\* what snapshot isolation prescribes for what the caller did ask for
\* (transaction.cpp:33-50, 125-138), unless a scan overlooked the transaction.
ObservationsAsAsked ==
  \A t \in TxnId \ exposed : Usable(t) =>
    /\ \A k \in Key \ unasked[t] : Get(t, k) = AskedSI!Sees(t, k)
    /\ Store!Conflicts(write_set[t], snapshot[t]) \ unasked[t] = AskedSI!Overwritten(t)

\* Get reads "as of this transaction's snapshot, or from this transaction's own
\* uncommitted write buffer if it already wrote `key`" (transaction.h:78-79).  When
\* memory runs out that is not so: a Put that threw wrote nothing, and yet may hide
\* the key (transaction.cpp:60).  But nothing else does: of the keys a transaction
\* has not asked to write, no other step, its own or anybody's, changes what it
\* reads, and what one failed Put hid does not change again.
ReadsChangeOnlyByFailedPut ==
  [][\A t \in TxnId \ exposed' : Usable(t) /\ Usable(t)' =>
       \A k \in Key \ DOMAIN Asked(t)' :
         \/ Get(t, k)' = Get(t, k)
         \/ /\ k \in unasked'[t] \ unasked[t]
            /\ Get(t, k)' = Tombstone]_failVars

\* What the store promises of a batch: "a multi-key transaction's writes must become
\* visible to readers all-at-once, at one version, never partially"
\* (version_store.h:112-113).  So whatever readers see is the whole write set of a
\* transaction that committed.
AllOrNothing ==
  \A i \in DOMAIN log : DOMAIN log[i] # {} =>
    \E t \in TxnId : state[t] = "kCommitted" /\ log[i] = write_set[t]

===============================================================================
