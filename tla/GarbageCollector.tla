--------------------------- MODULE GarbageCollector ---------------------------
(***************************************************************************)
(* The whole system: transactions, direct callers of the store, and the    *)
(* threads that execute GarbageCollector::RunOnce (src/gc.cpp), i.e. the   *)
(* background thread and any caller of RunOnce.  RunOnce is not atomic: it *)
(* scans the shards, reads the version if they are all empty, collects     *)
(* under the store's lock, and adds up its statistics under stats_mutex_.  *)
(***************************************************************************)
EXTENDS Transaction, Totals

ASSUME FiniteAssumption == IsFiniteSet(Key) /\ IsFiniteSet(Scanner)

VARIABLES
  pass_stats,        \* each collector's pass_stats, NoStats when it has none
  cumulative_stats   \* cumulative_stats_

gcVars == <<pass_stats, cumulative_stats>>
vars == <<txnVars, gcVars>>

ZeroStats == [versions_reclaimed |-> 0, keys_removed |-> 0]
NoStats == [versions_reclaimed |-> -1, keys_removed |-> -1]

SysInit ==
  /\ Init
  /\ pass_stats = [c \in Scanner |-> NoStats]
  /\ cumulative_stats = ZeroStats

-------------------------------------------------------------------------------
(* GarbageCollector::RunOnce *)

\* txn_manager_.OldestActiveSnapshot(): start, one shard at a time, result.
ComputeBoundary(c) ==
  /\ pass_stats[c] = NoStats
  /\ UNCHANGED <<storeVars, objVars, gcVars>>
  /\ \/ Mgr!StartScan(c)
     \/ Mgr!VisitShard(c)
     \/ Mgr!ReturnBoundary(c)

\* store_.CollectGarbage(boundary), with whatever has changed since.
Collect(c) ==
  /\ Store!CollectGarbage(scan[c].oldest)
  /\ Mgr!UseBoundary(c)
  /\ pass_stats' = [pass_stats EXCEPT ![c] = Store!GCStats(scan[c].oldest)]
  /\ UNCHANGED <<objVars, cumulative_stats>>

Mut_AccumulateOverwrites(c) ==
  /\ pass_stats[c] # NoStats
  /\ cumulative_stats' = pass_stats[c]
  /\ pass_stats' = [pass_stats EXCEPT ![c] = NoStats]
  /\ UNCHANGED txnVars

\* The additions under stats_mutex_; RunOnce returns.
Accumulate(c) ==
  /\ pass_stats[c] # NoStats
  /\ cumulative_stats' =
       [versions_reclaimed |-> cumulative_stats.versions_reclaimed
                                 + pass_stats[c].versions_reclaimed,
        keys_removed |-> cumulative_stats.keys_removed + pass_stats[c].keys_removed]
  /\ pass_stats' = [pass_stats EXCEPT ![c] = NoStats]
  /\ UNCHANGED txnVars

RunOnceStep(c) == ComputeBoundary(c) \/ Collect(c) \/ Accumulate(c)

SysNext ==
  \/ TxnNext /\ UNCHANGED gcVars
  \/ \E c \in Scanner : RunOnceStep(c)

SysSpec == SysInit /\ [][SysNext]_vars

\* The background thread keeps running passes (BackgroundLoop), and a thread
\* inside Begin, Commit or Abort finishes the call: no lock is ever held across
\* another one.  Callers owe nothing: they may keep a transaction for ever.
Fairness ==
  /\ \A c \in Scanner : WF_vars(RunOnceStep(c))
  /\ \A t \in TxnId : WF_vars(stage[t] # "none"
                               /\ (BeginStep(t) \/ BeginReturn(t) \/ EndUnregister(t))
                               /\ UNCHANGED gcVars)

FairSpec == SysSpec /\ Fairness

-------------------------------------------------------------------------------
Holding == Mgr!Holding

\* A step of a transaction whose Begin fell into a scan's blind spot.
ExposedStep == \E t \in exposed' : state'[t] # state[t] \/ write_set'[t] # write_set[t]

\* A step that keeps the store's side of the bargain: a boundary is no newer than
\* the store, nor than any snapshot in use, and a commit is validated against a
\* snapshot that no boundary has passed.
ContractStep ==
  \/ UNCHANGED storeVars
  \/ UNCHANGED objVars /\ \E ops \in Store!Batch : Store!ApplyBatch(ops)
  \/ \E t \in TxnId : /\ snapshot[t] \in horizon .. Store!CurrentVersion
                      /\ Store!ApplyBatchIfNoConflict(write_set[t], snapshot[t])
  \/ \E b \in 0 .. Store!CurrentVersion : /\ Store!CollectGarbage(b)
                                           /\ \A t \in Holding \ exposed : b <= snapshot[t]

\* What CollectGarbage trusts its caller with, "that no active snapshot is older
\* than `safe_boundary`" and "that no future GetAsOf call will ever ask for a version
\* older than whatever boundary was last passed here" (version_store.h:121-127), is
\* kept however long ago the boundary was computed (gc.cpp:8-9) and whatever began,
\* committed or wrote directly since, except towards transactions that
\* OldestActiveSnapshot overlooked.
ImplementsStore == Store!Init /\ [][ContractStep \/ ExposedStep]_vars

\* The whole system, collector included, is snapshot isolation as transactions
\* were promised it (transaction.h:21-67): every step of every thread is one of
\* SnapshotIsolation or invisible to it, other than what a transaction does that
\* OldestActiveSnapshot overlooked.
ImplementsSIUnlessExposed == SI!Init /\ [][[SI!Next]_SI!siVars \/ ExposedStep]_vars

\* GC never breaks a reader (tests/test_gc.cpp:35-36): every transaction whose
\* Begin was not in a scan's blind spot keeps reading, at its snapshot, what a
\* store that never collects would show it.
SnapshotStable ==
  \A t \in Holding \ exposed, k \in Key :
    Store!GetAsOf(k, snapshot[t]) = Store!LogAsOf(k, snapshot[t])

\* "a consistent, unchanging view of the whole store ... for the lifetime of the
\* transaction" (transaction.h:21-23): a key that the transaction has not written
\* reads the same before and after every step, whoever committed, wrote directly or
\* collected, and whatever it buffered meanwhile for other keys.
RepeatableReads ==
  [][\A t \in TxnId \ exposed' : Usable(t) /\ Usable(t)' =>
       \A k \in Key \ DOMAIN write_set'[t] : Get(t, k)' = Get(t, k)]_vars

\* No other batch wrote a key of t's write set between its snapshot and commit.
NoLostUpdate(t) ==
  state[t] = "kCommitted" /\ write_set[t] # Empty =>
    \A i \in snapshot[t] + 1 .. commit_version[t] - 1 :
      DOMAIN log[i] \cap DOMAIN write_set[t] = {}

\* First committer wins although the collector drops the very entries the
\* conflict check compares with (version_store.cpp:178-183, 211-220).
FirstCommitterWins == \A t \in TxnId \ exposed : NoLostUpdate(t)

\* The documented promise (transaction.h:49-55) has no such exception.
FirstCommitterAlwaysWins == \A t \in TxnId : NoLostUpdate(t)

-------------------------------------------------------------------------------
\* Entries ever written, and those that are tombstones.
Written == Total([i \in DOMAIN log |-> Cardinality(DOMAIN log[i])])
Stored == Total([k \in Key |-> Len(table[k])])
Deleted(i) == {k \in DOMAIN log[i] : log[i][k] = Tombstone}
TombstonesWritten == Total([i \in DOMAIN log |-> Cardinality(Deleted(i))])

\* What a pass has collected and not added up yet.
Pending(c) == IF pass_stats[c] = NoStats THEN ZeroStats ELSE pass_stats[c]

\* Nothing is counted twice or lost by concurrent passes: every entry ever
\* written is still stored, or counted in the cumulative statistics, or in the
\* statistics of one pass that is about to add them (gc.cpp:11-13); and a key
\* is removed at most once per tombstone.
StatsConserved ==
  /\ Written = Stored + cumulative_stats.versions_reclaimed
                 + Total([c \in Scanner |-> Pending(c).versions_reclaimed])
  /\ cumulative_stats.keys_removed + Total([c \in Scanner |-> Pending(c).keys_removed])
       <= TombstonesWritten

\* The store is past w, and no transaction still in use is older than w.
Settled(w) == /\ next_version > w
              /\ \A t \in TxnId : state[t] = "kActive" => snapshot[t] >= w

\* What is left of a history once everything superseded at w is gone.
Trimmed(w) ==
  \A k \in Key :
    LET old == {i \in DOMAIN table[k] : table[k][i].version <= w}
    IN /\ Cardinality(old) <= 1
       /\ \A i \in old : Len(table[k]) = 1 => table[k][i].value # Tombstone

\* Reclamation is not held up for ever: once the store has reached version w
\* and every transaction its caller still keeps active has a snapshot of at
\* least w, each key comes down to at most one entry of version w or less, and
\* to none if that would be a lone tombstone (transaction.cpp:20-31, 169-177:
\* destructors, aborts and placeholders must not pin the boundary).
EventuallyTrimmed == \A w \in 1 .. MaxVersion : <>[]Settled(w) => <>[]Trimmed(w)

===============================================================================
