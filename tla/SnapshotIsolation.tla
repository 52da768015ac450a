-------------------------- MODULE SnapshotIsolation ---------------------------
(***************************************************************************)
(* What transactions promise (transaction.h:21-67), with no versions kept, *)
(* no registry and no garbage collector: the committed batches form a log; *)
(* Begin remembers how long the log is; reads see the log up to there plus *)
(* the transaction's own writes; Commit appends the write buffer as one    *)
(* batch unless a later batch wrote one of its keys (first committer       *)
(* wins), and then names exactly those keys.                               *)
(***************************************************************************)
EXTENDS Integers, Sequences

CONSTANTS Key, Value, Tombstone, TxnId

VARIABLES log, state, snapshot, write_set, conflicting_keys

siVars == <<log, state, snapshot, write_set, conflicting_keys>>

Cell == Value \cup {Tombstone}
Batch == UNION {[D -> Cell] : D \in (SUBSET Key) \ {{}}}
Empty == [k \in {} |-> Tombstone]

Init ==
  /\ log = <<>>
  /\ state = [t \in TxnId |-> "none"]
  /\ snapshot = [t \in TxnId |-> 0]
  /\ write_set = [t \in TxnId |-> Empty]
  /\ conflicting_keys = [t \in TxnId |-> {}]

\* The last value written to k by the first s batches.
AsOf(k, s) ==
  LET W == {i \in 1 .. s : k \in DOMAIN log[i]}
  IN IF W = {} THEN Tombstone ELSE log[CHOOSE i \in W : \A j \in W : j <= i][k]

\* What a read of k inside t returns.
Sees(t, k) == IF k \in DOMAIN write_set[t] THEN write_set[t][k] ELSE AsOf(k, snapshot[t])

\* The keys of t's buffer that others wrote after t's snapshot.
Overwritten(t) ==
  {k \in DOMAIN write_set[t] : \E i \in snapshot[t] + 1 .. Len(log) : k \in DOMAIN log[i]}

-------------------------------------------------------------------------------
Begin(t) ==
  /\ state[t] = "none"
  /\ state' = [state EXCEPT ![t] = "kActive"]
  /\ snapshot' = [snapshot EXCEPT ![t] = Len(log)]
  /\ UNCHANGED <<log, write_set, conflicting_keys>>

\* Buffer a value, or a tombstone where the transaction sees a value.
Write(t, k, x) ==
  /\ state[t] = "kActive"
  /\ x = Tombstone => Sees(t, k) # Tombstone
  /\ write_set' = [write_set EXCEPT ![t] =
                     [y \in DOMAIN @ \cup {k} |-> IF y = k THEN x ELSE @[y]]]
  /\ UNCHANGED <<log, state, snapshot, conflicting_keys>>

Commit(t) ==
  /\ state[t] = "kActive"
  /\ Overwritten(t) = {}
  /\ state' = [state EXCEPT ![t] = "kCommitted"]
  /\ log' = IF write_set[t] = Empty THEN log ELSE Append(log, write_set[t])
  /\ UNCHANGED <<snapshot, write_set, conflicting_keys>>

\* By the caller's choice at any time; the buffered writes vanish.
Abort(t) ==
  /\ state[t] = "kActive"
  /\ state' = [state EXCEPT ![t] = "kAborted"]
  /\ write_set' = [write_set EXCEPT ![t] = Empty]
  /\ UNCHANGED <<log, snapshot, conflicting_keys>>

\* Commit is refused, naming the keys.
Conflict(t) ==
  /\ state[t] = "kActive"
  /\ Overwritten(t) # {}
  /\ state' = [state EXCEPT ![t] = "kAborted"]
  /\ write_set' = [write_set EXCEPT ![t] = Empty]
  /\ conflicting_keys' = [conflicting_keys EXCEPT ![t] = Overwritten(t)]
  /\ UNCHANGED <<log, snapshot>>

\* The object is destroyed while active.
Drop(t) ==
  /\ state[t] = "kActive"
  /\ state' = [state EXCEPT ![t] = "dropped"]
  /\ write_set' = [write_set EXCEPT ![t] = Empty]
  /\ UNCHANGED <<log, snapshot, conflicting_keys>>

\* A write from outside any transaction is a batch of its own.
DirectWrite ==
  /\ \E ops \in Batch : log' = Append(log, ops)
  /\ UNCHANGED <<state, snapshot, write_set, conflicting_keys>>

Next ==
  \/ DirectWrite
  \/ \E t \in TxnId :
       \/ Begin(t) \/ Commit(t) \/ Conflict(t) \/ Abort(t) \/ Drop(t)
       \/ \E k \in Key, x \in Cell : Write(t, k, x)

Spec == Init /\ [][Next]_siVars

===============================================================================
