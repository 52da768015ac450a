----------------------------- MODULE RunWithRetry -----------------------------
(***************************************************************************)
(* RunWithRetry (src/transaction.cpp) on any number of threads, over the   *)
(* transactions, registry and store of module Transaction.  Every attempt  *)
(* is a transaction of its own.                                            *)
(*                                                                         *)
(* The callback is the caller's code.  It may increment a counter that it  *)
(* reads in its transaction, do nothing, finish the transaction itself,    *)
(* and return any status, one that reads as a conflict included, or throw; *)
(* it does end.                                                            *)
(***************************************************************************)
EXTENDS Transaction

CONSTANTS Caller,       \* threads that call RunWithRetry
          MaxAttempts   \* bound: the largest max_attempts passed

VARIABLES
  at,            \* where each caller is in RunWithRetry
  txn,           \* the current attempt's transaction, 0 before the first
  attempts_left, \* max_attempts - attempt
  body_status,   \* what the body returned, kOk before it has
  status,        \* commit_status, and the result once returned
  made,          \* history: the attempts of the current call
  called_at,     \* history: how many batches there were when it was called
  granted        \* bound: attempts that the calls so far may make altogether

results == <<body_status, status>>
retryVars == <<at, txn, attempts_left, results, made, called_at, granted>>
allVars == <<txnVars, retryVars>>

Code == {"kOk", "kNotFound", "kInvalidArgument", "kConflict"}
Threw == "threw"   \* no Status at all: an exception

ok(s) == s = "kOk"
is_conflict(s) == s = "kConflict"

RetryInit ==
  /\ Init
  /\ at = [c \in Caller |-> "returned"]
  /\ txn = [c \in Caller |-> 0]
  /\ attempts_left = [c \in Caller |-> 0]
  /\ body_status = [c \in Caller |-> "kOk"]
  /\ status = [c \in Caller |-> "kOk"]
  /\ made = [c \in Caller |-> {}]
  /\ called_at = [c \in Caller |-> 0]
  /\ granted = 0

Goto(c, next) == at' = [at EXCEPT ![c] = next]

\* A step of c's current transaction, after which c is at `next`.
Within(c, next) ==
  Goto(c, next) /\ UNCHANGED <<txn, attempts_left, made, called_at, granted>>

-------------------------------------------------------------------------------
\* A call with max_attempts = m; a non-positive m is refused at once.
Call(c, m) ==
  /\ at[c] = "returned"
  /\ granted + m <= MaxTxns
  /\ granted' = granted + m
  /\ Goto(c, IF m <= 0 THEN "returned" ELSE "attempt")
  /\ status' = [status EXCEPT ![c] = IF m <= 0 THEN "kInvalidArgument" ELSE "kOk"]
  /\ body_status' = [body_status EXCEPT ![c] = "kOk"]
  /\ attempts_left' = [attempts_left EXCEPT ![c] = m]
  /\ made' = [made EXCEPT ![c] = {}]
  /\ called_at' = [called_at EXCEPT ![c] = Len(log)]
  /\ UNCHANGED <<txnVars, txn>>

\* One iteration of the loop starts with a Begin of its own.
Attempt(c) ==
  /\ at[c] = "attempt"
  /\ UNCHANGED <<storeVars, objVars>>
  /\ \E t \in TxnId :
       /\ Mgr!AssignId(t)
       /\ txn' = [txn EXCEPT ![c] = t]
       /\ made' = [made EXCEPT ![c] = @ \cup {t}]
  /\ attempts_left' = [attempts_left EXCEPT ![c] = @ - 1]
  /\ Goto(c, "begin")
  /\ UNCHANGED <<results, called_at, granted>>

Begin(c) ==
  /\ at[c] = "begin"
  /\ \/ BeginStep(txn[c]) /\ Within(c, "begin")
     \/ BeginReturn(txn[c]) /\ Within(c, "body")
  /\ UNCHANGED results

-------------------------------------------------------------------------------
(* The callback. *)

\* A counter's value; an absent key counts as 0.  Value bounds the counters.
Count(x) == IF x = Tombstone THEN 0 ELSE x

Increment(c) ==
  /\ at[c] = "body"
  /\ write_set[txn[c]] = Empty
  /\ \E k \in Key, v \in Value : /\ v = Count(Get(txn[c], k)) + 1
                                 /\ Put(txn[c], k, v)
  /\ Within(c, "body")
  /\ UNCHANGED results

\* The body finishes the transaction itself, whatever comes of it.
BodyEnds(c) ==
  /\ at[c] = "body"
  /\ \/ CommitReadOnly(txn[c]) \/ CommitApply(txn[c]) \/ CommitConflict(txn[c])
     \/ Abort(txn[c])
  /\ Within(c, "body_unregister")
  /\ UNCHANGED results

BodyUnregister(c) ==
  /\ at[c] = "body_unregister"
  /\ EndUnregister(txn[c])
  /\ Within(c, "body")
  /\ UNCHANGED results

BodyReturns(c) ==
  /\ at[c] = "body"
  /\ \E s \in Code :
       /\ body_status' = [body_status EXCEPT ![c] = s]
       /\ Within(c, IF ok(s) THEN "commit" ELSE "abort")
  /\ UNCHANGED <<txnVars, status>>

\* An exception leaves RunWithRetry; the unique_ptr destroys the transaction.
BodyThrows(c) ==
  /\ at[c] = "body"
  /\ \/ Destroy(txn[c])
     \/ ~Usable(txn[c]) /\ UNCHANGED txnVars
  /\ status' = [status EXCEPT ![c] = Threw]
  /\ Within(c, "returned")
  /\ UNCHANGED body_status

-------------------------------------------------------------------------------
Mut_DeclinedDecides(c) ==
  /\ at[c] = "abort"
  /\ \/ Abort(txn[c]) /\ Within(c, "unregister")
     \/ ~Usable(txn[c]) /\ UNCHANGED txnVars /\ Within(c, "decide")
  /\ status' = [status EXCEPT ![c] = body_status[c]]
  /\ UNCHANGED body_status

\* txn->Abort() after the body declined; its InvalidArgument is ignored, and
\* body_status is the result, with no retry even if it is a conflict.
Declined(c) ==
  /\ at[c] = "abort"
  /\ \/ Abort(txn[c]) /\ Within(c, "declined")
     \/ ~Usable(txn[c]) /\ UNCHANGED txnVars /\ Within(c, "returned")
  /\ status' = [status EXCEPT ![c] = body_status[c]]
  /\ UNCHANGED body_status

\* txn->Commit(), up to its Unregister; refused if the body ended the transaction.
Commit(c) ==
  /\ at[c] = "commit"
  /\ \/ /\ CommitReadOnly(txn[c]) \/ CommitApply(txn[c])
        /\ status' = [status EXCEPT ![c] = "kOk"] /\ Within(c, "unregister")
     \/ /\ CommitConflict(txn[c])
        /\ status' = [status EXCEPT ![c] = "kConflict"] /\ Within(c, "unregister")
     \/ /\ ~Usable(txn[c]) /\ UNCHANGED txnVars
        /\ status' = [status EXCEPT ![c] = "kInvalidArgument"] /\ Within(c, "decide")
  /\ UNCHANGED body_status

\* The last step of that Abort or Commit.
Unregister(c) ==
  /\ \/ at[c] = "declined" /\ Within(c, "returned")
     \/ at[c] = "unregister" /\ Within(c, "decide")
  /\ EndUnregister(txn[c])
  /\ UNCHANGED results

\* Only a conflict that Commit reported is retried, while attempts are left.
Decide(c) ==
  /\ at[c] = "decide"
  /\ Within(c, IF is_conflict(status[c]) /\ attempts_left[c] > 0 THEN "attempt" ELSE "returned")
  /\ UNCHANGED <<txnVars, results>>

-------------------------------------------------------------------------------
CallerStep(c) ==
  \/ Attempt(c) \/ Begin(c)
  \/ Increment(c) \/ BodyEnds(c) \/ BodyUnregister(c) \/ BodyReturns(c)
  \/ BodyThrows(c)
  \/ Declined(c) \/ Commit(c) \/ Unregister(c) \/ Decide(c)

RetryNext ==
  \E c \in Caller : CallerStep(c) \/ \E m \in 0 .. MaxAttempts : Call(c, m)

RetrySpec == RetryInit /\ [][RetryNext]_allVars

-------------------------------------------------------------------------------
Committed(T) == {t \in T : state[t] = "kCommitted"}

\* However often it retries, a call takes effect at most once, also when the
\* body has already committed on its own; OK means that it took effect, and a
\* conflict that Commit reported means that it did not (transaction.cpp:261-276).
\* A conflict of the body's own is handed on as it is and says neither
\* (transaction.cpp:254-259).
EffectAtMostOnce ==
  \A c \in Caller :
    /\ Cardinality(Committed(made[c])) <= 1
    /\ at[c] = "returned" /\ made[c] # {} =>
         /\ ok(status[c]) => Committed(made[c]) # {}
         /\ ok(body_status[c]) /\ is_conflict(status[c]) => Committed(made[c]) = {}

\* Concurrent read-modify-write bodies lose no update: every counter is the number
\* of transactions that committed an increment of it
\* (tests/stress_test_transaction.cpp:173).
EveryIncrementCounts ==
  \A k \in Key :
    Count(Store!Get(k)) = Cardinality({t \in Committed(TxnId) : k \in DOMAIN write_set[t]})

\* Retrying is not futile: a call that gives up after refused Commits lost each
\* of its attempts to a different batch of somebody else, because each attempt has
\* a fresh snapshot (transaction.cpp:272-273).  So some caller always gets through.
\* A body that declined with a conflict is not such a call.
ConflictMeansProgress ==
  \A c \in Caller :
    at[c] = "returned" /\ ok(body_status[c]) /\ is_conflict(status[c]) =>
      Len(log) - called_at[c] >= Cardinality(made[c])

\* A returned call leaves no attempt registered, on any path: the next collection
\* is not held back (transaction.cpp:20-31, 257, 261).
NothingLeftRegistered ==
  \A c \in Caller : at[c] = "returned" =>
    \A s \in DOMAIN shards : made[c] \cap DOMAIN shards[s] = {}

===============================================================================
