-------------------------- MODULE RunWithRetryProofs ---------------------------
(***************************************************************************)
(* What RunWithRetry promises its callers, for any number of threads,      *)
(* calls and attempts.  Every step of a caller is a step of its current    *)
(* attempt, so the transactions' invariant TInv holds; CallInv adds what a *)
(* call knows of its attempts at each place of the loop.                   *)
(***************************************************************************)
EXTENDS RunWithRetry, TransactionProofs, FiniteSetTheorems

Places == {"returned", "attempt", "begin", "body", "body_unregister", "commit", "abort",
           "declined", "unregister", "decide"}
Inside == Places \ {"returned", "attempt"}

CallTypeOK ==
  /\ at \in [Caller -> Places]
  /\ txn \in [Caller -> TxnId \cup {0}]
  /\ body_status \in [Caller -> Code]
  /\ status \in [Caller -> Code \cup {Threw}]
  /\ made \in [Caller -> SUBSET TxnId]
  /\ called_at \in [Caller -> Nat]

\* Where the current attempt is; every attempt of a call that is between
\* attempts, or over, has been unregistered.
Current(c) ==
  /\ at[c] \in Inside \/ made[c] # {} => txn[c] \in made[c]
  /\ at[c] = "begin" => stage[txn[c]] \in {"assigned", "placeholder", "read"}
  /\ at[c] \in {"body", "commit", "abort"} => Usable(txn[c]) \/ stage[txn[c]] = "gone"
  /\ at[c] \in {"body_unregister", "declined", "unregister"} =>
       stage[txn[c]] = "live" /\ state[txn[c]] \in {"kCommitted", "kAborted"}
  /\ at[c] = "decide" => stage[txn[c]] = "gone"
  /\ at[c] \in {"attempt", "returned"} => \A t \in made[c] : stage[t] = "gone"

\* Every attempt but the last was refused.
Earlier(c) ==
  \A t \in made[c] : /\ stage[t] # "none"
                     /\ t # txn[c] => stage[t] = "gone" /\ state[t] = "kAborted"

\* What the two statuses say of the last attempt.
Outcome(c) ==
  /\ at[c] \in Places \ {"abort", "declined", "returned"} => ok(body_status[c])
  /\ at[c] \in {"abort", "declined"} => ~ok(body_status[c])
  /\ at[c] = "declined" => status[c] = body_status[c]
  /\ at[c] \in {"unregister", "decide", "returned"} /\ made[c] # {} =>
       /\ ok(status[c]) => state[txn[c]] = "kCommitted"
       /\ ok(body_status[c]) /\ is_conflict(status[c]) => state[txn[c]] = "kAborted"
  /\ at[c] = "attempt" => \A t \in made[c] : state[t] = "kAborted"

\* How many batches the call has to have seen once all its attempts are refused.
Due(c) == called_at[c] + Cardinality(made[c])

\* Every refused attempt was beaten by a batch after its snapshot, and the next
\* snapshot includes that batch.
Progress(c) ==
  /\ at[c] = "attempt" => Len(log) >= Due(c)
  /\ at[c] = "begin" => Len(log) + 1 >= Due(c)
  /\ at[c] \in {"begin", "body", "commit"} /\ stage[txn[c]] \in {"read", "live"} =>
       snapshot[txn[c]] + 1 >= Due(c)
  /\ /\ at[c] \in {"unregister", "decide", "returned"}
     /\ ok(body_status[c]) /\ is_conflict(status[c])
     => Len(log) >= Due(c)

CallInv(c) == Current(c) /\ Earlier(c) /\ Outcome(c) /\ Progress(c)

Disjoint == \A c, d \in Caller : c # d => made[c] \cap made[d] = {}

\* The inductive invariant.
RInv == TInv /\ exposed = {} /\ CallTypeOK /\ Disjoint /\ \A c \in Caller : CallInv(c)

USE DEF results

-------------------------------------------------------------------------------
\* A caller only ever steps the transaction of its current attempt.
LEMMA StepsCurrent ==
  ASSUME RInv, NEW c \in Caller, CallerStep(c)
  PROVE  \/ UNCHANGED txnVars
         \/ txn'[c] \in TxnId /\ TxnStep(txn'[c])
<1>0. /\ txn \in [Caller -> TxnId \cup {0}] /\ made[c] \subseteq TxnId
      /\ at[c] \in Inside => txn[c] \in made[c]
  BY DEF RInv, CallTypeOK, CallInv, Current
<1>1. CASE Attempt(c)
  BY <1>0, <1>1 DEF Attempt, TxnStep, BeginStep
<1>2. CASE Begin(c)
  BY <1>0, <1>2 DEF Begin, Within, TxnStep, Inside, Places
<1>3. CASE Increment(c)
  <2>1. PICK k \in Key, v \in Value : Put(txn[c], k, v)
    BY <1>3 DEF Increment
  <2> QED
    BY <1>0, <1>3, <2>1 DEF Increment, Within, TxnStep, Inside, Places
<1>4. CASE BodyEnds(c) \/ BodyUnregister(c) \/ BodyReturns(c) \/ BodyThrows(c)
  BY <1>0, <1>4
  DEF BodyEnds, BodyUnregister, BodyReturns, BodyThrows, Within, TxnStep, Inside, Places
<1>5. CASE Declined(c) \/ Commit(c) \/ Unregister(c) \/ Decide(c)
  BY <1>0, <1>5 DEF Declined, Commit, Unregister, Decide, Within, TxnStep, Inside, Places
<1> QED
  BY <1>1, <1>2, <1>3, <1>4, <1>5 DEF CallerStep

\* So a run of callers is a run of transactions.
LEMMA UsesTransactions ==
  ASSUME RInv, [RetryNext]_allVars
  PROVE  [TxnNext]_txnVars
BY StepsCurrent DEF RetryNext, Call, allVars, TxnNext

\* The fields of a call stay well typed, and no transaction is an attempt of two calls.
LEMMA CallTypes ==
  ASSUME RInv, [RetryNext]_allVars
  PROVE  CallTypeOK' /\ Disjoint'
<1> USE DEF CallTypeOK, Places, Code, Threw
<1>0. CallTypeOK /\ Disjoint /\ Len(log) \in Nat
  BY Typing DEF RInv, TInv
<1>1. ASSUME NEW c \in Caller, NEW m \in 0 .. MaxAttempts, Call(c, m) PROVE CallTypeOK' /\ Disjoint'
  BY <1>0, <1>1 DEF Call, Goto, Disjoint
<1>2. ASSUME NEW c \in Caller, Attempt(c) PROVE CallTypeOK' /\ Disjoint'
  <2>1. PICK t \in TxnId : /\ stage[t] = "none"
                           /\ txn' = [txn EXCEPT ![c] = t]
                           /\ made' = [made EXCEPT ![c] = @ \cup {t}]
    BY <1>2 DEF Attempt, Mgr!AssignId
  <2>2. \A d \in Caller : t \notin made[d]
    BY <2>1 DEF RInv, CallInv, Earlier
  <2>3. CallTypeOK'
    BY <1>0, <1>2, <2>1 DEF Attempt, Goto
  <2>4. Disjoint'
    BY <1>0, <2>1, <2>2 DEF Disjoint
  <2> QED
    BY <2>3, <2>4
<1>3. ASSUME NEW c \in Caller, CallerStep(c), ~Attempt(c) PROVE CallTypeOK' /\ Disjoint'
  <2>1. UNCHANGED <<txn, made, called_at>>
    BY <1>3 DEF CallerStep, Begin, Increment, BodyEnds, BodyUnregister, BodyReturns, BodyThrows,
       Declined, Commit, Unregister, Decide, Within
  <2>2. \E p \in Places : at' = [at EXCEPT ![c] = p]
    BY <1>3 DEF CallerStep, Begin, Increment, BodyEnds, BodyUnregister, BodyReturns, BodyThrows,
       Declined, Commit, Unregister, Decide, Within, Goto
  <2>3. status' = status \/ \E s \in Code \cup {Threw} : status' = [status EXCEPT ![c] = s]
    BY <1>0, <1>3 DEF CallerStep, Begin, Increment, BodyEnds, BodyUnregister, BodyReturns, BodyThrows,
       Declined, Commit, Unregister, Decide
  <2>4. body_status' = body_status \/ \E s \in Code : body_status' = [body_status EXCEPT ![c] = s]
    BY <1>3 DEF CallerStep, Begin, Increment, BodyEnds, BodyUnregister, BodyReturns, BodyThrows,
       Declined, Commit, Unregister, Decide
  <2>5. at' \in [Caller -> Places]
    BY <1>0, <2>2
  <2>6. status' \in [Caller -> Code \cup {Threw}]
    BY <1>0, <2>3
  <2>7. body_status' \in [Caller -> Code]
    BY <1>0, <2>4
  <2> QED
    BY <1>0, <2>1, <2>5, <2>6, <2>7 DEF Disjoint
<1>4. CASE UNCHANGED allVars
  BY <1>0, <1>4 DEF allVars, retryVars, Disjoint
<1> QED
  BY <1>1, <1>2, <1>3, <1>4 DEF RetryNext

-------------------------------------------------------------------------------
\* The fields of a call do not change in another caller's step, and neither do
\* its attempts.
LEMMA OtherCalls ==
  ASSUME RInv, NEW c \in Caller, CallerStep(c) \/ \E m \in 0 .. MaxAttempts : Call(c, m),
         NEW d \in Caller, d # c
  PROVE  /\ UNCHANGED <<at[d], txn[d], body_status[d], status[d], made[d], called_at[d]>>
         /\ \A t \in made[d] : UNCHANGED <<stage[t], state[t], snapshot[t]>>
<1>0. CallTypeOK /\ TInv
  BY DEF RInv
<1>1. CASE CallerStep(c)
  <2>1. UNCHANGED <<at[d], txn[d], body_status[d], status[d], made[d], called_at[d]>>
    BY <1>0, <1>1 DEF CallTypeOK, CallerStep, Attempt, Begin, Increment, BodyEnds, BodyUnregister,
       BodyReturns, BodyThrows, Declined, Commit, Unregister, Decide, Within, Goto
  <2>2. txn'[c] \notin made[d] \/ UNCHANGED txnVars
    <3>1. CASE Attempt(c)
      <4>1. PICK t \in TxnId : stage[t] = "none" /\ txn' = [txn EXCEPT ![c] = t]
        BY <3>1 DEF Attempt, Mgr!AssignId
      <4> QED
        BY <1>0, <4>1 DEF RInv, CallInv, Earlier, CallTypeOK
    <3>2. CASE ~Attempt(c)
      <4>1. txn' = txn
        BY <1>1, <3>2 DEF CallerStep, Begin, Increment, BodyEnds, BodyUnregister, BodyReturns,
           BodyThrows, Declined, Commit, Unregister, Decide, Within
      <4>2. at[c] \in Inside
        BY <1>1, <3>2 DEF CallerStep, Begin, Increment, BodyEnds, BodyUnregister, BodyReturns,
           BodyThrows, Declined, Commit, Unregister, Decide, Inside, Places
      <4> QED
        BY <4>1, <4>2 DEF RInv, CallInv, Current, Disjoint
    <3> QED
      BY <3>1, <3>2
  <2>3. made[d] \subseteq TxnId
    BY <1>0 DEF CallTypeOK
  <2>4. ASSUME NEW t \in made[d] PROVE UNCHANGED <<stage[t], state[t], snapshot[t]>>
    <3>1. CASE UNCHANGED txnVars
      BY <3>1 DEF txnVars, regVars, objVars
    <3>2. CASE txn'[c] \in TxnId /\ TxnStep(txn'[c]) /\ txn'[c] \notin made[d]
      BY <1>0, <2>3, <2>4, <3>2, OthersUntouched
    <3> QED
      BY <1>1, <2>2, <3>1, <3>2, StepsCurrent
  <2> QED
    BY <2>1, <2>4
<1>2. ASSUME NEW m \in 0 .. MaxAttempts, Call(c, m)
      PROVE  /\ UNCHANGED <<at[d], txn[d], body_status[d], status[d], made[d], called_at[d]>>
             /\ \A t \in made[d] : UNCHANGED <<stage[t], state[t], snapshot[t]>>
  BY <1>0, <1>2 DEF Call, Goto, CallTypeOK, txnVars, regVars, objVars
<1> QED
  BY <1>1, <1>2

\* A call's attempts are finitely many.
LEMMA AttemptsFinite ==
  ASSUME CallTypeOK, NEW c \in Caller
  PROVE  /\ IsFiniteSet(made[c]) /\ Cardinality(made[c]) \in Nat
         /\ called_at[c] \in Nat /\ Due(c) \in Nat
<1>1. made[c] \subseteq 1 .. MaxTxns /\ called_at[c] \in Nat
  BY DEF CallTypeOK, TxnId, Mgr!TxnId
<1>2. IsFiniteSet(1 .. MaxTxns)
  BY FS_Interval, BoundsAssumption
<1>3. IsFiniteSet(made[c])
  BY <1>1, <1>2, FS_Subset
<1>4. Cardinality(made[c]) \in Nat
  BY <1>3, FS_CardinalityType
<1> QED
  BY <1>1, <1>3, <1>4 DEF Due

\* Batches are only added.
LEMMA MoreBatches ==
  ASSUME RInv, [RetryNext]_allVars
  PROVE  Len(log) \in Nat /\ Len(log') \in Nat /\ Len(log) <= Len(log')
<1>1. TInv /\ ObjTypeOK
  BY DEF RInv, TInv
<1> QED
  BY <1>1, UsesTransactions, UsesStore, LogGrows DEF Grows

\* So another caller's step keeps what a call knows.
LEMMA OtherCallInv ==
  ASSUME RInv, [RetryNext]_allVars,
         NEW c \in Caller, CallerStep(c) \/ \E m \in 0 .. MaxAttempts : Call(c, m),
         NEW d \in Caller, d # c
  PROVE  CallInv(d)'
<1>1. /\ UNCHANGED <<at[d], txn[d], body_status[d], status[d], made[d], called_at[d]>>
      /\ \A t \in made[d] : UNCHANGED <<stage[t], state[t], snapshot[t]>>
  BY OtherCalls
<1>2. CallInv(d)
  BY DEF RInv
<1>3. at[d] \in Inside => txn[d] \in made[d]
  BY <1>2 DEF CallInv, Current
<1>4. Current(d)'
  BY <1>1, <1>2 DEF CallInv, Current, Usable, Inside, Places
<1>5. Earlier(d)'
  BY <1>1, <1>2 DEF CallInv, Earlier
<1>6. Outcome(d)'
  BY <1>1, <1>2 DEF CallInv, Outcome, Current, ok, is_conflict
<1>7. Progress(d)'
  <2>1. Due(d)' = Due(d) /\ Due(d) \in Nat
    BY <1>1, AttemptsFinite DEF Due, RInv
  <2>2. Len(log) \in Nat /\ Len(log') \in Nat /\ Len(log) <= Len(log')
    BY MoreBatches
  <2>3. at[d] \in {"begin", "body", "commit"} =>
          stage'[txn[d]] = stage[txn[d]] /\ snapshot'[txn[d]] = snapshot[txn[d]]
    BY <1>1, <1>3 DEF Inside, Places
  <2> QED
    BY <1>1, <1>2, <2>1, <2>2, <2>3 DEF CallInv, Progress, is_conflict
<1> QED
  BY <1>4, <1>5, <1>6, <1>7 DEF CallInv

-------------------------------------------------------------------------------
\* A new call has made no attempt yet.
LEMMA CallStarts ==
  ASSUME RInv, NEW c \in Caller, NEW m \in 0 .. MaxAttempts, Call(c, m)
  PROVE  CallInv(c)'
<1>1. /\ made'[c] = {} /\ called_at'[c] = Len(log) /\ log' = log /\ Len(log) \in Nat
      /\ body_status'[c] = "kOk"
      /\ \/ at'[c] = "attempt"
         \/ at'[c] = "returned" /\ status'[c] = "kInvalidArgument"
  BY Typing DEF RInv, TInv, CallTypeOK, Call, Goto, txnVars, storeVars
<1>2. Due(c)' = Len(log)
  BY <1>1, FS_EmptySet DEF Due
<1> QED
  BY <1>1, <1>2 DEF CallInv, Current, Earlier, Outcome, Progress, Inside, Places, ok, is_conflict

\* A new attempt is one more to be accounted for.
LEMMA AttemptStarts ==
  ASSUME RInv, NEW c \in Caller, Attempt(c)
  PROVE  CallInv(c)'
<1>0. CallTypeOK /\ CallInv(c) /\ at[c] = "attempt"
  BY DEF RInv, Attempt
<1>1. PICK t \in TxnId : /\ stage[t] = "none" /\ stage' = [stage EXCEPT ![t] = "assigned"]
                         /\ txn' = [txn EXCEPT ![c] = t]
                         /\ made' = [made EXCEPT ![c] = @ \cup {t}]
  BY DEF Attempt, Mgr!AssignId
<1>2. /\ at'[c] = "begin" /\ txn'[c] = t /\ made'[c] = made[c] \cup {t}
      /\ UNCHANGED <<state, log, called_at, body_status>> /\ ok(body_status[c])
  BY <1>0, <1>1 DEF Attempt, Goto, CallTypeOK, objVars, storeVars, CallInv, Outcome, Places
<1>3. /\ t \notin made[c]
      /\ \A u \in made[c] : stage[u] = "gone" /\ state[u] = "kAborted"
  BY <1>0, <1>1 DEF CallInv, Earlier, Current, Outcome
<1>4. /\ stage'[t] = "assigned"
      /\ \A u \in made[c] : stage'[u] = "gone" /\ state'[u] = "kAborted"
  BY <1>0, <1>1, <1>2, <1>3, Typing DEF RInv, TInv, CallTypeOK
<1>5. Due(c)' = Due(c) + 1 /\ Due(c) \in Nat
  <2>1. Cardinality(made'[c]) = Cardinality(made[c]) + 1
    BY <1>0, <1>2, <1>3, AttemptsFinite, FS_AddElement
  <2> QED
    BY <1>0, <1>2, <2>1, AttemptsFinite DEF Due
<1>6. Len(log) >= Due(c) /\ Len(log) \in Nat
  BY <1>0, Typing DEF CallInv, Progress, RInv, TInv
<1> QED
  BY <1>2, <1>4, <1>5, <1>6 DEF CallInv, Current, Earlier, Outcome, Progress, Inside, Places, ok

\* A step of the current attempt leaves the earlier ones as they were, and what
\* else a call knows depends on the current attempt alone.
LEMMA OwnStep ==
  ASSUME RInv, NEW c \in Caller, at[c] \in Inside, NEW p \in Places, Within(c, p),
         TxnStep(txn[c]) \/ UNCHANGED txnVars
  PROVE  /\ at'[c] = p /\ UNCHANGED <<txn, made, called_at>>
         /\ txn[c] \in TxnId /\ txn[c] \in made[c]
         /\ (stage'[txn[c]] # "none" => Earlier(c)')
         /\ Due(c)' = Due(c) /\ Due(c) \in Nat
<1>0. CallTypeOK /\ CallInv(c) /\ TInv
  BY DEF RInv
<1>1. at'[c] = p /\ UNCHANGED <<txn, made, called_at>>
  BY <1>0 DEF Within, Goto, CallTypeOK
<1>2. txn[c] \in made[c] /\ made[c] \subseteq TxnId
  BY <1>0 DEF CallInv, Current, CallTypeOK
<1>3. ASSUME NEW u \in made[c], u # txn[c] PROVE UNCHANGED <<stage[u], state[u]>>
  <2>1. CASE TxnStep(txn[c])
    BY <1>0, <1>2, <1>3, <2>1, OthersUntouched
  <2>2. CASE UNCHANGED txnVars
    BY <2>2 DEF txnVars, regVars, objVars
  <2> QED
    BY <2>1, <2>2
<1>4. stage'[txn[c]] # "none" => Earlier(c)'
  BY <1>0, <1>1, <1>3 DEF CallInv, Earlier
<1>5. Due(c)' = Due(c) /\ Due(c) \in Nat
  BY <1>0, <1>1, AttemptsFinite DEF Due
<1> QED
  BY <1>1, <1>2, <1>4, <1>5

\* The snapshot of a new attempt includes every batch that beat the earlier ones.
LEMMA BeginOwn ==
  ASSUME RInv, NEW c \in Caller, Begin(c)
  PROVE  CallInv(c)'
<1> DEFINE t == txn[c]
<1>0. /\ CallTypeOK /\ CallInv(c) /\ TInv /\ at[c] = "begin" /\ at[c] \in Inside
      /\ TxnStep(t) /\ UNCHANGED <<log, body_status>> /\ ok(body_status[c])
  BY DEF RInv, CallInv, Outcome, Begin, Inside, Places, TxnStep, BeginStep, BeginReturn, storeVars
<1>1. stage[t] \in {"assigned", "placeholder", "read"}
  BY <1>0 DEF CallInv, Current
<1>2. /\ Len(log) = next_version - 1 /\ Len(log) \in Nat
      /\ stage \in [TxnId -> Mgr!Stages] /\ state \in [TxnId -> States]
      /\ snapshot \in [TxnId -> 0 .. MaxVersion]
  BY <1>0, Typing DEF TInv, ObjTypeOK
<1>3. CASE BeginStep(t) /\ Within(c, "begin")
  <2>1. /\ at'[c] = "begin" /\ UNCHANGED <<txn, made, called_at>>
        /\ t \in TxnId /\ t \in made[c] /\ (stage'[t] # "none" => Earlier(c)')
        /\ Due(c)' = Due(c) /\ Due(c) \in Nat
    BY <1>0, <1>3, OwnStep DEF Places
  <2>2. \/ stage'[t] = "placeholder"
        \/ stage'[t] = "read" /\ snapshot'[t] = Len(log)
    BY <1>1, <1>2, <1>3, <2>1 DEF BeginStep, Mgr!AssignId, Mgr!RegisterPlaceholder, Mgr!ReadSnapshot
  <2>3. Current(c)' /\ Earlier(c)' /\ Outcome(c)'
    BY <1>0, <2>1, <2>2 DEF Current, Outcome, Inside, Places, ok
  <2>4. Progress(c)'
    BY <1>0, <1>2, <2>1, <2>2 DEF CallInv, Progress
  <2> QED
    BY <2>3, <2>4 DEF CallInv
<1>4. CASE BeginReturn(t) /\ Within(c, "body")
  <2>1. /\ at'[c] = "body" /\ UNCHANGED <<txn, made, called_at>>
        /\ t \in TxnId /\ t \in made[c] /\ (stage'[t] # "none" => Earlier(c)')
        /\ Due(c)' = Due(c) /\ Due(c) \in Nat
    BY <1>0, <1>4, OwnStep DEF Places
  <2>2. /\ stage[t] = "read" /\ stage'[t] = "live" /\ state'[t] = "kActive"
        /\ snapshot' = snapshot
    BY <1>2, <1>4, <2>1 DEF BeginReturn, Mgr!RefineSnapshot
  <2>3. Current(c)' /\ Earlier(c)' /\ Outcome(c)'
    BY <1>0, <2>1, <2>2 DEF Current, Outcome, Inside, Places, Usable, ok
  <2>4. Progress(c)'
    BY <1>0, <1>2, <2>1, <2>2 DEF CallInv, Progress
  <2> QED
    BY <2>3, <2>4 DEF CallInv
<1> QED
  BY <1>3, <1>4 DEF Begin

-------------------------------------------------------------------------------
\* A refused Commit was beaten: somebody's batch is newer than the snapshot.
LEMMA Beaten ==
  ASSUME RInv, NEW t \in TxnId, CommitConflict(t)
  PROVE  snapshot[t] \in Nat /\ Len(log) \in Nat /\ Len(log) >= snapshot[t] + 1
<1>1. TInv /\ t \in TxnId \ exposed /\ Usable(t)
  BY DEF RInv, CommitConflict
<1>2. SI!Overwritten(t) # {}
  BY <1>1, TInvObservations DEF ObservationsMatchSI, CommitConflict
<1>3. \E i \in snapshot[t] + 1 .. Len(log) : TRUE
  BY <1>2 DEF SI!Overwritten
<1>4. snapshot[t] \in Nat /\ Len(log) \in Nat
  BY <1>1, Typing, BoundsAssumption DEF TInv
<1> QED
  BY <1>3, <1>4

\* The steps the body takes in its transaction.
LEMMA BodyOwn ==
  ASSUME RInv, NEW c \in Caller,
         Increment(c) \/ BodyEnds(c) \/ BodyUnregister(c) \/ BodyReturns(c) \/ BodyThrows(c)
  PROVE  CallInv(c)'
<1> DEFINE t == txn[c]
<1>0. /\ CallTypeOK /\ CallInv(c) /\ TInv /\ at[c] \in Inside
      /\ at[c] = "body" => Usable(t) \/ stage[t] = "gone"
      /\ at[c] = "body_unregister" => stage[t] = "live" /\ state[t] \in {"kCommitted", "kAborted"}
      /\ ok(body_status[c])
  BY DEF RInv, CallInv, Current, Outcome, Increment, BodyEnds, BodyUnregister, BodyReturns, BodyThrows,
     Inside, Places
<1>1. t \in TxnId /\ t \in made[c]
  BY <1>0 DEF CallInv, Current, CallTypeOK
<1>2. stage \in [TxnId -> Mgr!Stages] /\ state \in [TxnId -> States]
  BY <1>0, Typing DEF TInv, ObjTypeOK
<1>3. CASE Increment(c)
  <2>1. PICK k \in Key, v \in Value : Put(t, k, v)
    BY <1>3 DEF Increment
  <2>2. /\ TxnStep(t) /\ Within(c, "body") /\ Usable(t) /\ at[c] = "body"
        /\ UNCHANGED <<stage, state, snapshot, log, body_status>>
    BY <1>3, <2>1 DEF TxnStep, Increment, Put, regVars, storeVars
  <2>3. /\ at'[c] = "body" /\ UNCHANGED <<txn, made, called_at>>
        /\ (stage'[t] # "none" => Earlier(c)') /\ Due(c)' = Due(c) /\ Due(c) \in Nat
    BY <1>0, <2>2, OwnStep DEF Places
  <2>4. Current(c)' /\ Earlier(c)' /\ Outcome(c)'
    BY <1>0, <1>1, <2>2, <2>3 DEF Current, Outcome, Inside, Places, Usable, ok
  <2>5. Progress(c)'
    BY <1>0, <2>2, <2>3 DEF CallInv, Progress
  <2> QED
    BY <2>4, <2>5 DEF CallInv
<1>4. CASE BodyEnds(c)
  <2>1. /\ TxnStep(t) /\ Within(c, "body_unregister") /\ Usable(t)
        /\ stage' = stage /\ \E s \in {"kCommitted", "kAborted"} : state' = [state EXCEPT ![t] = s]
        /\ body_status' = body_status
    BY <1>4 DEF BodyEnds, TxnStep, CommitReadOnly, CommitApply, CommitConflict, Abort, regVars,
       Mgr!StoreWrite
  <2>2. /\ at'[c] = "body_unregister" /\ UNCHANGED <<txn, made, called_at>>
        /\ (stage'[t] # "none" => Earlier(c)')
    BY <1>0, <2>1, OwnStep DEF Places
  <2>3. stage'[t] = "live" /\ state'[t] \in {"kCommitted", "kAborted"}
    BY <1>1, <1>2, <2>1 DEF Usable
  <2> QED
    BY <1>0, <1>1, <2>1, <2>2, <2>3 DEF CallInv, Current, Outcome, Progress, Inside, Places, ok
<1>5. CASE BodyUnregister(c)
  <2>1. /\ TxnStep(t) /\ Within(c, "body") /\ stage' = [stage EXCEPT ![t] = "gone"]
        /\ body_status' = body_status
    BY <1>5 DEF BodyUnregister, TxnStep, EndUnregister, Mgr!Unregister
  <2>2. /\ at'[c] = "body" /\ UNCHANGED <<txn, made, called_at>>
        /\ (stage'[t] # "none" => Earlier(c)')
    BY <1>0, <2>1, OwnStep DEF Places
  <2>3. stage'[t] = "gone"
    BY <1>1, <1>2, <2>1
  <2> QED
    BY <1>0, <1>1, <2>1, <2>2, <2>3 DEF CallInv, Current, Outcome, Progress, Inside, Places, ok
<1>6. CASE BodyReturns(c)
  <2>1. PICK s \in Code :
          /\ body_status' = [body_status EXCEPT ![c] = s]
          /\ Within(c, IF ok(s) THEN "commit" ELSE "abort")
    BY <1>6 DEF BodyReturns
  <2> DEFINE p == IF ok(s) THEN "commit" ELSE "abort"
  <2>2. p \in Places /\ UNCHANGED txnVars /\ at[c] = "body"
    BY <1>6 DEF BodyReturns, Places
  <2>3. UNCHANGED <<stage, state, snapshot, log>>
    BY <2>2 DEF txnVars, storeVars, regVars, objVars
  <2>4. /\ at'[c] = p /\ UNCHANGED <<txn, made, called_at>>
        /\ (stage'[t] # "none" => Earlier(c)') /\ Due(c)' = Due(c) /\ Due(c) \in Nat
    BY <1>0, <2>1, <2>2, OwnStep
  <2>5. body_status'[c] = s
    BY <1>0, <2>1 DEF CallTypeOK
  <2>6. Current(c)' /\ Earlier(c)' /\ Outcome(c)'
    BY <1>0, <1>1, <2>2, <2>3, <2>4, <2>5 DEF Current, Outcome, Inside, Places, Usable, ok
  <2>7. Progress(c)'
    BY <1>0, <2>2, <2>3, <2>4 DEF CallInv, Progress
  <2> QED
    BY <2>6, <2>7 DEF CallInv
<1>7. CASE BodyThrows(c)
  <2>1. /\ TxnStep(t) \/ UNCHANGED txnVars
        /\ Within(c, "returned") /\ status' = [status EXCEPT ![c] = Threw] /\ at[c] = "body"
    BY <1>7 DEF BodyThrows, TxnStep
  <2>2. /\ at'[c] = "returned" /\ UNCHANGED <<txn, made, called_at>>
        /\ (stage'[t] # "none" => Earlier(c)')
    BY <1>0, <2>1, OwnStep DEF Places
  <2>3. stage'[t] = "gone"
    <3>1. CASE Destroy(t)
      BY <1>1, <1>2, <3>1 DEF Destroy, Mgr!Unregister
    <3>2. CASE ~Usable(t) /\ UNCHANGED txnVars
      BY <1>0, <2>1, <3>2 DEF txnVars, regVars
    <3> QED
      BY <1>7, <3>1, <3>2 DEF BodyThrows
  <2>4. status'[c] = Threw
    BY <1>0, <2>1 DEF CallTypeOK
  <2>5. Earlier(c)' => \A u \in made'[c] : stage'[u] = "gone"
    BY <2>2, <2>3 DEF Earlier
  <2> QED
    BY <1>1, <2>2, <2>3, <2>4, <2>5
    DEF CallInv, Current, Outcome, Progress, Inside, Places, Threw, ok, is_conflict
<1> QED
  BY <1>3, <1>4, <1>5, <1>6, <1>7

\* What RunWithRetry itself does with the attempt after the body.
LEMMA LoopOwn ==
  ASSUME RInv, NEW c \in Caller, Declined(c) \/ Commit(c) \/ Unregister(c) \/ Decide(c)
  PROVE  CallInv(c)'
<1> DEFINE t == txn[c]
<1>0. /\ CallTypeOK /\ CallInv(c) /\ TInv /\ at[c] \in Inside
      /\ at[c] \in {"abort", "commit"} => Usable(t) \/ stage[t] = "gone"
      /\ at[c] \in {"abort", "declined"} => ~ok(body_status[c])
      /\ at[c] \in {"commit", "unregister", "decide"} => ok(body_status[c])
  BY DEF RInv, CallInv, Current, Outcome, Declined, Commit, Unregister, Decide, Inside, Places
<1>1. t \in TxnId /\ t \in made[c]
  BY <1>0 DEF CallInv, Current, CallTypeOK
<1>2. stage \in [TxnId -> Mgr!Stages] /\ state \in [TxnId -> States]
  BY <1>0, Typing DEF TInv, ObjTypeOK
<1>3. CASE Declined(c)
  <2>1. /\ at[c] = "abort" /\ status'[c] = body_status[c] /\ body_status' = body_status
        /\ ~ok(body_status'[c]) /\ ~ok(status'[c])
    BY <1>0, <1>3 DEF Declined, CallTypeOK
  <2>2. CASE Abort(t) /\ Within(c, "declined")
    <3>1. TxnStep(t) /\ Usable(t) /\ stage' = stage /\ state' = [state EXCEPT ![t] = "kAborted"]
      BY <2>2 DEF TxnStep, Abort, regVars
    <3>2. /\ at'[c] = "declined" /\ UNCHANGED <<txn, made, called_at>>
          /\ (stage'[t] # "none" => Earlier(c)')
      BY <1>0, <2>2, <3>1, OwnStep DEF Places
    <3>3. stage'[t] = "live" /\ state'[t] = "kAborted"
      BY <1>1, <1>2, <3>1 DEF Usable
    <3> QED
      BY <1>1, <2>1, <3>2, <3>3 DEF CallInv, Current, Outcome, Progress, Inside, Places
  <2>3. CASE ~Usable(t) /\ UNCHANGED txnVars /\ Within(c, "returned")
    <3>1. stage'[t] = "gone"
      BY <1>0, <2>1, <2>3 DEF txnVars, regVars
    <3>2. /\ at'[c] = "returned" /\ UNCHANGED <<txn, made, called_at>>
          /\ (stage'[t] # "none" => Earlier(c)')
      BY <1>0, <2>3, OwnStep DEF Places
    <3>3. Earlier(c)' => \A u \in made'[c] : stage'[u] = "gone"
      BY <3>1, <3>2 DEF Earlier
    <3> QED
      BY <1>1, <2>1, <3>1, <3>2, <3>3 DEF CallInv, Current, Outcome, Progress, Inside, Places
  <2> QED
    BY <1>3, <2>2, <2>3 DEF Declined
<1>4. CASE Commit(c)
  <2>0. at[c] = "commit" /\ ok(body_status'[c])
    BY <1>0, <1>4 DEF Commit
  <2>1. CASE /\ CommitReadOnly(t) \/ CommitApply(t)
             /\ status' = [status EXCEPT ![c] = "kOk"] /\ Within(c, "unregister")
    <3>1. TxnStep(t) /\ Usable(t) /\ stage' = stage /\ state' = [state EXCEPT ![t] = "kCommitted"]
      BY <2>1 DEF TxnStep, CommitReadOnly, CommitApply, regVars, Mgr!StoreWrite
    <3>2. /\ at'[c] = "unregister" /\ UNCHANGED <<txn, made, called_at>>
          /\ (stage'[t] # "none" => Earlier(c)')
      BY <1>0, <2>1, <3>1, OwnStep DEF Places
    <3>3. stage'[t] = "live" /\ state'[t] = "kCommitted" /\ status'[c] = "kOk"
      BY <1>0, <1>1, <1>2, <2>1, <3>1 DEF Usable, CallTypeOK
    <3> QED
      BY <1>1, <2>0, <3>2, <3>3
      DEF CallInv, Current, Outcome, Progress, Inside, Places, ok, is_conflict
  <2>2. CASE /\ CommitConflict(t)
             /\ status' = [status EXCEPT ![c] = "kConflict"] /\ Within(c, "unregister")
    <3>1. /\ TxnStep(t) /\ Usable(t) /\ stage' = stage /\ log' = log
          /\ state' = [state EXCEPT ![t] = "kAborted"]
      BY <2>2 DEF TxnStep, CommitConflict, regVars, storeVars
    <3>2. /\ at'[c] = "unregister" /\ UNCHANGED <<txn, made, called_at>>
          /\ (stage'[t] # "none" => Earlier(c)') /\ Due(c)' = Due(c) /\ Due(c) \in Nat
      BY <1>0, <2>2, <3>1, OwnStep DEF Places
    <3>3. stage'[t] = "live" /\ state'[t] = "kAborted" /\ status'[c] = "kConflict"
      BY <1>0, <1>1, <1>2, <2>2, <3>1 DEF Usable, CallTypeOK
    <3>4. Len(log) >= Due(c)
      BY <1>0, <1>1, <2>0, <2>2, <3>1, <3>2, Beaten DEF CallInv, Progress, Usable
    <3> QED
      BY <1>1, <2>0, <3>1, <3>2, <3>3, <3>4
      DEF CallInv, Current, Outcome, Progress, Inside, Places, ok, is_conflict
  <2>3. CASE /\ ~Usable(t) /\ UNCHANGED txnVars
             /\ status' = [status EXCEPT ![c] = "kInvalidArgument"] /\ Within(c, "decide")
    <3>1. stage'[t] = "gone"
      BY <1>0, <2>0, <2>3 DEF txnVars, regVars
    <3>2. /\ at'[c] = "decide" /\ UNCHANGED <<txn, made, called_at>>
          /\ (stage'[t] # "none" => Earlier(c)')
      BY <1>0, <2>3, OwnStep DEF Places
    <3>3. status'[c] = "kInvalidArgument"
      BY <1>0, <2>3 DEF CallTypeOK
    <3> QED
      BY <1>1, <2>0, <3>1, <3>2, <3>3
      DEF CallInv, Current, Outcome, Progress, Inside, Places, ok, is_conflict
  <2> QED
    BY <1>4, <2>1, <2>2, <2>3 DEF Commit
<1>5. CASE Unregister(c)
  <2>1. /\ TxnStep(t) /\ stage' = [stage EXCEPT ![t] = "gone"]
        /\ UNCHANGED <<state, log, body_status, status>>
    BY <1>5 DEF Unregister, TxnStep, EndUnregister, Mgr!Unregister, objVars, storeVars
  <2>2. stage'[t] = "gone"
    BY <1>1, <1>2, <2>1
  <2>3. CASE at[c] = "unregister" /\ Within(c, "decide")
    <3>1. /\ at'[c] = "decide" /\ UNCHANGED <<txn, made, called_at>>
          /\ (stage'[t] # "none" => Earlier(c)') /\ Due(c)' = Due(c)
      BY <1>0, <2>1, <2>3, OwnStep DEF Places
    <3>2. Current(c)' /\ Earlier(c)' /\ Outcome(c)'
      BY <1>0, <1>1, <2>1, <2>2, <2>3, <3>1 DEF CallInv, Current, Outcome, Inside, Places
    <3>3. Progress(c)'
      BY <1>0, <2>1, <2>3, <3>1 DEF CallInv, Progress
    <3> QED
      BY <3>2, <3>3 DEF CallInv
  <2>4. CASE at[c] = "declined" /\ Within(c, "returned")
    <3>1. /\ at'[c] = "returned" /\ UNCHANGED <<txn, made, called_at>>
          /\ (stage'[t] # "none" => Earlier(c)')
      BY <1>0, <2>1, <2>4, OwnStep DEF Places
    <3>2. ~ok(body_status'[c]) /\ ~ok(status'[c])
      BY <1>0, <2>1, <2>4 DEF CallInv, Outcome
    <3>3. Earlier(c)' => \A u \in made'[c] : stage'[u] = "gone"
      BY <2>2, <3>1 DEF Earlier
    <3> QED
      BY <1>1, <2>2, <3>1, <3>2, <3>3 DEF CallInv, Current, Outcome, Progress, Inside, Places
  <2> QED
    BY <1>5, <2>3, <2>4 DEF Unregister
<1>6. CASE Decide(c)
  <2> DEFINE again == is_conflict(status[c]) /\ attempts_left[c] > 0
             p == IF again THEN "attempt" ELSE "returned"
  <2>1. /\ Within(c, p) /\ p \in Places /\ UNCHANGED <<txnVars, body_status, status>>
        /\ at[c] = "decide" /\ ok(body_status[c])
    BY <1>0, <1>6 DEF Decide, Places
  <2>2. UNCHANGED <<stage, state, log>>
    BY <2>1 DEF txnVars, storeVars, regVars, objVars
  <2>3. /\ at'[c] = p /\ UNCHANGED <<txn, made, called_at>>
        /\ (stage'[t] # "none" => Earlier(c)') /\ Due(c)' = Due(c)
    BY <1>0, <2>1, OwnStep
  <2>4. /\ stage[t] = "gone" /\ \A u \in made[c] : stage[u] = "gone"
        /\ is_conflict(status[c]) => \A u \in made[c] : state[u] = "kAborted"
    BY <1>0, <1>1, <2>1 DEF CallInv, Current, Earlier, Outcome
  <2>5. Current(c)' /\ Earlier(c)'
    BY <1>1, <2>2, <2>3, <2>4 DEF Current, Inside, Places
  <2>6. Outcome(c)'
    BY <1>0, <1>1, <2>1, <2>2, <2>3, <2>4 DEF CallInv, Outcome, Places
  <2>7. Progress(c)'
    BY <1>0, <2>1, <2>2, <2>3 DEF CallInv, Progress
  <2> QED
    BY <2>5, <2>6, <2>7 DEF CallInv
<1> QED
  BY <1>3, <1>4, <1>5, <1>6

-------------------------------------------------------------------------------
\* Nobody has called yet.
LEMMA InitRInv == RetryInit => RInv
<1> SUFFICES ASSUME RetryInit PROVE RInv
  OBVIOUS
<1>1. TInv /\ exposed = {}
  BY InitTInv DEF RetryInit, Init, Mgr!Init
<1>2. CallTypeOK /\ Disjoint
  BY DEF RetryInit, CallTypeOK, Disjoint, Places, Code
<1>3. \A c \in Caller : CallInv(c)
  BY DEF RetryInit, CallInv, Current, Earlier, Outcome, Progress, Inside, Places, is_conflict
<1> QED
  BY <1>1, <1>2, <1>3 DEF RInv

\* The invariant is inductive.
LEMMA NextRInv == RInv /\ [RetryNext]_allVars => RInv'
<1> SUFFICES ASSUME RInv, [RetryNext]_allVars PROVE RInv'
  OBVIOUS
<1>1. TInv' /\ (exposed = {})'
  BY UsesTransactions, NextTInv, ExposedKept DEF RInv
<1>2. CallTypeOK' /\ Disjoint'
  BY CallTypes
<1>3. ASSUME NEW d \in Caller PROVE CallInv(d)'
  <2>1. ASSUME NEW c \in Caller, CallerStep(c) \/ \E m \in 0 .. MaxAttempts : Call(c, m)
        PROVE  CallInv(d)'
    <3>1. CASE d # c
      BY <2>1, <3>1, OtherCallInv
    <3>2. CASE d = c
      BY <2>1, <3>2, CallStarts, AttemptStarts, BeginOwn, BodyOwn, LoopOwn DEF CallerStep
    <3> QED
      BY <3>1, <3>2
  <2>2. CASE UNCHANGED allVars
    <3>1. CallInv(d)
      BY DEF RInv
    <3> QED
      BY <2>2, <3>1 DEF allVars, retryVars, txnVars, storeVars, regVars, objVars, CallInv, Current,
         Earlier, Outcome, Progress, Due, Usable
  <2> QED
    BY <2>1, <2>2 DEF RetryNext
<1> QED
  BY <1>1, <1>2, <1>3 DEF RInv

\* So it always holds.
LEMMA AlwaysRInv == RetrySpec => []RInv
BY InitRInv, NextRInv, PTL DEF RetrySpec

\* Everything proved of TxnSpec holds of the callers' transactions: RunWithRetry
\* uses Begin, Commit, Abort and the destructor as transaction.h tells a caller to.
THEOREM CallersUseTransactions == RetrySpec => TxnSpec
<1>1. RetryInit => Init
  BY DEF RetryInit
<1>2. RInv /\ [RetryNext]_allVars => [TxnNext]_txnVars
  BY UsesTransactions
<1> QED
  BY <1>1, <1>2, AlwaysRInv, PTL DEF RetrySpec, TxnSpec

\* A call takes effect at most once, OK means that it did and a conflict that
\* Commit reported that it did not: only the last attempt can have committed, and
\* the loop goes round only after an attempt that Commit refused, never after a
\* body that declined, whatever status it declined with (transaction.cpp:254-276).
THEOREM EffectCorrect == RetrySpec => []EffectAtMostOnce
<1>1. RInv => EffectAtMostOnce
  <2> SUFFICES ASSUME RInv, NEW c \in Caller
               PROVE  /\ Cardinality(Committed(made[c])) <= 1
                      /\ at[c] = "returned" /\ made[c] # {} =>
                           /\ ok(status[c]) => Committed(made[c]) # {}
                           /\ ok(body_status[c]) /\ is_conflict(status[c]) =>
                                Committed(made[c]) = {}
    BY DEF EffectAtMostOnce
  <2>1. CallInv(c)
    BY DEF RInv
  <2>2. Committed(made[c]) \subseteq {txn[c]}
    BY <2>1 DEF Committed, CallInv, Earlier
  <2>3. Cardinality(Committed(made[c])) <= 1
    <3>1. CASE Committed(made[c]) = {}
      BY <3>1, FS_EmptySet
    <3>2. CASE Committed(made[c]) = {txn[c]}
      <4>1. Cardinality({txn[c]}) = 1
        BY FS_Singleton
      <4> QED
        BY <3>2, <4>1
    <3> QED
      BY <2>2, <3>1, <3>2
  <2>4. ASSUME at[c] = "returned", made[c] # {}
        PROVE  /\ ok(status[c]) => Committed(made[c]) # {}
               /\ ok(body_status[c]) /\ is_conflict(status[c]) => Committed(made[c]) = {}
    BY <2>1, <2>2, <2>4 DEF CallInv, Current, Outcome, Committed
  <2> QED
    BY <2>3, <2>4
<1> QED
  BY <1>1, AlwaysRInv, PTL

\* A call that gives up on conflicts that Commit reported lost each attempt to
\* another batch: there are at least as many batches since it was called as it made
\* attempts, so that of contending callers one always gets through
\* (transaction.cpp:272-273).
THEOREM ProgressCorrect == RetrySpec => []ConflictMeansProgress
<1>1. RInv => ConflictMeansProgress
  <2> SUFFICES ASSUME RInv, NEW c \in Caller, at[c] = "returned",
                      ok(body_status[c]), is_conflict(status[c])
               PROVE  Len(log) - called_at[c] >= Cardinality(made[c])
    BY DEF ConflictMeansProgress
  <2>1. Len(log) >= called_at[c] + Cardinality(made[c])
    BY DEF RInv, CallInv, Progress, Due
  <2>2. Len(log) \in Nat /\ called_at[c] \in Nat /\ Cardinality(made[c]) \in Nat
    BY AttemptsFinite, Typing DEF RInv, TInv
  <2> QED
    BY <2>1, <2>2
<1> QED
  BY <1>1, AlwaysRInv, PTL

\* However a call ends (committed, refused, declined, thrown out of), none of its
\* attempts is left in a shard to hold the collection boundary back
\* (transaction.cpp:20-31, 257, 261).
THEOREM UnregisteredCorrect == RetrySpec => []NothingLeftRegistered
<1>1. RInv => NothingLeftRegistered
  <2> SUFFICES ASSUME RInv, NEW c \in Caller, at[c] = "returned", NEW s \in DOMAIN shards
               PROVE  made[c] \cap DOMAIN shards[s] = {}
    BY DEF NothingLeftRegistered
  <2>1. MgrP!RegistryExact /\ DOMAIN shards = MgrP!Shard
    BY DEF RInv, TInv, MgrP!IInv, MgrP!TypeOK
  <2>2. \A t \in DOMAIN shards[s] : stage[t] # "gone"
    BY <2>1 DEF MgrP!RegistryExact, MgrP!Registered
  <2> QED
    BY <2>2 DEF RInv, CallInv, Current
<1> QED
  BY <1>1, AlwaysRInv, PTL

-------------------------------------------------------------------------------
(* Concurrent increments: no update is lost. *)

\* What the first s batches of a log l show at k; SI!AsOf is this on the log.
WritesIn(l, k, s) == {i \in 1 .. s : k \in DOMAIN l[i]}
Latest(W) == CHOOSE i \in W : \A j \in W : j <= i
Shows(l, k, s) ==
  IF WritesIn(l, k, s) = {} THEN Tombstone ELSE l[Latest(WritesIn(l, k, s))][k]

\* A longer log shows the same at an old version.
LEMMA ShowsKept ==
  ASSUME NEW l, NEW m, NEW k, NEW s \in Nat, \A i \in 1 .. s : m[i] = l[i]
  PROVE  Shows(m, k, s) = Shows(l, k, s)
<1> DEFINE W == WritesIn(l, k, s)
<1>1. WritesIn(m, k, s) = W /\ W \subseteq 0 .. s /\ W \subseteq 1 .. s
  BY DEF WritesIn
<1> HIDE DEF W
<1>2. ASSUME W # {} PROVE m[Latest(W)] = l[Latest(W)]
  <2>1. \E i \in W : \A j \in W : j <= i
    BY <1>1, <1>2, StoreP!NatMax, TombstoneAssumption, BoundsAssumption
  <2>2. Latest(W) \in W
    BY <2>1 DEF Latest
  <2> QED
    BY <1>1, <2>2
<1> QED
  BY <1>1, <1>2 DEF Shows, W

\* Batches that do not write k do not change what is shown at k.
LEMMA ShowsSkips ==
  ASSUME NEW l, NEW k, NEW s \in Nat, NEW n \in Nat, s <= n,
         \A i \in s + 1 .. n : k \notin DOMAIN l[i]
  PROVE  Shows(l, k, s) = Shows(l, k, n)
<1>1. WritesIn(l, k, s) = WritesIn(l, k, n)
  BY DEF WritesIn
<1> QED
  BY <1>1 DEF Shows

\* VersionStore::Get returns what the whole log shows.
LEMMA LatestShown ==
  ASSUME TInv, NEW k \in Key
  PROVE  Store!Get(k) = Shows(log, k, Len(log))
<1>1. StoreP!Get(k) = StoreP!LogAsOf(k, StoreP!CurrentVersion)
  BY StoreP!LatestRead, TombstoneAssumption, BoundsAssumption DEF TInv, StoreP!IInv
<1>2. Len(log) = next_version - 1 /\ Len(log) \in Nat
  BY Typing DEF TInv
<1>3. StoreP!Writes(k, Len(log)) = WritesIn(log, k, Len(log))
  BY <1>2 DEF StoreP!Writes, WritesIn
<1> QED
  BY <1>1, <1>2, <1>3
  DEF StoreP!Get, Store!Get, StoreP!LogAsOf, StoreP!CurrentVersion, Shows, Latest

\* The buffer of an attempt holds one more than its snapshot shows.
Buffered ==
  \A t \in TxnId :
    /\ state[t] = "none" => write_set[t] = Empty
    /\ Usable(t) => \A k \in DOMAIN write_set[t] :
         /\ write_set[t][k] \in Value
         /\ write_set[t][k] = Count(Shows(log, k, snapshot[t])) + 1

\* The five kinds of step that a caller's transaction takes.
Increments(t) == \E k \in Key, v \in Value : /\ write_set[t] = Empty
                                             /\ v = Count(Get(t, k)) + 1
                                             /\ Put(t, k, v)
Ends(t) == CommitReadOnly(t) \/ CommitConflict(t) \/ Abort(t) \/ Destroy(t)
Registers(t) == BeginStep(t) \/ EndUnregister(t)

\* Nothing else happens to the transactions.
LEMMA StepKinds ==
  ASSUME RInv, [RetryNext]_allVars
  PROVE  \/ UNCHANGED txnVars
         \/ \E t \in TxnId : \/ CommitApply(t) \/ Increments(t) \/ BeginReturn(t)
                             \/ Ends(t) \/ Registers(t)
<1>1. ASSUME NEW c \in Caller, CallerStep(c)
      PROVE  \/ UNCHANGED txnVars
             \/ \E t \in TxnId : \/ CommitApply(t) \/ Increments(t) \/ BeginReturn(t)
                                 \/ Ends(t) \/ Registers(t)
  <2>1. at[c] \in Inside => txn[c] \in TxnId
    BY DEF RInv, CallTypeOK, CallInv, Current
  <2>2. CASE Attempt(c)
    BY <2>2 DEF Attempt, Registers, BeginStep
  <2>3. CASE Begin(c)
    BY <2>1, <2>3 DEF Begin, Registers, Inside, Places
  <2>4. CASE Increment(c)
    BY <2>1, <2>4 DEF Increment, Increments, Inside, Places
  <2>5. CASE BodyEnds(c) \/ BodyUnregister(c) \/ BodyReturns(c) \/ BodyThrows(c)
    BY <2>1, <2>5
    DEF BodyEnds, BodyUnregister, BodyReturns, BodyThrows, Ends, Registers, Inside, Places
  <2>6. CASE Declined(c) \/ Commit(c) \/ Unregister(c) \/ Decide(c)
    BY <2>1, <2>6 DEF Declined, Commit, Unregister, Decide, Ends, Registers, Inside, Places
  <2> QED
    BY <1>1, <2>2, <2>3, <2>4, <2>5, <2>6 DEF CallerStep
<1> QED
  BY <1>1 DEF RetryNext, Call, allVars

\* A step keeps what the snapshots show.
LEMMA SnapshotsShow ==
  ASSUME RInv, [RetryNext]_allVars, NEW t \in TxnId, Usable(t), NEW k
  PROVE  Shows(log', k, snapshot[t]) = Shows(log, k, snapshot[t])
<1>1. TInv /\ ObjTypeOK
  BY DEF RInv, TInv
<1>2. snapshot[t] \in Nat /\ snapshot[t] <= Len(log) /\ Len(log) \in Nat
  BY <1>1, Typing, BoundsAssumption DEF TInv, Usable
<1>3. \A i \in 1 .. Len(log) : log'[i] = log[i]
  BY <1>1, UsesTransactions, UsesStore, LogGrows DEF Grows
<1>4. \A i \in 1 .. snapshot[t] : log'[i] = log[i]
  BY <1>2, <1>3
<1> QED
  BY <1>2, <1>4, ShowsKept

\* An attempt reads its counter from its snapshot.
LEMMA ReadsSnapshot ==
  ASSUME RInv, NEW t \in TxnId, Usable(t), write_set[t] = Empty, NEW k \in Key
  PROVE  Get(t, k) = Shows(log, k, snapshot[t])
<1>1. Get(t, k) = SI!Sees(t, k)
  BY TInvObservations DEF RInv, ObservationsMatchSI
<1> QED
  BY <1>1 DEF SI!Sees, SI!AsOf, Shows, WritesIn, Latest, Empty

\* The buffers stay one ahead of the snapshots.
LEMMA BufferedStep ==
  ASSUME RInv, Buffered, [RetryNext]_allVars
  PROVE  Buffered'
<1>0. /\ ObjTypeOK /\ Lifecycle /\ stage \in [TxnId -> Mgr!Stages]
      /\ snapshot \in [TxnId -> 0 .. MaxVersion]
  BY Typing DEF RInv, TInv
\* A transaction that keeps its buffer and its snapshot keeps its conjunct.
<1>1. ASSUME NEW u \in TxnId, UNCHANGED <<write_set[u], snapshot[u]>>,
             state'[u] = "none" => state[u] = "none", Usable(u)' => Usable(u)
      PROVE  /\ state'[u] = "none" => write_set'[u] = Empty
             /\ Usable(u)' => \A k \in DOMAIN write_set'[u] :
                  /\ write_set'[u][k] \in Value
                  /\ write_set'[u][k] = Count(Shows(log', k, snapshot'[u])) + 1
  BY <1>1, SnapshotsShow DEF Buffered
\* So does one with an empty buffer.
<1>2. ASSUME NEW u \in TxnId, write_set'[u] = Empty
      PROVE  /\ state'[u] = "none" => write_set'[u] = Empty
             /\ Usable(u)' => \A k \in DOMAIN write_set'[u] :
                  /\ write_set'[u][k] \in Value
                  /\ write_set'[u][k] = Count(Shows(log', k, snapshot'[u])) + 1
  BY <1>2 DEF Empty
<1>3. ASSUME NEW t \in TxnId, Increments(t) PROVE Buffered'
  <2>1. PICK k \in Key, v \in Value : /\ write_set[t] = Empty
                                      /\ v = Count(Get(t, k)) + 1
                                      /\ Put(t, k, v)
    BY <1>3 DEF Increments
  <2>2. Usable(t) /\ UNCHANGED <<stage, state, snapshot, log>>
    BY <2>1 DEF Put, storeVars, regVars
  <2>3. write_set' = [write_set EXCEPT ![t] = [x \in {k} |-> v]]
    BY <2>1 DEF Put, Mgr!MapPut, Empty
  <2>4. v = Count(Shows(log, k, snapshot[t])) + 1
    BY <2>1, <2>2, ReadsSnapshot
  <2>5. \A u \in TxnId \ {t} : write_set'[u] = write_set[u]
    BY <1>0, <2>3 DEF ObjTypeOK
  <2>6. write_set'[t] = [x \in {k} |-> v]
    BY <1>0, <2>3 DEF ObjTypeOK
  <2> QED
    BY <1>1, <2>2, <2>4, <2>5, <2>6 DEF Buffered, Usable
<1>4. ASSUME NEW t \in TxnId, CommitApply(t) PROVE Buffered'
  <2>1. /\ UNCHANGED <<write_set, snapshot, stage>> /\ state' = [state EXCEPT ![t] = "kCommitted"]
    BY <1>4 DEF CommitApply, Mgr!StoreWrite
  <2> QED
    BY <1>0, <1>1, <2>1 DEF Buffered, ObjTypeOK, Usable
<1>5. ASSUME NEW t \in TxnId, BeginReturn(t) PROVE Buffered'
  <2>1. /\ stage[t] = "read" /\ stage' = [stage EXCEPT ![t] = "live"]
        /\ UNCHANGED <<write_set, snapshot>> /\ state' = [state EXCEPT ![t] = "kActive"]
    BY <1>5 DEF BeginReturn, Mgr!RefineSnapshot
  <2>2. write_set'[t] = Empty
    BY <1>0, <2>1 DEF Buffered, Lifecycle
  <2>3. \A u \in TxnId \ {t} : stage'[u] = stage[u] /\ state'[u] = state[u]
    BY <1>0, <2>1 DEF ObjTypeOK
  <2> QED
    BY <1>1, <1>2, <2>1, <2>2, <2>3 DEF Buffered, Usable
<1>6. ASSUME NEW t \in TxnId, Ends(t) PROVE Buffered'
  <2>1. /\ snapshot' = snapshot /\ stage' \in {stage, [stage EXCEPT ![t] = "gone"]}
        /\ write_set' \in {write_set, [write_set EXCEPT ![t] = Empty]} /\ write_set'[t] = Empty
        /\ \E s \in {"kCommitted", "kAborted", "dropped"} : state' = [state EXCEPT ![t] = s]
    BY <1>0, <1>6 DEF Ends, CommitReadOnly, CommitConflict, Abort, Destroy, regVars, ObjTypeOK,
       Mgr!Unregister
  <2>2. \A u \in TxnId \ {t} : UNCHANGED <<stage[u], state[u], write_set[u]>>
    BY <1>0, <2>1 DEF ObjTypeOK
  <2> QED
    BY <1>1, <1>2, <2>1, <2>2 DEF Buffered, Usable
<1>7. ASSUME NEW t \in TxnId, Registers(t) PROVE Buffered'
  <2>1. UNCHANGED <<state, write_set>>
    BY <1>7 DEF Registers, BeginStep, EndUnregister, objVars
  <2>2. /\ stage'[t] # "live"
        /\ \A u \in TxnId \ {t} : stage'[u] = stage[u] /\ snapshot'[u] = snapshot[u]
    BY <1>0, <1>7 DEF Registers, BeginStep, EndUnregister, Mgr!AssignId, Mgr!RegisterPlaceholder,
       Mgr!ReadSnapshot, Mgr!Unregister
  <2>3. ASSUME NEW u \in TxnId
        PROVE  /\ state'[u] = "none" => write_set'[u] = Empty
               /\ Usable(u)' => \A k \in DOMAIN write_set'[u] :
                    /\ write_set'[u][k] \in Value
                    /\ write_set'[u][k] = Count(Shows(log', k, snapshot'[u])) + 1
    <3>1. CASE u = t
      BY <2>1, <2>2, <3>1 DEF Buffered, Usable
    <3>2. CASE u # t
      BY <1>1, <2>1, <2>2, <3>2 DEF Usable
    <3> QED
      BY <3>1, <3>2
  <2> QED
    BY <2>3 DEF Buffered
<1>8. CASE UNCHANGED txnVars
  BY <1>1, <1>8 DEF txnVars, storeVars, regVars, objVars, Buffered, Usable
<1> QED
  BY <1>3, <1>4, <1>5, <1>6, <1>7, <1>8, StepKinds

\* The transactions that have committed an increment of k.
Incremented(k) == {t \in Committed(TxnId) : k \in DOMAIN write_set[t]}

\* There are finitely many of them.
LEMMA IncrementedFinite ==
  ASSUME NEW k
  PROVE  IsFiniteSet(Incremented(k)) /\ Cardinality(Incremented(k)) \in Nat
<1>1. IsFiniteSet(1 .. MaxTxns) /\ Incremented(k) \subseteq 1 .. MaxTxns
  BY FS_Interval, BoundsAssumption DEF Incremented, Committed, TxnId, Mgr!TxnId
<1> QED
  BY <1>1, FS_Subset, FS_CardinalityType

\* What is appended is the last entry.
LEMMA AppendLast ==
  ASSUME NEW S, NEW h \in Seq(S), NEW e \in S
  PROVE  Append(h, e) # <<>> /\ Append(h, e)[Len(Append(h, e))] = e
<1>1. PICK n \in Nat : n = Len(h)
  OBVIOUS
<1>2. Len(Append(h, e)) = n + 1 /\ Append(h, e)[n + 1] = e
  BY <1>1
<1> QED
  BY <1>1, <1>2

\* A commit adds one to the counter and one to the commits that account for it.
LEMMA CommitCounts ==
  ASSUME RInv, Buffered, EveryIncrementCounts, NEW t \in TxnId, CommitApply(t), NEW k \in Key
  PROVE  Count(Store!Get(k)') = Cardinality(Incremented(k)')
<1>1. /\ TInv /\ ObjTypeOK /\ Usable(t) /\ t \in TxnId \ exposed
      /\ Store!Conflicts(write_set[t], snapshot[t]) = {} /\ Store!ApplyBatch(write_set[t])
      /\ write_set' = write_set /\ state' = [state EXCEPT ![t] = "kCommitted"]
  BY DEF RInv, TInv, CommitApply, Store!ApplyBatchIfNoConflict
<1>2. /\ state[t] = "kActive" /\ state'[t] = "kCommitted"
      /\ \A u \in TxnId \ {t} : state'[u] = state[u]
  BY <1>1 DEF ObjTypeOK, Usable
<1>3. Count(Store!Get(k)) = Cardinality(Incremented(k))
  BY DEF EveryIncrementCounts, Incremented
<1>4. CASE k \in DOMAIN write_set[t]
  <2>1. SI!Overwritten(t) = {}
    BY <1>1, TInvObservations DEF ObservationsMatchSI
  <2>2. \A i \in snapshot[t] + 1 .. Len(log) : k \notin DOMAIN log[i]
    BY <1>4, <2>1 DEF SI!Overwritten
  <2>3. snapshot[t] \in Nat /\ Len(log) \in Nat /\ snapshot[t] <= Len(log)
    BY <1>1, Typing, BoundsAssumption DEF TInv, Usable
  <2>4. Shows(log, k, snapshot[t]) = Store!Get(k)
    <3>1. Shows(log, k, snapshot[t]) = Shows(log, k, Len(log))
      BY <2>2, <2>3, ShowsSkips
    <3> QED
      BY <1>1, <3>1, LatestShown
  <2>5. /\ write_set[t][k] \in Value
        /\ write_set[t][k] = Cardinality(Incremented(k)) + 1
    BY <1>1, <1>3, <1>4, <2>4 DEF Buffered
  <2>6. Store!Get(k)' = write_set[t][k]
    <3>1. table[k] \in Seq(Store!VersionedValue)
      BY <1>1 DEF TInv, StoreP!IInv, StoreP!TypeOK, Store!VersionedValue, StoreP!VersionedValue,
         Store!Cell, StoreP!Cell
    <3> DEFINE e == [version |-> next_version, value |-> write_set[t][k]]
    <3>2. table'[k] = Append(table[k], e) /\ e.value = write_set[t][k]
      BY <1>1, <1>4 DEF Store!ApplyBatch
    <3>3. e \in Store!VersionedValue
      BY <1>1, <2>5, Typing DEF TInv, Store!VersionedValue, Store!Cell
    <3> HIDE DEF e
    <3>4. /\ table'[k] # <<>> /\ table'[k][Len(table'[k])] = e
      BY <3>1, <3>2, <3>3, AppendLast
    <3> QED
      BY <3>2, <3>4 DEF Store!Get
  <2>7. Incremented(k)' = Incremented(k) \cup {t} /\ t \notin Incremented(k)
    BY <1>1, <1>2, <1>4 DEF Incremented, Committed
  <2>8. Cardinality(Incremented(k)') = Cardinality(Incremented(k)) + 1
    BY <2>7, IncrementedFinite, FS_AddElement
  <2>9. Count(Store!Get(k)') = write_set[t][k]
    BY <2>5, <2>6, TombstoneAssumption DEF Count
  <2> QED
    BY <2>5, <2>8, <2>9
<1>5. CASE k \notin DOMAIN write_set[t]
  <2>1. Incremented(k)' = Incremented(k)
    BY <1>1, <1>2, <1>5 DEF Incremented, Committed
  <2>2. table'[k] = table[k]
    BY <1>1, <1>5 DEF Store!ApplyBatch
  <2> QED
    BY <1>3, <2>1, <2>2 DEF Store!Get
<1> QED
  BY <1>4, <1>5

\* No other step touches the store, or the buffer of a committed transaction.
LEMMA CountsStep ==
  ASSUME RInv, Buffered, EveryIncrementCounts, [RetryNext]_allVars
  PROVE  EveryIncrementCounts'
<1>0. ObjTypeOK /\ Lifecycle
  BY DEF RInv, TInv
<1>1. ASSUME NEW k \in Key PROVE Count(Store!Get(k)') = Cardinality(Incremented(k)')
  <2>1. ASSUME NEW t \in TxnId, CommitApply(t)
        PROVE  Count(Store!Get(k)') = Cardinality(Incremented(k)')
    BY <2>1, CommitCounts
  <2>2. ASSUME table' = table, Incremented(k)' = Incremented(k)
        PROVE  Count(Store!Get(k)') = Cardinality(Incremented(k)')
    BY <2>2 DEF EveryIncrementCounts, Incremented, Store!Get
  <2>3. ASSUME NEW t \in TxnId, Increments(t)
        PROVE  table' = table /\ Incremented(k)' = Incremented(k)
    BY <1>0, <2>3
    DEF Increments, Put, Usable, storeVars, Incremented, Committed, ObjTypeOK
  <2>4. ASSUME NEW t \in TxnId, BeginReturn(t)
        PROVE  table' = table /\ Incremented(k)' = Incremented(k)
    BY <1>0, <2>4
    DEF BeginReturn, Mgr!RefineSnapshot, storeVars, Incremented, Committed, ObjTypeOK, Lifecycle
  <2>5. ASSUME NEW t \in TxnId, Ends(t)
        PROVE  table' = table /\ Incremented(k)' = Incremented(k)
    <3>1. /\ state[t] = "kActive" /\ table' = table /\ write_set'[t] = Empty
          /\ write_set' \in {write_set, [write_set EXCEPT ![t] = Empty]}
          /\ \E s : state' = [state EXCEPT ![t] = s]
      BY <1>0, <2>5 DEF Ends, CommitReadOnly, CommitConflict, Abort, Destroy, Usable, storeVars,
         ObjTypeOK
    <3>2. k \notin DOMAIN write_set'[t]
      BY <3>1 DEF Empty
    <3>3. \A u \in TxnId \ {t} : state'[u] = state[u] /\ write_set'[u] = write_set[u]
      BY <1>0, <3>1 DEF ObjTypeOK
    <3> QED
      BY <3>1, <3>2, <3>3 DEF Incremented, Committed
  <2>6. ASSUME NEW t \in TxnId, Registers(t)
        PROVE  table' = table /\ Incremented(k)' = Incremented(k)
    BY <2>6 DEF Registers, BeginStep, EndUnregister, storeVars, objVars, Incremented, Committed
  <2>7. CASE UNCHANGED txnVars
    BY <2>2, <2>7 DEF txnVars, storeVars, objVars, Incremented, Committed
  <2> QED
    BY <2>1, <2>2, <2>3, <2>4, <2>5, <2>6, <2>7, StepKinds
<1> QED
  BY <1>1 DEF EveryIncrementCounts, Incremented

\* Callers that read a counter and write it back incremented never overwrite each
\* other: at any time every counter is the number of commits that incremented it,
\* because a Commit succeeds only if what its snapshot showed is still the latest
\* (transaction.cpp:125-145; tests/stress_test_transaction.cpp:173).
THEOREM IncrementsCorrect == RetrySpec => []EveryIncrementCounts
<1>1. RetryInit => Buffered
  BY DEF RetryInit, Init, Buffered, Usable
<1>2. RetryInit => EveryIncrementCounts
  <2> SUFFICES ASSUME RetryInit, NEW k \in Key
               PROVE  Count(Store!Get(k)) = Cardinality(Incremented(k))
    BY DEF EveryIncrementCounts, Incremented
  <2>1. Incremented(k) = {}
    BY DEF RetryInit, Init, Incremented, Committed
  <2>2. Count(Store!Get(k)) = 0
    BY DEF RetryInit, Init, Store!Init, Store!Get, Count
  <2> QED
    BY <2>1, <2>2, FS_EmptySet
<1>3. RInv /\ Buffered /\ EveryIncrementCounts /\ [RetryNext]_allVars
        => Buffered' /\ EveryIncrementCounts'
  BY BufferedStep, CountsStep
<1> QED
  BY <1>1, <1>2, <1>3, AlwaysRInv, PTL DEF RetrySpec

===============================================================================
