------------------------ MODULE GarbageCollectorProofs ------------------------
(***************************************************************************)
(* The whole system, with collector passes interleaved with everything     *)
(* else, for any number of transactions, collector threads, keys and       *)
(* versions; and, at the end, the same system when memory runs out.        *)
(***************************************************************************)
EXTENDS AllocationFailure, TransactionProofs, FiniteSetTheorems, FunctionTheorems

\* The inductive invariant.
SysInv == TInv /\ FirstCommitterWins

-------------------------------------------------------------------------------
\* A pass hands CollectGarbage a boundary the store has reached.
LEMMA BoundaryReached ==
  ASSUME Upheld, NEW c \in Scanner, Mgr!UseBoundary(c)
  PROVE  scan[c].oldest \in 0 .. next_version - 1
<1>1. MgrP!TypeOK /\ MgrP!BoundaryNotAhead
  BY DEF Upheld, MgrP!IInv
<1>2. scan[c].oldest \in 0 .. MaxVersion \cup {UInt64Max} /\ scan[c].oldest <= next_version - 1
  BY <1>1 DEF Mgr!UseBoundary, MgrP!TypeOK, MgrP!ScanRecord, MgrP!Version, MgrP!BoundaryNotAhead
<1> QED
  BY <1>2, SoundTyping, BoundsAssumption DEF Upheld

\* The system uses the store, and the registry, as their own modules allow.
LEMMA SysUsesStore ==
  ASSUME TInv, [SysNext]_vars
  PROVE  [Store!Next]_(Store!storeVars)
<1>1. CASE [TxnNext]_txnVars
  BY <1>1, UsesStore DEF TInv
<1>2. ASSUME NEW c \in Scanner, Collect(c) PROVE Store!Next
  BY <1>2, BoundaryReached, TInvUpheld DEF Collect, Store!Next, Store!CurrentVersion
<1>3. ASSUME NEW c \in Scanner, ComputeBoundary(c) \/ Accumulate(c)
      PROVE  UNCHANGED Store!storeVars
  BY <1>3 DEF ComputeBoundary, Accumulate, txnVars, storeVars, Store!storeVars
<1> QED
  BY <1>1, <1>2, <1>3 DEF SysNext, RunOnceStep, vars

\* A pass takes the registry's own steps.
LEMMA SysUsesRegistry ==
  ASSUME [SysNext]_vars
  PROVE  [Mgr!Next]_(Mgr!mgrVars)
<1>1. CASE [TxnNext]_txnVars
  BY <1>1, UsesRegistry
<1>2. ASSUME NEW c \in Scanner, Collect(c) \/ ComputeBoundary(c) PROVE Mgr!Next
  BY <1>2 DEF Collect, ComputeBoundary, Mgr!Next, Mgr!ScanStep
<1>3. ASSUME NEW c \in Scanner, Accumulate(c) PROVE UNCHANGED Mgr!mgrVars
  BY <1>3 DEF Accumulate, txnVars, storeVars, regVars, Mgr!mgrVars
<1> QED
  BY <1>1, <1>2, <1>3 DEF SysNext, RunOnceStep, vars

\* A pass changes nothing that transactions keep or hold registered.
LEMMA PassLeaves ==
  ASSUME NEW c \in Scanner, RunOnceStep(c)
  PROVE  UNCHANGED <<objVars, stage, snapshot, log>> /\ exposed \subseteq exposed'
BY DEF RunOnceStep, ComputeBoundary, Collect, Accumulate, txnVars, storeVars, regVars,
   Mgr!StartScan, Mgr!VisitShard, Mgr!ReturnBoundary, Mgr!UseBoundary, Store!CollectGarbage

\* The transactions' invariant survives the passes.
LEMMA SysKeepsTInv ==
  ASSUME TInv, [SysNext]_vars
  PROVE  TInv'
<1>1. CASE [TxnNext]_txnVars
  BY <1>1, NextTInv
<1>2. ASSUME NEW c \in Scanner, RunOnceStep(c) PROVE TInv'
  <2>1. StoreP!IInv' /\ MgrP!IInv'
    BY SysUsesStore, SysUsesRegistry, StoreKeeps, MgrStep DEF TInv
  <2>2. UNCHANGED <<objVars, stage, log>>
    BY <1>2, PassLeaves
  <2>3. ObjTypeOK' /\ Lifecycle' /\ CommitsInLog'
    BY <2>2 DEF TInv, ObjTypeOK, Lifecycle, CommitsInLog, objVars
  <2> QED
    BY <2>1, <2>3 DEF TInv
<1> QED
  BY <1>1, <1>2 DEF SysNext, vars

-------------------------------------------------------------------------------
\* What u committed was committed before, and nobody touches what it left.
Settles(u) ==
  state'[u] = "kCommitted" /\ write_set'[u] # Empty =>
    /\ state[u] = "kCommitted"
    /\ write_set'[u] = write_set[u]
    /\ commit_version'[u] = commit_version[u]
    /\ snapshot'[u] = snapshot[u]

\* A commit that wrote something is final.
LEMMA CommitFinal ==
  ASSUME Upheld, [TxnNext]_txnVars, NEW u \in TxnId, ~CommitApply(u)
  PROVE  Settles(u)
<1> SUFFICES ASSUME state'[u] = "kCommitted", write_set'[u] # Empty
             PROVE  /\ state[u] = "kCommitted"
                    /\ write_set'[u] = write_set[u]
                    /\ commit_version'[u] = commit_version[u]
                    /\ snapshot'[u] = snapshot[u]
  BY DEF Settles
<1> USE DEF Upheld, ObjShape
<1>0. snapshot \in [TxnId -> 0 .. MaxVersion] /\ stage \in [TxnId -> Mgr!Stages]
  BY SoundTyping
<1>1. ASSUME NEW t \in TxnId, BeginStep(t) \/ BeginReturn(t)
      PROVE  /\ state[u] = "kCommitted" /\ UNCHANGED <<write_set, commit_version>>
             /\ snapshot'[u] = snapshot[u]
  BY <1>0, <1>1 DEF BeginStep, BeginReturn, objVars, HandedOut, Mgr!AssignId,
     Mgr!RegisterPlaceholder, Mgr!ReadSnapshot, Mgr!RefineSnapshot
<1>2. ASSUME NEW t \in TxnId, NEW k \in Key, Delete(t, k) \/ \E v \in Value : Put(t, k, v)
      PROVE  /\ state[u] = "kCommitted" /\ UNCHANGED <<commit_version, snapshot>>
             /\ write_set'[u] = write_set[u]
  BY <1>2 DEF Delete, Put, Usable, regVars
<1>3. ASSUME NEW t \in TxnId,
             \/ CommitReadOnly(t) \/ CommitApply(t) \/ CommitConflict(t)
             \/ Abort(t) \/ EndUnregister(t) \/ Destroy(t)
      PROVE  /\ state[u] = "kCommitted" /\ UNCHANGED snapshot
             /\ write_set'[u] = write_set[u] /\ commit_version'[u] = commit_version[u]
  BY <1>3 DEF CommitReadOnly, CommitApply, CommitConflict, Abort, EndUnregister, Destroy, Usable,
     objVars, regVars, Mgr!StoreWrite, Mgr!Unregister
<1>4. CASE DirectWrite \/ UNCHANGED txnVars
  BY <1>4 DEF DirectWrite, Mgr!StoreWrite, txnVars, objVars, regVars
<1> QED
  BY <1>1, <1>2, <1>3, <1>4 DEF TxnNext, TxnStep

\* What was between a snapshot and a commit stays what it was: the log only grows.
LEMMA NoLostUpdateStable ==
  ASSUME Upheld, Grows, NEW u \in TxnId, NoLostUpdate(u), Settles(u)
  PROVE  NoLostUpdate(u)'
<1> SUFFICES ASSUME state'[u] = "kCommitted", write_set'[u] # Empty,
                    NEW i \in snapshot'[u] + 1 .. commit_version'[u] - 1
             PROVE  DOMAIN log'[i] \cap DOMAIN write_set'[u] = {}
  BY DEF NoLostUpdate
<1>0. /\ state[u] = "kCommitted" /\ write_set'[u] = write_set[u]
      /\ commit_version'[u] = commit_version[u] /\ snapshot'[u] = snapshot[u]
  BY DEF Settles
<1>1. commit_version[u] \in 1 .. Len(log) /\ snapshot[u] \in Nat
  BY <1>0, SoundTyping, BoundsAssumption DEF Upheld, CommitsInLog
<1>2. log'[i] = log[i]
  BY <1>0, <1>1 DEF Grows
<1> QED
  BY <1>0, <1>2 DEF NoLostUpdate

\* A commit goes through only if nobody wrote its keys since its snapshot.
LEMMA CommitNoLostUpdate ==
  ASSUME Upheld, NEW t \in TxnId \ exposed, CommitApply(t)
  PROVE  NoLostUpdate(t)'
<1>1. /\ Usable(t) /\ Store!Conflicts(write_set[t], snapshot[t]) = {}
      /\ UNCHANGED <<write_set, snapshot>> /\ commit_version'[t] = next_version
      /\ log' = Append(log, write_set[t])
  BY DEF CommitApply, Store!ApplyBatchIfNoConflict, Store!ApplyBatch, Mgr!StoreWrite, Upheld,
     ObjShape
<1>2. SI!Overwritten(t) = {}
  BY <1>1, UpheldObservations DEF ObservationsMatchSI
<1>3. /\ Len(log) = next_version - 1 /\ Len(log) \in Nat /\ snapshot[t] \in Nat
      /\ log \in Seq(StoreP!Partial) /\ next_version \in Nat
  BY SoundTyping, BoundsAssumption DEF Upheld
<1>4. ASSUME NEW i \in snapshot[t] + 1 .. next_version - 1
      PROVE  DOMAIN log'[i] \cap DOMAIN write_set[t] = {}
  <2>1. i \in 1 .. Len(log) /\ i \in snapshot[t] + 1 .. Len(log)
    BY <1>3
  <2>2. log'[i] = log[i]
    BY <1>1, <1>3, <2>1
  <2> QED
    BY <1>2, <2>1, <2>2 DEF SI!Overwritten
<1> QED
  BY <1>1, <1>4 DEF NoLostUpdate

\* First committer wins, as long as commits are final and the log only grows.
LEMMA FirstCommitterKept ==
  ASSUME Upheld, FirstCommitterWins, Grows, exposed \subseteq exposed',
         \A u \in TxnId : CommitApply(u) \/ Settles(u)
  PROVE  FirstCommitterWins'
<1> SUFFICES ASSUME NEW u \in TxnId, u \notin exposed'
             PROVE  NoLostUpdate(u)'
  BY DEF FirstCommitterWins, TxnId, Mgr!TxnId
<1>1. u \notin exposed /\ NoLostUpdate(u)
  BY DEF FirstCommitterWins
<1> QED
  BY <1>1, CommitNoLostUpdate, NoLostUpdateStable

\* That is so in every step of the system.
LEMMA FirstCommitterStep ==
  ASSUME SysInv, [SysNext]_vars
  PROVE  FirstCommitterWins'
<1>1. Upheld /\ FirstCommitterWins /\ Grows
  BY SysUsesStore, TInvUpheld, LogGrows DEF SysInv
<1>2. CASE [TxnNext]_txnVars
  BY <1>1, <1>2, ExposedKept, CommitFinal, FirstCommitterKept
<1>3. ASSUME NEW c \in Scanner, RunOnceStep(c) PROVE FirstCommitterWins'
  <2>1. UNCHANGED <<objVars, snapshot>> /\ exposed \subseteq exposed'
    BY <1>3, PassLeaves
  <2>2. \A u \in TxnId : Settles(u)
    BY <2>1 DEF Settles, objVars
  <2> QED
    BY <1>1, <2>1, <2>2, FirstCommitterKept
<1> QED
  BY <1>2, <1>3 DEF SysNext, vars

\* The invariant holds initially.
LEMMA InitSysInv == SysInit => SysInv
<1> SUFFICES ASSUME SysInit PROVE SysInv
  OBVIOUS
<1>1. TInv
  BY InitTInv DEF SysInit
<1>2. FirstCommitterWins
  BY DEF SysInit, Init, FirstCommitterWins, NoLostUpdate
<1> QED
  BY <1>1, <1>2 DEF SysInv

\* It is inductive.
LEMMA NextSysInv == SysInv /\ [SysNext]_vars => SysInv'
BY SysKeepsTInv, FirstCommitterStep DEF SysInv

\* So it always holds.
LEMMA AlwaysSysInv == SysSpec => []SysInv
BY InitSysInv, NextSysInv, PTL DEF SysSpec

-------------------------------------------------------------------------------
\* A direct write is a batch.
LEMMA DirectIsBatch ==
  ASSUME DirectWrite
  PROVE  \E ops \in Store!Batch : Store!ApplyBatch(ops)
<1>1. ASSUME NEW k \in Key, NEW v \in Store!Cell PROVE [x \in {k} |-> v] \in Store!Batch
  <2>1. {k} \in (SUBSET Key) \ {{}} /\ [x \in {k} |-> v] \in [{k} -> Store!Cell]
    OBVIOUS
  <2> QED
    BY <2>1 DEF Store!Batch
<1>2. Tombstone \in Store!Cell /\ Value \subseteq Store!Cell
  BY DEF Store!Cell
<1> QED
  BY <1>1, <1>2, DirectAssumption DEF DirectWrite, Store!Put, Store!Delete

\* Each step keeps the store's contract, or is one of an overlooked transaction.
LEMMA ContractStepKept ==
  ASSUME SysInv, [SysNext]_vars
  PROVE  ContractStep \/ ExposedStep
<1>0. Upheld
  BY TInvUpheld DEF SysInv
<1>1. CASE UNCHANGED storeVars
  BY <1>1 DEF ContractStep
<1>2. CASE DirectWrite
  BY <1>2, DirectIsBatch DEF ContractStep, DirectWrite
<1>3. ASSUME NEW t \in TxnId, CommitApply(t) PROVE ContractStep \/ ExposedStep
  <2>1. /\ Usable(t) /\ Store!ApplyBatchIfNoConflict(write_set[t], snapshot[t])
        /\ exposed' = exposed
    BY <1>3 DEF CommitApply, Mgr!StoreWrite
  <2>2. CASE t \in exposed
    <3>1. state[t] = "kActive" /\ state'[t] = "kCommitted"
      BY <1>0, <1>3 DEF CommitApply, Usable, Upheld, ObjShape
    <3> QED
      BY <2>1, <2>2, <3>1 DEF ExposedStep
  <2>3. CASE t \notin exposed
    <3>1. snapshot[t] \in horizon .. Store!CurrentVersion
      BY <1>0, <2>1, <2>3, SoundTyping, BoundsAssumption DEF Upheld, Usable, Store!CurrentVersion
    <3> QED
      BY <2>1, <3>1 DEF ContractStep
  <2> QED
    BY <2>2, <2>3
<1>4. ASSUME NEW t \in TxnId, TxnStep(t), ~CommitApply(t) PROVE UNCHANGED storeVars
  BY <1>4 DEF TxnStep, BeginStep, BeginReturn, Put, Delete, CommitReadOnly, CommitConflict,
              Abort, EndUnregister, Destroy
<1>5. ASSUME NEW c \in Scanner, Collect(c) PROVE ContractStep
  <2>1. Store!CollectGarbage(scan[c].oldest) /\ scan[c].pc = "done"
    BY <1>5 DEF Collect, Mgr!UseBoundary
  <2>2. scan[c].oldest \in 0 .. Store!CurrentVersion
    BY <1>0, <1>5, BoundaryReached DEF Collect, Store!CurrentVersion
  <2>3. \A t \in Holding \ exposed : scan[c].oldest <= snapshot[t]
    BY <1>0, <2>1 DEF Upheld, MgrP!IInv, MgrP!BoundarySafe, Holding, Mgr!Holding, MgrP!Holding,
       Mgr!TxnId, MgrP!TxnId
  <2> QED
    BY <2>1, <2>2, <2>3 DEF ContractStep
<1>6. ASSUME NEW c \in Scanner, ComputeBoundary(c) \/ Accumulate(c) PROVE UNCHANGED storeVars
  BY <1>6 DEF ComputeBoundary, Accumulate, txnVars
<1> QED
  BY <1>1, <1>2, <1>3, <1>4, <1>5, <1>6 DEF SysNext, TxnNext, RunOnceStep, vars, txnVars

\* CollectGarbage can trust its caller, as version_store.h:121-127 asks: however
\* long a boundary waits between the scan and its use, it is newer neither than the
\* store nor than any snapshot in use, and every Commit is validated against a
\* snapshot no boundary has passed, unless a scan overlooked the transaction.
THEOREM StoreContractKept == SysSpec => ImplementsStore
<1>1. SysInit => Store!Init
  BY DEF SysInit, Init
<1>2. SysInv /\ [SysNext]_vars => [ContractStep \/ ExposedStep]_vars
  BY ContractStepKept
<1> QED
  BY <1>1, <1>2, AlwaysSysInv, PTL DEF SysSpec, ImplementsStore

\* The registry is used as its module allows: all that is proved of TransactionManager holds here.
THEOREM RegistryContractKept == SysSpec => Mgr!Spec
<1>1. SysInit => Mgr!Init
  BY DEF SysInit, Init
<1>2. [SysNext]_vars => [Mgr!Next]_(Mgr!mgrVars)
  BY SysUsesRegistry
<1> QED
  BY <1>1, <1>2, PTL DEF SysSpec, Mgr!Spec

\* Above the horizon the store shows what the log holds, and no snapshot in use is
\* below it.
LEMMA UpheldStable == Upheld => SnapshotStable
<1> SUFFICES ASSUME Upheld, NEW t \in Holding \ exposed, NEW k \in Key
             PROVE  Store!GetAsOf(k, snapshot[t]) = Store!LogAsOf(k, snapshot[t])
  BY DEF SnapshotStable
<1>1. t \in TxnId /\ stage[t] \in {"read", "live"}
  BY DEF Holding, Mgr!Holding, TxnId
<1>2. snapshot[t] \in horizon .. MaxVersion
  BY <1>1, SoundTyping, BoundsAssumption DEF Upheld
<1>3. Store!VisibleAboveHorizon
  BY StoreReads DEF Upheld
<1> QED
  BY <1>2, <1>3 DEF Store!VisibleAboveHorizon

\* Collection never changes what a transaction reads, unless a scan overlooked it.
THEOREM SnapshotsStable == SysSpec => []SnapshotStable
<1>1. SysInv => SnapshotStable
  BY TInvUpheld, UpheldStable DEF SysInv
<1> QED
  BY <1>1, AlwaysSysInv, PTL

\* What a growing log shows at a version it has reached does not change.
LEMMA LogShowsSame ==
  ASSUME Grows, NEW k, NEW s \in Nat, s <= Len(log)
  PROVE  Store!LogAsOf(k, s)' = Store!LogAsOf(k, s)
<1>1. \A i \in 1 .. Len(log) : i \in 1 .. Len(log') /\ log'[i] = log[i]
  BY DEF Grows
<1>2. Store!Writes(k, s)' = Store!Writes(k, s)
  <2>1. \A i : i \in Store!Writes(k, s)' <=> i \in 1 .. Len(log') /\ i <= s /\ k \in DOMAIN log'[i]
    BY DEF Store!Writes
  <2>2. \A i : i \in Store!Writes(k, s) <=> i \in 1 .. Len(log) /\ i <= s /\ k \in DOMAIN log[i]
    BY DEF Store!Writes
  <2>3. \A i \in 1 .. Len(log') : i <= s => i \in 1 .. Len(log)
    BY DEF Grows
  <2> QED
    BY <1>1, <2>1, <2>2, <2>3
<1>3. Store!LogAsOf(k, s)' =
        IF Store!Writes(k, s) = {} THEN Tombstone
        ELSE log'[CHOOSE i \in Store!Writes(k, s) : \A j \in Store!Writes(k, s) : j <= i][k]
  BY <1>2 DEF Store!LogAsOf
<1>4. CASE Store!Writes(k, s) = {}
  BY <1>3, <1>4 DEF Store!LogAsOf
<1>5. CASE Store!Writes(k, s) # {}
  <2> DEFINE m == CHOOSE i \in Store!Writes(k, s) : \A j \in Store!Writes(k, s) : j <= i
  <2>1. Store!Writes(k, s) \subseteq 0 .. Len(log) /\ Len(log) \in Nat
    BY DEF Store!Writes, Grows
  <2>2. \E i \in Store!Writes(k, s) : \A j \in Store!Writes(k, s) : j <= i
    BY <1>5, <2>1, StoreP!NatMax, TombstoneAssumption, BoundsAssumption
  <2>3. m \in Store!Writes(k, s)
    BY <2>2
  <2>4. Store!LogAsOf(k, s)' = log'[m][k] /\ Store!LogAsOf(k, s) = log[m][k]
    BY <1>3, <1>5 DEF Store!LogAsOf
  <2> HIDE DEF m
  <2>5. log'[m] = log[m]
    BY <1>1, <2>3 DEF Store!Writes
  <2> QED
    BY <2>4, <2>5
<1> QED
  BY <1>4, <1>5

\* A transaction in use keeps its snapshot and everything it has buffered.
StillUsed(t) ==
  Usable(t) /\ Usable(t)' =>
    snapshot'[t] = snapshot[t] /\ DOMAIN write_set[t] \subseteq DOMAIN write_set'[t]

\* That is so whatever the transactions do.
LEMMA UseKept ==
  ASSUME Upheld, [TxnNext]_txnVars, NEW t \in TxnId
  PROVE  StillUsed(t)
<1> SUFFICES ASSUME Usable(t), Usable(t)'
             PROVE  snapshot'[t] = snapshot[t] /\ DOMAIN write_set[t] \subseteq DOMAIN write_set'[t]
  BY DEF StillUsed
<1>0. /\ snapshot \in [TxnId -> 0 .. MaxVersion] /\ stage \in [TxnId -> Mgr!Stages]
      /\ state \in [TxnId -> States] /\ write_set \in [TxnId -> Buffers]
  BY SoundTyping DEF Upheld, ObjShape
<1>1. stage[t] = "live" /\ state[t] = "kActive" /\ state'[t] = "kActive"
  BY DEF Usable
<1>2. ASSUME NEW u \in TxnId, BeginStep(u) \/ BeginReturn(u)
      PROVE  snapshot'[t] = snapshot[t] /\ UNCHANGED write_set
  BY <1>0, <1>1, <1>2 DEF BeginStep, BeginReturn, objVars, Mgr!AssignId,
     Mgr!RegisterPlaceholder, Mgr!ReadSnapshot, Mgr!RefineSnapshot
<1>3. ASSUME NEW u \in TxnId, NEW k \in Key, Delete(u, k) \/ \E v \in Value : Put(u, k, v)
      PROVE  UNCHANGED snapshot /\ DOMAIN write_set[t] \subseteq DOMAIN write_set'[t]
  <2>1. UNCHANGED snapshot
    BY <1>3 DEF Delete, Put, regVars
  <2>2. PICK x \in Store!Cell : write_set' = [write_set EXCEPT ![u] = Mgr!MapPut(@, k, x)]
    BY <1>3 DEF Delete, Put, Store!Cell
  <2>3. DOMAIN Mgr!MapPut(write_set[t], k, x) = DOMAIN write_set[t] \cup {k}
    BY DEF Mgr!MapPut
  <2> QED
    BY <1>0, <2>1, <2>2, <2>3
<1>4. ASSUME NEW u \in TxnId,
             \/ CommitReadOnly(u) \/ CommitApply(u) \/ CommitConflict(u)
             \/ Abort(u) \/ EndUnregister(u) \/ Destroy(u)
      PROVE  UNCHANGED snapshot /\ write_set'[t] = write_set[t]
  BY <1>0, <1>1, <1>4 DEF CommitReadOnly, CommitApply, CommitConflict, Abort, EndUnregister,
     Destroy, objVars, regVars, Mgr!StoreWrite, Mgr!Unregister
<1>5. CASE DirectWrite \/ UNCHANGED txnVars
  BY <1>5 DEF DirectWrite, Mgr!StoreWrite, txnVars, objVars, regVars
<1> QED
  BY <1>2, <1>3, <1>4, <1>5 DEF TxnNext, TxnStep

\* What stays readable reads the same.
SameReads ==
  \A t \in TxnId \ exposed' : Usable(t) /\ Usable(t)' =>
    \A k \in Key \ DOMAIN write_set'[t] : Get(t, k)' = Get(t, k)

\* Both before and after the step, the store shows what the log does.
LEMMA ReadsSame ==
  ASSUME Upheld, SnapshotStable, SnapshotStable', Grows, exposed \subseteq exposed',
         \A t \in TxnId : StillUsed(t)
  PROVE  SameReads
<1> SUFFICES ASSUME NEW t \in TxnId, t \notin exposed', Usable(t), Usable(t)',
                    NEW k \in Key, k \notin DOMAIN write_set'[t]
             PROVE  Get(t, k)' = Get(t, k)
  BY DEF SameReads
<1>1. snapshot'[t] = snapshot[t] /\ k \notin DOMAIN write_set[t] /\ t \notin exposed
  BY DEF StillUsed
<1>2. /\ Get(t, k) = Store!GetAsOf(k, snapshot[t])
      /\ Get(t, k)' = Store!GetAsOf(k, snapshot[t])'
  BY <1>1 DEF Get
<1>3. t \in Holding /\ t \in Holding'
  BY DEF Holding, Mgr!Holding, Usable, TxnId, Mgr!TxnId
<1>4. /\ Store!GetAsOf(k, snapshot[t]) = Store!LogAsOf(k, snapshot[t])
      /\ Store!GetAsOf(k, snapshot[t])' = Store!LogAsOf(k, snapshot[t])'
  BY <1>1, <1>3 DEF SnapshotStable
<1>5. snapshot[t] \in Nat /\ snapshot[t] <= Len(log)
  BY SoundTyping, BoundsAssumption DEF Upheld, Usable
<1>6. Store!LogAsOf(k, snapshot[t])' = Store!LogAsOf(k, snapshot[t])
  <2>1. PICK n \in Nat : n = snapshot[t] /\ n <= Len(log)
    BY <1>5
  <2>2. Store!LogAsOf(k, n)' = Store!LogAsOf(k, n)
    BY <2>1, LogShowsSame
  <2> QED
    BY <1>1, <2>1, <2>2 DEF Store!LogAsOf, Store!Writes
<1> QED
  BY <1>2, <1>4, <1>6

\* Every transaction that no scan overlooked has an unchanging view of the store until it
\* ends, through commits, direct writes and collections (transaction.h:21-23).
THEOREM ReadsRepeat == SysSpec => RepeatableReads
<1>1. SysInv /\ SnapshotStable /\ SnapshotStable' /\ [SysNext]_vars => SameReads
  <2> SUFFICES ASSUME SysInv, SnapshotStable, SnapshotStable', [SysNext]_vars PROVE SameReads
    OBVIOUS
  <2>1. Upheld /\ Grows
    BY SysUsesStore, TInvUpheld, LogGrows DEF SysInv
  <2>2. CASE [TxnNext]_txnVars
    BY <2>1, <2>2, ExposedKept, UseKept, ReadsSame
  <2>3. ASSUME NEW c \in Scanner, RunOnceStep(c) PROVE SameReads
    <3>1. UNCHANGED <<objVars, snapshot>> /\ exposed \subseteq exposed'
      BY <2>3, PassLeaves
    <3>2. \A t \in TxnId : StillUsed(t)
      BY <3>1 DEF StillUsed, objVars
    <3> QED
      BY <2>1, <3>1, <3>2, ReadsSame
  <2> QED
    BY <2>2, <2>3 DEF SysNext, vars
<1> QED
  BY <1>1, SnapshotsStable, AlwaysSysInv, PTL DEF SysSpec, RepeatableReads, SameReads

\* With collections at any time, of two overlapping transactions that write the same key
\* only the first to commit succeeds: the versions that CollectGarbage drops are never
\* ones the conflict check of ApplyBatchIfNoConflict needs (version_store.cpp:191-224).
THEOREM FirstCommitterCorrect == SysSpec => []FirstCommitterWins
<1>1. SysInv => FirstCommitterWins
  BY DEF SysInv
<1> QED
  BY <1>1, AlwaysSysInv, PTL

\* With collections at any time, every transaction that no scan overlooked reads, and is
\* refused, exactly as snapshot isolation prescribes (transaction.cpp:33-50, 125-138).
THEOREM SystemObservations == SysSpec => []ObservationsMatchSI
<1>1. SysInv => ObservationsMatchSI
  BY TInvObservations DEF SysInv
<1> QED
  BY <1>1, AlwaysSysInv, PTL

\* With collections at any time, every acknowledged commit is whole in the log at the
\* version Commit reported, which no other transaction was told (transaction.cpp:140-145).
THEOREM SystemCommits == SysSpec => []CommitsInLog
<1>1. SysInv => CommitsInLog
  BY DEF SysInv, TInv
<1> QED
  BY <1>1, AlwaysSysInv, PTL

\* The whole system, collectors included, implements snapshot isolation but for the steps
\* of a transaction that a scan overlooked (transaction.h:21-67; transaction.cpp:204-222).
THEOREM SystemImplementsSI == SysSpec => ImplementsSIUnlessExposed
<1>1. SysInit => SI!Init
  BY InitSimulates DEF SysInit
<1>2. SysInv /\ [SysNext]_vars => [[SI!Next]_(SI!siVars) \/ ExposedStep]_vars
  <2> SUFFICES ASSUME SysInv, [SysNext]_vars
               PROVE  [SI!Next]_(SI!siVars) \/ ExposedStep
    OBVIOUS
  <2>1. CASE [TxnNext]_txnVars
    <3>1. SI!Next \/ UNCHANGED SI!siVars \/ Overlooked
      BY <2>1, StepSimulates DEF SysInv
    <3>2. Overlooked => ExposedStep
      BY <2>1, ExposedKept DEF Overlooked, ExposedStep
    <3> QED
      BY <3>1, <3>2
  <2>2. ASSUME NEW c \in Scanner, RunOnceStep(c) PROVE UNCHANGED SI!siVars
    BY <2>2, PassLeaves DEF SI!siVars, objVars
  <2> QED
    BY <2>1, <2>2 DEF SysNext, vars
<1> QED
  BY <1>1, <1>2, AlwaysSysInv, PTL DEF SysSpec, ImplementsSIUnlessExposed

-------------------------------------------------------------------------------
(* Sums of naturals over a finite set. *)

\* h adds f and g.
Adds(S, f, g, h) ==
  /\ IsFiniteSet(S) /\ f \in [S -> Nat] /\ g \in [S -> Nat] /\ h \in [S -> Nat]
  /\ \A x \in S : h[x] = f[x] + g[x]

\* g differs from f at c only.
Updates(S, c, f, g) ==
  /\ IsFiniteSet(S) /\ c \in S /\ f \in [S -> Nat] /\ g \in [S -> Nat]
  /\ \A x \in S \ {c} : g[x] = f[x]

\* g is f with an argument more.
Extends(S, c, f, g) ==
  /\ IsFiniteSet(S) /\ c \notin S /\ f \in [S -> Nat] /\ g \in [S \cup {c} -> Nat]
  /\ \A x \in S : g[x] = f[x]

\* What the units are.
LEMMA InUnits ==
  ASSUME NEW S, NEW f \in [S -> Nat]
  PROVE  /\ \A x, i : <<x, i>> \in Units(f) <=> x \in S /\ i \in 1 .. f[x]
         /\ \A p \in Units(f) : p = <<p[1], p[2]>> /\ p[1] \in S /\ p[2] \in 1 .. f[p[1]]
<1>1. \A p : p \in Units(f) <=> \E x \in S : p \in {x} \X (1 .. f[x])
  BY DEF Units
<1> QED
  BY <1>1

\* There are finitely many.
LEMMA TotalType ==
  ASSUME NEW S, IsFiniteSet(S), NEW f \in [S -> Nat]
  PROVE  IsFiniteSet(Units(f)) /\ Total(f) \in Nat
<1> DEFINE P(x) == {x} \X (1 .. f[x])
           T == {P(x) : x \in S}
           g == [x \in S |-> P(x)]
<1>1. g \in Surjection(S, T)
  BY DEF Surjection
<1>2. IsFiniteSet(T)
  <2> HIDE DEF g, T
  <2> QED BY <1>1, FS_Surjection
<1>3. ASSUME NEW x \in S PROVE IsFiniteSet(P(x))
  <2>1. IsFiniteSet({x})
    BY FS_Singleton
  <2>2. f[x] \in Int /\ 1 \in Int
    OBVIOUS
  <2>3. IsFiniteSet(1 .. f[x])
    BY <2>2, FS_Interval
  <2> QED
    BY <2>1, <2>3, FS_Product
<1>4. \A U \in T : IsFiniteSet(U)
  BY <1>3
<1>5. Units(f) = UNION T
  BY DEF Units
<1>6. IsFiniteSet(UNION T)
  <2> HIDE DEF T
  <2> QED BY <1>2, <1>4, FS_UNION
<1>7. IsFiniteSet(Units(f))
  BY <1>5, <1>6
<1> QED
  BY <1>7, FS_CardinalityType DEF Total

\* The sum of sums.
LEMMA TotalAdd ==
  ASSUME NEW S, NEW f, NEW g, NEW h, Adds(S, f, g, h)
  PROVE  Total(h) = Total(f) + Total(g)
<1>0. /\ IsFiniteSet(S) /\ f \in [S -> Nat] /\ g \in [S -> Nat] /\ h \in [S -> Nat]
      /\ \A x \in S : h[x] = f[x] + g[x]
  BY DEF Adds
<1> DEFINE D == Units(h) \ Units(f)
           b == [p \in Units(g) |-> <<p[1], p[2] + f[p[1]]>>]
<1>1. Units(h) \cap Units(f) = Units(f)
  <2>1. ASSUME NEW p \in Units(f) PROVE p \in Units(h)
    <3>1. p = <<p[1], p[2]>> /\ p[1] \in S /\ p[2] \in 1 .. f[p[1]]
      BY <1>0, InUnits
    <3>2. p[2] \in 1 .. h[p[1]]
      BY <1>0, <3>1
    <3> QED
      BY <1>0, <3>1, <3>2, InUnits
  <2> QED
    BY <2>1
<1>2. ASSUME NEW p \in Units(g) PROVE b[p] \in D
  <2>1. p[1] \in S /\ p[2] \in 1 .. g[p[1]]
    BY <1>0, InUnits
  <2>2. p[2] + f[p[1]] \in 1 .. h[p[1]] /\ p[2] + f[p[1]] \notin 1 .. f[p[1]]
    BY <1>0, <2>1
  <2>3. b[p] = <<p[1], p[2] + f[p[1]]>>
    OBVIOUS
  <2> QED
    BY <1>0, <2>1, <2>2, <2>3, InUnits
<1>3. ASSUME NEW p \in Units(g), NEW q \in Units(g), b[p] = b[q] PROVE p = q
  <2>1. /\ p = <<p[1], p[2]>> /\ p[1] \in S /\ p[2] \in 1 .. g[p[1]]
        /\ q = <<q[1], q[2]>> /\ q[1] \in S /\ q[2] \in 1 .. g[q[1]]
    BY <1>0, InUnits
  <2>2. p[1] = q[1] /\ p[2] + f[p[1]] = q[2] + f[q[1]]
    BY <1>3
  <2>3. p[2] = q[2]
    BY <1>0, <2>1, <2>2
  <2> QED
    BY <2>1, <2>2, <2>3
<1>4. ASSUME NEW q \in D PROVE \E p \in Units(g) : b[p] = q
  <2>1. q = <<q[1], q[2]>> /\ q[1] \in S /\ q[2] \in 1 .. h[q[1]] /\ q[2] \notin 1 .. f[q[1]]
    BY <1>0, InUnits
  <2> DEFINE p == <<q[1], q[2] - f[q[1]]>>
  <2>2. q[2] - f[q[1]] \in 1 .. g[q[1]]
    BY <1>0, <2>1
  <2>3. p \in Units(g)
    BY <1>0, <2>1, <2>2, InUnits
  <2>4. b[p] = <<q[1], (q[2] - f[q[1]]) + f[q[1]]>>
    BY <2>3
  <2>5. (q[2] - f[q[1]]) + f[q[1]] = q[2]
    BY <1>0, <2>1
  <2> QED
    BY <2>1, <2>3, <2>4, <2>5
<1>5. b \in Bijection(Units(g), D)
  <2>1. b \in [Units(g) -> D]
    BY <1>2
  <2> HIDE DEF b, D
  <2> QED
    BY <1>3, <1>4, <2>1 DEF Bijection, Injection, Surjection, IsInjective
<1> HIDE DEF b, D
<1>6. IsFiniteSet(Units(f)) /\ IsFiniteSet(Units(g)) /\ IsFiniteSet(Units(h))
  BY <1>0, TotalType
<1>7. Cardinality(D) = Cardinality(Units(g))
  BY <1>5, <1>6, FS_Bijection DEF ExistsBijection
<1>8. Cardinality(D) = Cardinality(Units(h)) - Cardinality(Units(f))
  <2>1. Cardinality(Units(h) \ Units(f))
          = Cardinality(Units(h)) - Cardinality(Units(h) \cap Units(f))
    BY <1>6, FS_Difference
  <2> QED
    BY <1>1, <2>1 DEF D
<1> QED
  BY <1>0, <1>7, <1>8, TotalType DEF Total

\* Smaller summands make a smaller sum.
LEMMA TotalMonotone ==
  ASSUME NEW S, IsFiniteSet(S), NEW f \in [S -> Nat], NEW g \in [S -> Nat],
         \A x \in S : f[x] <= g[x]
  PROVE  Total(f) <= Total(g)
<1>1. ASSUME NEW p \in Units(f) PROVE p \in Units(g)
  <2>1. p = <<p[1], p[2]>> /\ p[1] \in S /\ p[2] \in 1 .. f[p[1]]
    BY InUnits
  <2>2. p[2] \in 1 .. g[p[1]]
    BY <2>1
  <2> QED
    BY <2>1, <2>2, InUnits
<1> QED
  BY <1>1, TotalType, FS_Subset DEF Total

\* A summand of 1 for each member of a set.
LEMMA TotalMembers ==
  ASSUME NEW S, IsFiniteSet(S), NEW D \in SUBSET S
  PROVE  Total([x \in S |-> IF x \in D THEN 1 ELSE 0]) = Cardinality(D)
<1> DEFINE f == [x \in S |-> IF x \in D THEN 1 ELSE 0]
           b == [x \in D |-> <<x, 1>>]
<1>1. f \in [S -> Nat] /\ \A x \in S : f[x] = IF x \in D THEN 1 ELSE 0
  OBVIOUS
<1> HIDE DEF f
<1>2. ASSUME NEW p \in Units(f) PROVE p[1] \in D /\ p = <<p[1], 1>>
  BY <1>1, InUnits
<1>3. ASSUME NEW x \in D PROVE <<x, 1>> \in Units(f)
  BY <1>1, InUnits
<1>4. b \in Bijection(D, Units(f))
  BY <1>2, <1>3 DEF Bijection, Injection, Surjection, IsInjective
<1>5. Cardinality(Units(f)) = Cardinality(D)
  <2>1. IsFiniteSet(D)
    BY FS_Subset
  <2> HIDE DEF b
  <2> QED
    BY <1>4, <2>1, FS_Bijection DEF ExistsBijection
<1> QED
  BY <1>5 DEF Total, f

\* A single summand.
LEMMA TotalPoint ==
  ASSUME NEW S, NEW c \in S, NEW m \in Nat
  PROVE  Total([x \in S |-> IF x = c THEN m ELSE 0]) = m
<1> DEFINE f == [x \in S |-> IF x = c THEN m ELSE 0]
           b == [i \in 1 .. m |-> <<c, i>>]
<1>1. f \in [S -> Nat] /\ \A x \in S : f[x] = IF x = c THEN m ELSE 0
  OBVIOUS
<1> HIDE DEF f
<1>2. ASSUME NEW p \in Units(f) PROVE p[2] \in 1 .. m /\ p = <<c, p[2]>>
  BY <1>1, InUnits
<1>3. ASSUME NEW i \in 1 .. m PROVE <<c, i>> \in Units(f)
  BY <1>1, InUnits
<1>4. b \in Bijection(1 .. m, Units(f))
  BY <1>2, <1>3 DEF Bijection, Injection, Surjection, IsInjective
<1>5. Cardinality(Units(f)) = m
  <2> HIDE DEF b
  <2> QED
    BY <1>4, FS_CountingElements DEF ExistsBijection
<1> QED
  BY <1>5 DEF Total, f

\* One summand changes.
LEMMA TotalUpdate ==
  ASSUME NEW S, NEW c, NEW f, NEW g, Updates(S, c, f, g)
  PROVE  Total(g) + f[c] = Total(f) + g[c]
<1>0. /\ IsFiniteSet(S) /\ c \in S /\ f \in [S -> Nat] /\ g \in [S -> Nat]
      /\ \A x \in S \ {c} : g[x] = f[x]
  BY DEF Updates
<1> DEFINE rest == [x \in S |-> IF x = c THEN 0 ELSE f[x]]
           only(n) == [x \in S |-> IF x = c THEN n ELSE 0]
<1>1. Adds(S, rest, only(f[c]), f) /\ Adds(S, rest, only(g[c]), g)
  BY <1>0 DEF Adds
<1>2. rest \in [S -> Nat]
  BY <1>0
<1>3. Total(only(f[c])) = f[c] /\ Total(only(g[c])) = g[c]
  BY <1>0, TotalPoint
<1> HIDE DEF rest, only
<1>4. Total(f) = Total(rest) + Total(only(f[c])) /\ Total(g) = Total(rest) + Total(only(g[c]))
  BY <1>1, TotalAdd
<1>5. Total(rest) \in Nat /\ f[c] \in Nat /\ g[c] \in Nat
  BY <1>0, <1>2, TotalType
<1> QED
  BY <1>3, <1>4, <1>5

\* One summand more.
LEMMA TotalExtend ==
  ASSUME NEW S, NEW c, NEW f, NEW g, Extends(S, c, f, g)
  PROVE  Total(g) = Total(f) + g[c]
<1> DEFINE T == S \cup {c}
           e == [x \in T |-> IF x = c THEN 0 ELSE f[x]]
<1>0. /\ IsFiniteSet(S) /\ c \notin S /\ f \in [S -> Nat] /\ g \in [T -> Nat]
      /\ \A x \in S : g[x] = f[x]
  BY DEF Extends
<1>1. e \in [T -> Nat] /\ e[c] = 0 /\ \A x \in S : e[x] = f[x]
  BY <1>0
<1>2. IsFiniteSet(T)
  BY <1>0, FS_AddElement
<1>3. Updates(T, c, e, g)
  BY <1>0, <1>2 DEF Updates
<1> HIDE DEF e
<1>4. Units(e) = Units(f)
  <2>1. ASSUME NEW p \in Units(e) PROVE p \in Units(f)
    <3>1. p = <<p[1], p[2]>> /\ p[1] \in T /\ p[2] \in 1 .. e[p[1]]
      BY <1>1, InUnits
    <3>2. p[1] \in S /\ p[2] \in 1 .. f[p[1]]
      BY <1>1, <3>1
    <3> QED
      BY <1>0, <3>1, <3>2, InUnits
  <2>2. ASSUME NEW p \in Units(f) PROVE p \in Units(e)
    <3>1. p = <<p[1], p[2]>> /\ p[1] \in S /\ p[2] \in 1 .. f[p[1]]
      BY <1>0, InUnits
    <3>2. p[1] \in T /\ p[2] \in 1 .. e[p[1]]
      BY <1>1, <3>1
    <3> QED
      BY <1>1, <3>1, <3>2, InUnits
  <2> QED
    BY <2>1, <2>2
<1>5. Total(e) = Total(f)
  BY <1>4 DEF Total
<1>6. Total(g) + e[c] = Total(e) + g[c]
  BY <1>3, TotalUpdate
<1>7. Total(g) \in Nat
  BY <1>0, <1>2, TotalType
<1>8. Total(g) + 0 = Total(f) + g[c]
  BY <1>1, <1>5, <1>6
<1> QED
  BY <1>7, <1>8

-------------------------------------------------------------------------------
(* The statistics of the passes. *)

Stats == [versions_reclaimed : Nat, keys_removed : Nat]

\* The versions at which a history holds a tombstone.
Marks(h) == {h[i].version : i \in {j \in 1 .. Len(h) : h[j].value = Tombstone}}

TombstonesStored == Total([k \in Key |-> Cardinality(Marks(table[k]))])

PendingVersions == Total([c \in Scanner |-> Pending(c).versions_reclaimed])
PendingKeys == Total([c \in Scanner |-> Pending(c).keys_removed])

StatsTypeOK ==
  /\ table \in [Key -> Seq(Store!VersionedValue)]
  /\ log \in Seq(Buffers)
  /\ pass_stats \in [Scanner -> Stats \cup {NoStats}]
  /\ cumulative_stats \in Stats

\* A thread that scans has nothing left to add up.
NothingPending == \A c \in Scanner : scan[c].pc # "idle" => pass_stats[c] = NoStats

\* Every entry is accounted for, and every removed key left a tombstone behind
\* that is no longer stored.
Conserved ==
  /\ Written = Stored + cumulative_stats.versions_reclaimed + PendingVersions
  /\ cumulative_stats.keys_removed + PendingKeys + TombstonesStored <= TombstonesWritten

\* The inductive invariant.
StatsInv == StatsTypeOK /\ NothingPending /\ Conserved

\* The marks of a history are finitely many.
LEMMA MarksFinite ==
  ASSUME NEW h \in Seq(Store!VersionedValue)
  PROVE  IsFiniteSet(Marks(h)) /\ Cardinality(Marks(h)) \in Nat
<1> DEFINE D == {j \in 1 .. Len(h) : h[j].value = Tombstone}
           f == [i \in D |-> h[i].version]
<1>1. f \in Surjection(D, Marks(h))
  BY DEF Surjection, Marks
<1>2. Len(h) \in Int /\ 1 \in Int
  OBVIOUS
<1>3. IsFiniteSet(1 .. Len(h))
  BY <1>2, FS_Interval
<1>4. IsFiniteSet(D)
  BY <1>3, FS_Subset
<1> HIDE DEF D, f
<1>5. IsFiniteSet(Marks(h))
  BY <1>1, <1>4, FS_Surjection
<1> QED
  BY <1>5, FS_CardinalityType

\* An entry adds its mark, if it is a tombstone.
LEMMA MarksAppend ==
  ASSUME NEW h \in Seq(Store!VersionedValue), NEW e \in Store!VersionedValue
  PROVE  /\ Len(Append(h, e)) = Len(h) + 1
         /\ Cardinality(Marks(Append(h, e))) <=
              Cardinality(Marks(h)) + (IF e.value = Tombstone THEN 1 ELSE 0)
<1> DEFINE a == Append(h, e)
<1>1. PICK n \in Nat : n = Len(h)
  OBVIOUS
<1>2. /\ a \in Seq(Store!VersionedValue) /\ Len(a) = n + 1 /\ a[n + 1] = e
      /\ \A i \in 1 .. n : a[i] = h[i]
  BY <1>1
<1> HIDE DEF a
<1>3. Marks(a) \subseteq Marks(h) \cup {e.version}
  BY <1>1, <1>2 DEF Marks
<1>4. e.value # Tombstone => Marks(a) \subseteq Marks(h)
  BY <1>1, <1>2 DEF Marks
<1>5. IsFiniteSet(Marks(h)) /\ Cardinality(Marks(h)) \in Nat /\ Cardinality(Marks(a)) \in Nat
  BY <1>2, MarksFinite
<1>6. /\ IsFiniteSet(Marks(h) \cup {e.version})
      /\ Cardinality(Marks(h) \cup {e.version}) <= Cardinality(Marks(h)) + 1
  <2>1. /\ IsFiniteSet(Marks(h) \cup {e.version})
        /\ Cardinality(Marks(h) \cup {e.version}) =
             IF e.version \in Marks(h) THEN Cardinality(Marks(h)) ELSE Cardinality(Marks(h)) + 1
    BY <1>5, FS_AddElement
  <2> QED
    BY <1>5, <2>1
<1>7. Cardinality(Marks(a)) <= Cardinality(Marks(h)) + 1
  <2>1. Cardinality(Marks(a)) <= Cardinality(Marks(h) \cup {e.version})
    BY <1>3, <1>6, FS_Subset
  <2>2. Cardinality(Marks(h) \cup {e.version}) \in Nat
    BY <1>6, FS_CardinalityType
  <2> QED
    BY <1>5, <1>6, <2>1, <2>2
<1>8. e.value # Tombstone => Cardinality(Marks(a)) <= Cardinality(Marks(h))
  BY <1>4, <1>5, FS_Subset
<1> QED
  BY <1>1, <1>2, <1>5, <1>7, <1>8 DEF a

\* A collection drops what it counts, and a mark for every key it removes.
LEMMA MarksCollected ==
  ASSUME NEW h \in Seq(Store!VersionedValue), NEW b \in Nat
  PROVE  /\ Store!Collected(h, b) \in Seq(Store!VersionedValue)
         /\ Store!Reclaimed(h, b) \in Nat
         /\ Len(h) = Len(Store!Collected(h, b)) + Store!Reclaimed(h, b)
         /\ Cardinality(Marks(Store!Collected(h, b)))
              + (IF h # <<>> /\ Store!Collected(h, b) = <<>> THEN 1 ELSE 0)
              <= Cardinality(Marks(h))
<1>0. /\ Store!VersionedValue = StoreP!VersionedValue
      /\ Store!Collected(h, b) = StoreP!Collected(h, b)
      /\ Store!Reclaimed(h, b) = StoreP!Reclaimed(h, b)
  BY DEF Store!VersionedValue, StoreP!VersionedValue, Store!Cell, StoreP!Cell, Store!Collected,
     StoreP!Collected, Store!Reclaimed, StoreP!Reclaimed, Store!PartitionPoint, StoreP!PartitionPoint
<1> DEFINE c == Store!Collected(h, b)
<1>1. /\ c \in Seq(Store!VersionedValue) /\ Store!Reclaimed(h, b) \in Nat
      /\ Len(h) = Len(c) + Store!Reclaimed(h, b)
      /\ \A i \in 1 .. Len(c) : \E j \in 1 .. Len(h) : c[i] = h[j]
      /\ h # <<>> /\ c = <<>> => Len(h) \in 1 .. Len(h) /\ h[Len(h)].value = Tombstone
  BY <1>0, StoreP!CollectedCounts, TombstoneAssumption, BoundsAssumption
<1> HIDE DEF c
<1>2. Marks(c) \subseteq Marks(h)
  BY <1>1 DEF Marks
<1>3. /\ IsFiniteSet(Marks(h)) /\ Cardinality(Marks(h)) \in Nat /\ Cardinality(Marks(c)) \in Nat
  BY <1>1, MarksFinite
<1>4. Cardinality(Marks(c)) <= Cardinality(Marks(h))
  BY <1>2, <1>3, FS_Subset
<1>5. ASSUME h # <<>>, c = <<>> PROVE Cardinality(Marks(c)) + 1 <= Cardinality(Marks(h))
  <2>1. Marks(c) = {} /\ h[Len(h)].version \in Marks(h)
    BY <1>1, <1>5 DEF Marks
  <2>2. Cardinality(Marks(c)) # Cardinality(Marks(h))
    BY <1>2, <1>3, <2>1, FS_Subset
  <2> QED
    BY <1>3, <1>4, <2>2
<1> QED
  BY <1>1, <1>3, <1>4, <1>5 DEF c

\* The sizes of a buffer are numbers.
LEMMA BufferSizes ==
  ASSUME NEW b \in Buffers
  PROVE  /\ Cardinality(DOMAIN b) \in Nat
         /\ Cardinality({k \in DOMAIN b : b[k] = Tombstone}) \in Nat
<1>1. DOMAIN b \subseteq Key
  BY DEF Buffers
<1>2. IsFiniteSet(DOMAIN b)
  BY <1>1, FiniteAssumption, FS_Subset
<1>3. IsFiniteSet({k \in DOMAIN b : b[k] = Tombstone})
  BY <1>2, FS_Subset
<1> QED
  BY <1>2, <1>3, FS_CardinalityType

\* The sums over the log are numbers.
LEMMA WrittenType ==
  ASSUME log \in Seq(Buffers)
  PROVE  Written \in Nat /\ TombstonesWritten \in Nat
<1> DEFINE D == DOMAIN log
           w == [i \in D |-> Cardinality(DOMAIN log[i])]
           d == [i \in D |-> Cardinality(Deleted(i))]
<1>1. \A i \in D : log[i] \in Buffers
  OBVIOUS
<1>2. w \in [D -> Nat] /\ d \in [D -> Nat]
  BY <1>1, BufferSizes DEF Deleted
<1>3. 1 \in Int /\ Len(log) \in Int /\ D = 1 .. Len(log)
  OBVIOUS
<1>4. IsFiniteSet(1 .. Len(log))
  BY <1>3, FS_Interval
<1>5. IsFiniteSet(D)
  BY <1>3, <1>4
<1> HIDE DEF D, w, d
<1>6. Total(w) \in Nat /\ Total(d) \in Nat
  BY <1>2, <1>5, TotalType
<1> QED
  BY <1>6 DEF Written, TombstonesWritten, D, w, d

\* How the sums over the log grow with a batch.
LEMMA WrittenGrows ==
  ASSUME log \in Seq(Buffers), NEW ops \in Buffers, log' = Append(log, ops)
  PROVE  /\ log' \in Seq(Buffers)
         /\ Written \in Nat /\ Written' = Written + Cardinality(DOMAIN ops)
         /\ TombstonesWritten \in Nat
         /\ TombstonesWritten' = TombstonesWritten
              + Cardinality({k \in DOMAIN ops : ops[k] = Tombstone})
<1>1. PICK n \in Nat : n = Len(log)
  OBVIOUS
<1>2. /\ DOMAIN log = 1 .. n /\ DOMAIN log' = 1 .. n + 1 /\ log' \in Seq(Buffers)
      /\ log'[n + 1] = ops /\ \A i \in 1 .. n : log'[i] = log[i]
  BY <1>1
<1>4. (\A i \in 1 .. n : log[i] \in Buffers) /\ \A i \in 1 .. n + 1 : log'[i] \in Buffers
  BY <1>1, <1>2
<1>5. 1 \in Int /\ n \in Int
  OBVIOUS
<1>6. IsFiniteSet(1 .. n)
  BY <1>5, FS_Interval
<1> DEFINE w == [i \in 1 .. n |-> Cardinality(DOMAIN log[i])]
           x == [i \in 1 .. n + 1 |-> Cardinality(DOMAIN log'[i])]
           d == [i \in 1 .. n |-> Cardinality(Deleted(i))]
           e == [i \in 1 .. n + 1 |-> Cardinality(Deleted(i)')]
<1>7. w \in [1 .. n -> Nat] /\ x \in [1 .. n + 1 -> Nat]
  BY <1>4, BufferSizes
<1>8. d \in [1 .. n -> Nat] /\ e \in [1 .. n + 1 -> Nat]
  BY <1>4, BufferSizes DEF Deleted
<1>9. /\ \A i \in 1 .. n : x[i] = w[i]
      /\ x[n + 1] = Cardinality(DOMAIN ops)
  BY <1>2
<1>10. /\ \A i \in 1 .. n : e[i] = d[i]
       /\ e[n + 1] = Cardinality({k \in DOMAIN ops : ops[k] = Tombstone})
  BY <1>2 DEF Deleted
<1>11. Written = Total(w) /\ Written' = Total(x)
  BY <1>2 DEF Written
<1>12. TombstonesWritten = Total(d) /\ TombstonesWritten' = Total(e)
  BY <1>2 DEF TombstonesWritten
<1> HIDE DEF w, x, d, e
<1>13. Total(w) \in Nat /\ Total(d) \in Nat
  BY <1>6, <1>7, <1>8, TotalType
<1>14. /\ n + 1 \notin 1 .. n /\ (1 .. n) \cup {n + 1} = 1 .. n + 1
  OBVIOUS
<1>15. Extends(1 .. n, n + 1, w, x) /\ Extends(1 .. n, n + 1, d, e)
  BY <1>6, <1>7, <1>8, <1>9, <1>10, <1>14 DEF Extends
<1>16. Total(x) = Total(w) + x[n + 1] /\ Total(e) = Total(d) + e[n + 1]
  BY <1>15, TotalExtend
<1> QED
  BY <1>2, <1>9, <1>10, <1>11, <1>12, <1>13, <1>16

\* The sums over the keys are numbers.
LEMMA StoredType ==
  ASSUME table \in [Key -> Seq(Store!VersionedValue)]
  PROVE  Stored \in Nat /\ TombstonesStored \in Nat
<1> DEFINE f == [k \in Key |-> Len(table[k])]
           m == [k \in Key |-> Cardinality(Marks(table[k]))]
<1>1. f \in [Key -> Nat] /\ m \in [Key -> Nat]
  BY MarksFinite
<1> HIDE DEF f, m
<1>2. Total(f) \in Nat /\ Total(m) \in Nat
  BY <1>1, FiniteAssumption, TotalType
<1> QED
  BY <1>2 DEF Stored, TombstonesStored, f, m

\* How the sums over the keys grow with a batch.
LEMMA StoredGrows ==
  ASSUME table \in [Key -> Seq(Store!VersionedValue)], next_version \in Nat \ {0},
         NEW ops \in Buffers, Store!ApplyBatch(ops)
  PROVE  /\ table' \in [Key -> Seq(Store!VersionedValue)]
         /\ Stored' = Stored + Cardinality(DOMAIN ops)
         /\ TombstonesStored' <= TombstonesStored
              + Cardinality({k \in DOMAIN ops : ops[k] = Tombstone})
         /\ Stored' \in Nat /\ TombstonesStored' \in Nat
<1> DEFINE D == DOMAIN ops
           X == {k \in D : ops[k] = Tombstone}
           E(k) == [version |-> next_version, value |-> ops[k]]
<1>0. IsFiniteSet(Key)
  BY FiniteAssumption
<1>1. D \subseteq Key /\ X \subseteq Key
  BY DEF Buffers
<1>2. \A k \in D : E(k) \in Store!VersionedValue /\ (E(k).value = Tombstone <=> k \in X)
  BY DEF Buffers, Store!VersionedValue
<1>3. table' = [k \in Key |-> IF k \in D THEN Append(table[k], E(k)) ELSE table[k]]
  BY DEF Store!ApplyBatch
<1> HIDE DEF D, X, E
<1>4. ASSUME NEW k \in Key
      PROVE  /\ table'[k] \in Seq(Store!VersionedValue)
             /\ Len(table'[k]) = Len(table[k]) + (IF k \in D THEN 1 ELSE 0)
             /\ Cardinality(Marks(table'[k])) <=
                  Cardinality(Marks(table[k])) + (IF k \in X THEN 1 ELSE 0)
  <2>1. table[k] \in Seq(Store!VersionedValue)
    OBVIOUS
  <2>2. Len(table[k]) \in Nat /\ Cardinality(Marks(table[k])) \in Nat
    BY <2>1, MarksFinite
  <2>3. CASE k \in D
    <3>1. table'[k] = Append(table[k], E(k)) /\ E(k) \in Store!VersionedValue
      BY <1>2, <1>3, <2>3
    <3>2. table'[k] \in Seq(Store!VersionedValue)
      BY <2>1, <3>1
    <3>3. /\ Len(table'[k]) = Len(table[k]) + 1
          /\ Cardinality(Marks(table'[k])) <=
               Cardinality(Marks(table[k])) + (IF E(k).value = Tombstone THEN 1 ELSE 0)
      BY <2>1, <3>1, MarksAppend
    <3> QED
      BY <1>2, <2>3, <3>2, <3>3
  <2>4. CASE k \notin D
    <3>1. table'[k] = table[k]
      BY <1>3, <2>4
    <3> QED
      BY <2>1, <2>2, <2>4, <3>1
  <2> QED
    BY <2>3, <2>4
<1>5. table' \in [Key -> Seq(Store!VersionedValue)]
  BY <1>3, <1>4
<1> DEFINE f == [k \in Key |-> Len(table[k])]
           g == [k \in Key |-> Len(table'[k])]
           m == [k \in Key |-> Cardinality(Marks(table[k]))]
           o == [k \in Key |-> Cardinality(Marks(table'[k]))]
           inD == [k \in Key |-> IF k \in D THEN 1 ELSE 0]
           inX == [k \in Key |-> IF k \in X THEN 1 ELSE 0]
           top == [k \in Key |-> m[k] + inX[k]]
<1>6. f \in [Key -> Nat] /\ g \in [Key -> Nat] /\ inD \in [Key -> Nat]
  BY <1>5
<1>7. m \in [Key -> Nat] /\ o \in [Key -> Nat] /\ inX \in [Key -> Nat]
  BY <1>5, MarksFinite
<1>8. \A k \in Key : g[k] = f[k] + inD[k]
  BY <1>4
<1>9. \A k \in Key : o[k] <= m[k] + inX[k]
  BY <1>4
<1>10. Total(inD) = Cardinality(D) /\ Total(inX) = Cardinality(X)
  BY <1>1, FiniteAssumption, TotalMembers
<1>11. Stored = Total(f) /\ Stored' = Total(g)
  BY DEF Stored
<1>12. TombstonesStored = Total(m) /\ TombstonesStored' = Total(o)
  BY DEF TombstonesStored
<1> HIDE DEF f, g, m, o, inD, inX
<1>13. Total(g) = Total(f) + Total(inD)
  <2>1. Adds(Key, f, inD, g)
    BY <1>0, <1>6, <1>8 DEF Adds
  <2> QED
    BY <2>1, TotalAdd
<1>14. top \in [Key -> Nat] /\ \A k \in Key : top[k] = m[k] + inX[k]
  BY <1>7
<1> HIDE DEF top
<1>15. Total(top) = Total(m) + Total(inX)
  <2>1. Adds(Key, m, inX, top)
    BY <1>0, <1>7, <1>14 DEF Adds
  <2> QED
    BY <2>1, TotalAdd
<1>16. Total(o) <= Total(top)
  <2>1. \A k \in Key : o[k] <= top[k]
    BY <1>9, <1>14
  <2> QED
    BY <1>7, <1>14, <2>1, FiniteAssumption, TotalMonotone
<1>17. Total(g) \in Nat /\ Total(o) \in Nat
  BY <1>0, <1>6, <1>7, TotalType
<1> QED
  BY <1>5, <1>10, <1>11, <1>12, <1>13, <1>15, <1>16, <1>17 DEF D, X

\* A collection takes out of the store what it reports.
LEMMA StoredShrinks ==
  ASSUME table \in [Key -> Seq(Store!VersionedValue)], NEW b \in Nat, Store!CollectGarbage(b)
  PROVE  /\ table' \in [Key -> Seq(Store!VersionedValue)]
         /\ Store!GCStats(b) \in Stats
         /\ Stored = Stored' + Store!GCStats(b).versions_reclaimed
         /\ TombstonesStored' + Store!GCStats(b).keys_removed <= TombstonesStored
         /\ Stored' \in Nat /\ TombstonesStored' \in Nat
<1> DEFINE X == {k \in Key : table[k] # <<>> /\ Store!Collected(table[k], b) = <<>>}
           f == [k \in Key |-> Len(table[k])]
           g == [k \in Key |-> Len(table'[k])]
           r == [k \in Key |-> Store!Reclaimed(table[k], b)]
           m == [k \in Key |-> Cardinality(Marks(table[k]))]
           o == [k \in Key |-> Cardinality(Marks(table'[k]))]
           inX == [k \in Key |-> IF k \in X THEN 1 ELSE 0]
           low == [k \in Key |-> o[k] + inX[k]]
<1>0. IsFiniteSet(Key) /\ X \subseteq Key
  BY FiniteAssumption
<1>1. table' = [k \in Key |-> Store!Collected(table[k], b)]
  BY DEF Store!CollectGarbage
<1>2. ASSUME NEW k \in Key
      PROVE  /\ table'[k] \in Seq(Store!VersionedValue)
             /\ Store!Reclaimed(table[k], b) \in Nat
             /\ Len(table[k]) = Len(table'[k]) + Store!Reclaimed(table[k], b)
             /\ Cardinality(Marks(table'[k])) + (IF k \in X THEN 1 ELSE 0)
                  <= Cardinality(Marks(table[k]))
  <2>1. table[k] \in Seq(Store!VersionedValue) /\ table'[k] = Store!Collected(table[k], b)
    BY <1>1
  <2>2. k \in X <=> table[k] # <<>> /\ Store!Collected(table[k], b) = <<>>
    OBVIOUS
  <2> HIDE DEF X
  <2> QED
    BY <2>1, <2>2, MarksCollected
<1>3. table' \in [Key -> Seq(Store!VersionedValue)]
  BY <1>1, <1>2
<1>4. Store!GCStats(b) = [versions_reclaimed |-> Total(r), keys_removed |-> Cardinality(X)]
  BY DEF Store!GCStats, Store!Total, Store!Units, Store!Cardinality, Total, Units, Cardinality
<1>5. Stored = Total(f) /\ Stored' = Total(g)
  BY DEF Stored
<1>6. TombstonesStored = Total(m) /\ TombstonesStored' = Total(o)
  BY DEF TombstonesStored
<1> HIDE DEF X
<1>7. /\ f \in [Key -> Nat] /\ g \in [Key -> Nat] /\ r \in [Key -> Nat]
      /\ \A k \in Key : f[k] = g[k] + r[k]
  BY <1>2, <1>3
<1>8. m \in [Key -> Nat] /\ o \in [Key -> Nat] /\ inX \in [Key -> Nat]
  BY <1>3, MarksFinite
<1>9. \A k \in Key : o[k] + inX[k] <= m[k]
  BY <1>2
<1>10. Total(inX) = Cardinality(X)
  BY <1>0, TotalMembers
<1> HIDE DEF f, g, r, m, o, inX
<1>11. Adds(Key, g, r, f) /\ Adds(Key, o, inX, low)
  BY <1>0, <1>7, <1>8 DEF Adds
<1>12. Total(f) = Total(g) + Total(r) /\ Total(low) = Total(o) + Total(inX)
  BY <1>11, TotalAdd
<1>13. low \in [Key -> Nat] /\ \A k \in Key : low[k] <= m[k]
  BY <1>8, <1>9
<1> HIDE DEF low
<1>14. Total(low) <= Total(m)
  BY <1>0, <1>8, <1>13, TotalMonotone
<1>15. Total(r) \in Nat /\ Total(inX) \in Nat /\ Total(g) \in Nat /\ Total(o) \in Nat
  BY <1>0, <1>7, <1>8, TotalType
<1> QED
  BY <1>3, <1>4, <1>5, <1>6, <1>10, <1>12, <1>14, <1>15 DEF Stats

\* What the passes have pending, and how it changes with one of them.
LEMMA PendingChange ==
  ASSUME pass_stats \in [Scanner -> Stats \cup {NoStats}],
         NEW c \in Scanner, NEW s \in Stats \cup {NoStats},
         pass_stats' = [pass_stats EXCEPT ![c] = s]
  PROVE  /\ PendingVersions \in Nat /\ PendingKeys \in Nat
         /\ Pending(c) \in Stats /\ Pending(c)' \in Stats
         /\ PendingVersions' + Pending(c).versions_reclaimed
              = PendingVersions + Pending(c)'.versions_reclaimed
         /\ PendingKeys' + Pending(c).keys_removed = PendingKeys + Pending(c)'.keys_removed
         /\ PendingVersions' \in Nat /\ PendingKeys' \in Nat
<1> DEFINE v == [d \in Scanner |-> Pending(d).versions_reclaimed]
           w == [d \in Scanner |-> Pending(d)'.versions_reclaimed]
           k == [d \in Scanner |-> Pending(d).keys_removed]
           l == [d \in Scanner |-> Pending(d)'.keys_removed]
<1>0. IsFiniteSet(Scanner)
  BY FiniteAssumption
<1>1. \A d \in Scanner : Pending(d) \in Stats /\ Pending(d)' \in Stats
  BY DEF Pending, ZeroStats, Stats
<1>2. \A d \in Scanner \ {c} : Pending(d)' = Pending(d)
  BY DEF Pending
<1>3. /\ v \in [Scanner -> Nat] /\ w \in [Scanner -> Nat]
      /\ k \in [Scanner -> Nat] /\ l \in [Scanner -> Nat]
  BY <1>1 DEF Stats
<1>4. Updates(Scanner, c, v, w) /\ Updates(Scanner, c, k, l)
  BY <1>0, <1>2, <1>3 DEF Updates
<1>5. /\ v[c] = Pending(c).versions_reclaimed /\ w[c] = Pending(c)'.versions_reclaimed
      /\ k[c] = Pending(c).keys_removed /\ l[c] = Pending(c)'.keys_removed
  OBVIOUS
<1>6. /\ PendingVersions = Total(v) /\ PendingVersions' = Total(w)
      /\ PendingKeys = Total(k) /\ PendingKeys' = Total(l)
  BY DEF PendingVersions, PendingKeys
<1> HIDE DEF v, w, k, l
<1>7. Total(w) + v[c] = Total(v) + w[c]
  BY <1>4, TotalUpdate
<1>8. Total(l) + k[c] = Total(k) + l[c]
  BY <1>4, TotalUpdate
<1>9. Total(v) \in Nat /\ Total(w) \in Nat /\ Total(k) \in Nat /\ Total(l) \in Nat
  BY <1>0, <1>3, TotalType
<1> QED
  BY <1>1, <1>5, <1>6, <1>7, <1>8, <1>9

\* The pending sums are numbers.
LEMMA PendingType ==
  ASSUME pass_stats \in [Scanner -> Stats \cup {NoStats}]
  PROVE  PendingVersions \in Nat /\ PendingKeys \in Nat
<1> DEFINE v == [c \in Scanner |-> Pending(c).versions_reclaimed]
           k == [c \in Scanner |-> Pending(c).keys_removed]
<1>1. v \in [Scanner -> Nat] /\ k \in [Scanner -> Nat]
  BY DEF Pending, ZeroStats, Stats
<1> HIDE DEF v, k
<1>2. Total(v) \in Nat /\ Total(k) \in Nat
  BY <1>1, FiniteAssumption, TotalType
<1> QED
  BY <1>2 DEF PendingVersions, PendingKeys, v, k

\* Arithmetic of the balance: r is counted, p pending, s (then t) stored, w written.
LEMMA RoomKept ==
  ASSUME NEW r \in Nat, NEW p \in Nat, NEW s \in Nat, NEW t \in Nat, NEW w \in Nat, NEW x \in Nat,
         r + p + s <= w, t <= s + x
  PROVE  r + p + t <= w + x
OBVIOUS

\* The same when x leaves the store and becomes pending.
LEMMA RoomMoved ==
  ASSUME NEW r \in Nat, NEW p \in Nat, NEW s \in Nat, NEW t \in Nat, NEW w \in Nat, NEW x \in Nat,
         r + p + s <= w, t + x <= s
  PROVE  r + (p + x) + t <= w
OBVIOUS

\* What leaves one column of the balance enters the next.
LEMMA BalanceMoved ==
  ASSUME NEW s \in Nat, NEW r \in Nat, NEW p \in Nat, NEW v \in Nat
  PROVE  /\ (s + v) + r + p = s + r + (p + v)
         /\ s + r + (p + v) = s + (r + v) + p
         /\ (s + v) + r + p = (s + r + p) + v
OBVIOUS

\* A batch, complete or not: every entry it adds is written and stored.
LEMMA ApplyConserves ==
  ASSUME StatsTypeOK, Conserved, next_version \in Nat \ {0}, NEW ops \in Buffers,
         Store!ApplyBatch(ops), UNCHANGED gcVars
  PROVE  StatsTypeOK' /\ Conserved'
<1>0. /\ table \in [Key -> Seq(Store!VersionedValue)] /\ log \in Seq(Buffers)
      /\ pass_stats \in [Scanner -> Stats \cup {NoStats}] /\ cumulative_stats \in Stats
  BY DEF StatsTypeOK
<1>1. log' = Append(log, ops)
  BY DEF Store!ApplyBatch
<1> DEFINE n == Cardinality(DOMAIN ops)
           x == Cardinality({k \in DOMAIN ops : ops[k] = Tombstone})
<1>2. /\ log' \in Seq(Buffers) /\ Written \in Nat /\ Written' = Written + n
      /\ TombstonesWritten \in Nat /\ TombstonesWritten' = TombstonesWritten + x
  BY <1>0, <1>1, WrittenGrows
<1>3. /\ table' \in [Key -> Seq(Store!VersionedValue)] /\ Stored' = Stored + n
      /\ TombstonesStored' <= TombstonesStored + x
      /\ Stored' \in Nat /\ TombstonesStored' \in Nat
  BY <1>0, StoredGrows
<1>5. n \in Nat /\ x \in Nat
  BY BufferSizes
<1> HIDE DEF n, x
<1>6. Stored \in Nat /\ TombstonesStored \in Nat
  BY <1>0, StoredType
<1>7. PendingVersions \in Nat /\ PendingKeys \in Nat
  BY <1>0, PendingType
<1>8. /\ PendingVersions' = PendingVersions /\ PendingKeys' = PendingKeys
      /\ cumulative_stats' = cumulative_stats /\ pass_stats' = pass_stats
      /\ cumulative_stats.versions_reclaimed \in Nat /\ cumulative_stats.keys_removed \in Nat
  BY <1>0 DEF PendingVersions, PendingKeys, Pending, gcVars, Stats
<1>9. /\ Written = Stored + cumulative_stats.versions_reclaimed + PendingVersions
      /\ cumulative_stats.keys_removed + PendingKeys + TombstonesStored <= TombstonesWritten
  BY DEF Conserved
<1>10. Written' = Stored' + cumulative_stats.versions_reclaimed + PendingVersions
  <2>1. /\ Written' = Written + n /\ Stored' = Stored + n
        /\ n \in Nat /\ Stored \in Nat /\ PendingVersions \in Nat
    BY <1>2, <1>3, <1>5, <1>6, <1>7
  <2>2. PICK r \in Nat : r = cumulative_stats.versions_reclaimed
    BY <1>8
  <2>3. Written = Stored + r + PendingVersions
    BY <1>9, <2>2
  <2>4. Written' = Stored' + r + PendingVersions
    BY <2>1, <2>2, <2>3, BalanceMoved
  <2> QED
    BY <2>2, <2>4
<1>11. cumulative_stats.keys_removed + PendingKeys + TombstonesStored' <= TombstonesWritten'
  <2>1. /\ TombstonesWritten' = TombstonesWritten + x
        /\ TombstonesStored' <= TombstonesStored + x
        /\ x \in Nat /\ TombstonesStored \in Nat /\ TombstonesStored' \in Nat
        /\ TombstonesWritten \in Nat /\ PendingKeys \in Nat
    BY <1>2, <1>3, <1>5, <1>6, <1>7
  <2>2. PICK r \in Nat : r = cumulative_stats.keys_removed
    BY <1>8
  <2>3. r + PendingKeys + TombstonesStored <= TombstonesWritten
    BY <1>9, <2>2
  <2>4. r + PendingKeys + TombstonesStored' <= TombstonesWritten'
    BY <2>1, <2>2, <2>3, RoomKept
  <2> QED
    BY <2>2, <2>4
<1> QED
  BY <1>0, <1>2, <1>3, <1>8, <1>10, <1>11 DEF Conserved, StatsTypeOK

\* A collection: what leaves the store is pending.
LEMMA CollectConserves ==
  ASSUME StatsTypeOK, Conserved, NothingPending, NEW c \in Scanner, Collect(c),
         scan[c].oldest \in Nat
  PROVE  StatsTypeOK' /\ Conserved'
<1>0. /\ table \in [Key -> Seq(Store!VersionedValue)] /\ log \in Seq(Buffers)
      /\ pass_stats \in [Scanner -> Stats \cup {NoStats}] /\ cumulative_stats \in Stats
  BY DEF StatsTypeOK
<1> DEFINE b == scan[c].oldest
           s == Store!GCStats(b)
<1>1. /\ Store!CollectGarbage(b) /\ scan[c].pc = "done" /\ UNCHANGED <<log, cumulative_stats>>
      /\ pass_stats' = [pass_stats EXCEPT ![c] = s]
  BY DEF Collect, Mgr!UseBoundary, Store!CollectGarbage
<1>2. pass_stats[c] = NoStats
  BY <1>1 DEF NothingPending
<1> HIDE DEF b
<1>3. /\ table' \in [Key -> Seq(Store!VersionedValue)] /\ s \in Stats
      /\ Stored = Stored' + s.versions_reclaimed
      /\ TombstonesStored' + s.keys_removed <= TombstonesStored
      /\ Stored' \in Nat /\ TombstonesStored' \in Nat
  BY <1>0, <1>1, StoredShrinks DEF b
<1> HIDE DEF s
<1>4. Pending(c) = ZeroStats /\ Pending(c)' = s
  BY <1>0, <1>1, <1>2, <1>3 DEF Pending, NoStats, Stats
<1>5. /\ PendingVersions \in Nat /\ PendingKeys \in Nat
      /\ PendingVersions' \in Nat /\ PendingKeys' \in Nat
      /\ PendingVersions' + Pending(c).versions_reclaimed
           = PendingVersions + Pending(c)'.versions_reclaimed
      /\ PendingKeys' + Pending(c).keys_removed = PendingKeys + Pending(c)'.keys_removed
  BY <1>0, <1>1, <1>3, PendingChange
<1>6. /\ PendingVersions' = PendingVersions + s.versions_reclaimed
      /\ PendingKeys' = PendingKeys + s.keys_removed
      /\ s.versions_reclaimed \in Nat /\ s.keys_removed \in Nat
  BY <1>3, <1>4, <1>5 DEF ZeroStats, Stats
<1>7. TombstonesStored \in Nat
  BY <1>0, StoredType
<1>8. /\ cumulative_stats.versions_reclaimed \in Nat /\ cumulative_stats.keys_removed \in Nat
  BY <1>0 DEF Stats
<1>9. /\ Written' = Written /\ TombstonesWritten' = TombstonesWritten
  BY <1>1 DEF Written, TombstonesWritten, Deleted
<1>10. Written \in Nat /\ TombstonesWritten \in Nat
  BY <1>0, WrittenType
<1>11. /\ Written = Stored + cumulative_stats.versions_reclaimed + PendingVersions
       /\ cumulative_stats.keys_removed + PendingKeys + TombstonesStored <= TombstonesWritten
  BY DEF Conserved
<1>12. Written = Stored' + cumulative_stats.versions_reclaimed + PendingVersions'
  <2>1. PICK v \in Nat, r \in Nat :
          v = s.versions_reclaimed /\ r = cumulative_stats.versions_reclaimed
    BY <1>6, <1>8
  <2>2. Written = (Stored' + v) + r + PendingVersions /\ PendingVersions' = PendingVersions + v
    BY <1>3, <1>6, <1>11, <2>1
  <2>3. Stored' \in Nat /\ PendingVersions \in Nat
    BY <1>3, <1>5
  <2>4. Written = Stored' + r + PendingVersions'
    BY <2>2, <2>3, BalanceMoved
  <2> QED
    BY <2>1, <2>4
<1>13. cumulative_stats.keys_removed + PendingKeys' + TombstonesStored' <= TombstonesWritten
  <2>1. PICK x \in Nat, r \in Nat : x = s.keys_removed /\ r = cumulative_stats.keys_removed
    BY <1>6, <1>8
  <2>2. /\ TombstonesStored' + x <= TombstonesStored /\ PendingKeys' = PendingKeys + x
        /\ r + PendingKeys + TombstonesStored <= TombstonesWritten
    BY <1>3, <1>6, <1>11, <2>1
  <2>3. TombstonesStored' \in Nat /\ PendingKeys \in Nat
    BY <1>3, <1>5
  <2>4. r + (PendingKeys + x) + TombstonesStored' <= TombstonesWritten
    BY <1>7, <1>10, <2>2, <2>3, RoomMoved
  <2> QED
    BY <2>1, <2>2, <2>4
<1>14. pass_stats' \in [Scanner -> Stats \cup {NoStats}]
  BY <1>0, <1>1, <1>3
<1> QED
  BY <1>0, <1>1, <1>3, <1>9, <1>12, <1>13, <1>14 DEF Conserved, StatsTypeOK

\* The additions under stats_mutex_: what was pending is counted.
LEMMA AccumulateConserves ==
  ASSUME StatsTypeOK, Conserved, NEW c \in Scanner, Accumulate(c)
  PROVE  StatsTypeOK' /\ Conserved'
<1>0. /\ table \in [Key -> Seq(Store!VersionedValue)] /\ log \in Seq(Buffers)
      /\ pass_stats \in [Scanner -> Stats \cup {NoStats}] /\ cumulative_stats \in Stats
  BY DEF StatsTypeOK
<1> DEFINE s == pass_stats[c]
<1>1. /\ s # NoStats /\ UNCHANGED <<table, log>>
      /\ pass_stats' = [pass_stats EXCEPT ![c] = NoStats]
      /\ cumulative_stats' =
           [versions_reclaimed |-> cumulative_stats.versions_reclaimed + s.versions_reclaimed,
            keys_removed |-> cumulative_stats.keys_removed + s.keys_removed]
  BY DEF Accumulate, txnVars, storeVars
<1>2. s \in Stats /\ Pending(c) = s /\ Pending(c)' = ZeroStats
  BY <1>0, <1>1 DEF Pending
<1> HIDE DEF s
<1>3. /\ PendingVersions' \in Nat /\ PendingKeys' \in Nat
      /\ PendingVersions' + Pending(c).versions_reclaimed
           = PendingVersions + Pending(c)'.versions_reclaimed
      /\ PendingKeys' + Pending(c).keys_removed = PendingKeys + Pending(c)'.keys_removed
      /\ PendingVersions \in Nat /\ PendingKeys \in Nat
  BY <1>0, <1>1, PendingChange
<1>4. /\ PendingVersions = PendingVersions' + s.versions_reclaimed
      /\ PendingKeys = PendingKeys' + s.keys_removed
      /\ s.versions_reclaimed \in Nat /\ s.keys_removed \in Nat
  BY <1>2, <1>3 DEF ZeroStats, Stats
<1>5. /\ cumulative_stats.versions_reclaimed \in Nat /\ cumulative_stats.keys_removed \in Nat
  BY <1>0 DEF Stats
<1>6. /\ cumulative_stats'.versions_reclaimed
           = cumulative_stats.versions_reclaimed + s.versions_reclaimed
      /\ cumulative_stats'.keys_removed = cumulative_stats.keys_removed + s.keys_removed
      /\ cumulative_stats' \in Stats
  BY <1>1, <1>4, <1>5 DEF Stats
<1>7. /\ Written' = Written /\ TombstonesWritten' = TombstonesWritten
      /\ Stored' = Stored /\ TombstonesStored' = TombstonesStored
  BY <1>1 DEF Written, TombstonesWritten, Deleted, Stored, TombstonesStored
<1>8. Stored \in Nat /\ TombstonesStored \in Nat
  BY <1>0, StoredType
<1>9. /\ Written = Stored + cumulative_stats.versions_reclaimed + PendingVersions
      /\ cumulative_stats.keys_removed + PendingKeys + TombstonesStored <= TombstonesWritten
  BY DEF Conserved
<1>10. Written \in Nat /\ TombstonesWritten \in Nat
  BY <1>0, WrittenType
<1>11. Written = Stored + cumulative_stats'.versions_reclaimed + PendingVersions'
  <2>1. PICK v \in Nat, r \in Nat :
          v = s.versions_reclaimed /\ r = cumulative_stats.versions_reclaimed
    BY <1>4, <1>5
  <2>2. /\ Written = Stored + r + (PendingVersions' + v)
        /\ cumulative_stats'.versions_reclaimed = r + v
    BY <1>4, <1>6, <1>9, <2>1
  <2> QED
    BY <1>3, <1>8, <2>1, <2>2, BalanceMoved
<1>12. cumulative_stats'.keys_removed + PendingKeys' + TombstonesStored <= TombstonesWritten
  <2>1. PICK x \in Nat, r \in Nat : x = s.keys_removed /\ r = cumulative_stats.keys_removed
    BY <1>4, <1>5
  <2>2. /\ r + (PendingKeys' + x) + TombstonesStored <= TombstonesWritten
        /\ cumulative_stats'.keys_removed = r + x
    BY <1>4, <1>6, <1>9, <2>1
  <2>3. (r + x) + PendingKeys' = r + (PendingKeys' + x)
    BY <1>3, <2>1
  <2> QED
    BY <2>2, <2>3
<1>13. pass_stats' \in [Scanner -> Stats \cup {NoStats}]
  BY <1>0, <1>1
<1> QED
  BY <1>0, <1>1, <1>6, <1>7, <1>11, <1>12, <1>13 DEF Conserved, StatsTypeOK

\* A step that writes nothing to the store and adds nothing up.
LEMMA IdleConserves ==
  ASSUME StatsTypeOK, Conserved, UNCHANGED <<table, log, gcVars>>
  PROVE  StatsTypeOK' /\ Conserved'
<1>1. /\ Written' = Written /\ TombstonesWritten' = TombstonesWritten
      /\ Stored' = Stored /\ TombstonesStored' = TombstonesStored
  BY DEF Written, TombstonesWritten, Deleted, Stored, TombstonesStored
<1>2. /\ PendingVersions' = PendingVersions /\ PendingKeys' = PendingKeys
      /\ cumulative_stats' = cumulative_stats /\ pass_stats' = pass_stats
  BY DEF PendingVersions, PendingKeys, Pending, gcVars
<1> QED
  BY <1>1, <1>2 DEF Conserved, StatsTypeOK

\* What the registry says of the scans.
LEMMA ScanTypes ==
  ASSUME MgrP!TypeOK
  PROVE  /\ scan \in [Scanner -> MgrP!ScanRecord]
         /\ \A c \in Scanner : scan[c].oldest \in Nat
BY BoundsAssumption DEF MgrP!TypeOK, MgrP!ScanRecord, MgrP!Version

\* A step of the registry that is no scan's leaves every scan where it is.
LEMMA ScansStay ==
  ASSUME MgrP!TypeOK, NEW t \in TxnId, Mgr!TxnStep(t)
  PROVE  \A c \in Scanner : scan'[c].pc = scan[c].pc
BY ScanTypes DEF Mgr!TxnStep, Mgr!AssignId, Mgr!RegisterPlaceholder, Mgr!ReadSnapshot,
   Mgr!RefineSnapshot, Mgr!Unregister, MgrP!ScanRecord

\* Everything but the passes.
LEMMA TxnStats ==
  ASSUME StatsInv, MgrP!TypeOK, next_version \in Nat \ {0}, write_set \in [TxnId -> Buffers],
         TxnNext, UNCHANGED gcVars
  PROVE  StatsInv'
<1>0. StatsTypeOK /\ Conserved /\ NothingPending
  BY DEF StatsInv
<1>1. ASSUME NEW ops \in Buffers, Store!ApplyBatch(ops), Mgr!StoreWrite PROVE StatsInv'
  <2>1. StatsTypeOK' /\ Conserved'
    BY <1>0, <1>1, ApplyConserves
  <2>2. UNCHANGED <<scan, pass_stats>>
    BY <1>1 DEF Mgr!StoreWrite, gcVars
  <2> QED
    BY <1>0, <2>1, <2>2 DEF StatsInv, NothingPending
<1>2. ASSUME UNCHANGED <<table, log>>, \A c \in Scanner : scan'[c].pc = scan[c].pc PROVE StatsInv'
  <2>1. StatsTypeOK' /\ Conserved'
    BY <1>0, <1>2, IdleConserves
  <2> QED
    BY <1>0, <1>2, <2>1 DEF StatsInv, NothingPending, gcVars
<1>3. ASSUME NEW t \in TxnId, CommitApply(t) PROVE StatsInv'
  BY <1>1, <1>3 DEF CommitApply, Store!ApplyBatchIfNoConflict
<1>4. ASSUME NEW t \in TxnId, BeginStep(t) \/ BeginReturn(t) \/ EndUnregister(t) \/ Destroy(t)
      PROVE  StatsInv'
  <2>1. UNCHANGED <<table, log>> /\ Mgr!TxnStep(t)
    BY <1>4 DEF BeginStep, BeginReturn, EndUnregister, Destroy, storeVars, Mgr!TxnStep
  <2> QED
    BY <1>2, <2>1, ScansStay
<1>5. ASSUME NEW t \in TxnId,
             \/ \E k \in Key : Delete(t, k) \/ \E v \in Value : Put(t, k, v)
             \/ CommitReadOnly(t) \/ CommitConflict(t) \/ Abort(t)
      PROVE  StatsInv'
  <2>1. UNCHANGED <<table, log, scan>>
    BY <1>5 DEF Delete, Put, CommitReadOnly, CommitConflict, Abort, storeVars, regVars
  <2> QED
    BY <1>2, <2>1
<1>6. ASSUME DirectWrite PROVE StatsInv'
  <2>1. Store!Batch \subseteq Buffers
    BY DEF Store!Batch, Buffers
  <2> QED
    BY <1>1, <1>6, <2>1, DirectIsBatch DEF DirectWrite
<1> QED
  BY <1>3, <1>4, <1>5, <1>6 DEF TxnNext, TxnStep

\* The passes.
LEMMA PassStats ==
  ASSUME StatsInv, MgrP!TypeOK, NEW c \in Scanner, RunOnceStep(c)
  PROVE  StatsInv'
<1>0. StatsTypeOK /\ Conserved /\ NothingPending
  BY DEF StatsInv
<1>1. scan \in [Scanner -> MgrP!ScanRecord] /\ scan[c].oldest \in Nat
  BY ScanTypes
<1>2. CASE ComputeBoundary(c)
  <2>1. UNCHANGED <<table, log, gcVars>> /\ pass_stats[c] = NoStats
    BY <1>2 DEF ComputeBoundary, storeVars
  <2>2. \A d \in Scanner \ {c} : scan'[d] = scan[d]
    BY <1>1, <1>2 DEF ComputeBoundary, Mgr!StartScan, Mgr!VisitShard, Mgr!ReturnBoundary
  <2>3. NothingPending'
    BY <1>0, <2>1, <2>2 DEF NothingPending, gcVars
  <2> QED
    BY <1>0, <2>1, <2>3, IdleConserves DEF StatsInv
<1>3. CASE Collect(c)
  <2>1. StatsTypeOK' /\ Conserved'
    BY <1>0, <1>1, <1>3, CollectConserves
  <2>2. /\ \A d \in Scanner \ {c} : scan'[d] = scan[d] /\ pass_stats'[d] = pass_stats[d]
        /\ scan'[c].pc = "idle"
    BY <1>0, <1>1, <1>3 DEF Collect, Mgr!UseBoundary, Mgr!IdleScan, StatsTypeOK
  <2> QED
    BY <1>0, <2>1, <2>2 DEF StatsInv, NothingPending
<1>4. CASE Accumulate(c)
  <2>1. StatsTypeOK' /\ Conserved'
    BY <1>0, <1>4, AccumulateConserves
  <2>2. /\ UNCHANGED scan /\ pass_stats'[c] = NoStats
        /\ \A d \in Scanner \ {c} : pass_stats'[d] = pass_stats[d]
    BY <1>0, <1>4 DEF Accumulate, txnVars, regVars, StatsTypeOK
  <2> QED
    BY <1>0, <2>1, <2>2 DEF StatsInv, NothingPending
<1> QED
  BY <1>2, <1>3, <1>4 DEF RunOnceStep

\* Initially there is nothing to count.
LEMMA InitStats == SysInit => StatsInv
<1> SUFFICES ASSUME SysInit PROVE StatsInv
  OBVIOUS
<1>1. /\ table = [k \in Key |-> <<>>] /\ log = <<>> /\ cumulative_stats = ZeroStats
      /\ pass_stats = [c \in Scanner |-> NoStats]
  BY DEF SysInit, Init, Store!Init
<1>2. StatsTypeOK
  BY <1>1 DEF StatsTypeOK, Stats, ZeroStats
<1>3. NothingPending
  BY <1>1 DEF NothingPending
<1>4. ASSUME NEW S, NEW f \in [S -> Nat], \A x \in S : f[x] = 0 PROVE Total(f) = 0
  <2>1. Units(f) = {}
    BY <1>4, InUnits
  <2> QED
    BY <2>1, FS_EmptySet DEF Total
<1> DEFINE w == [i \in DOMAIN log |-> Cardinality(DOMAIN log[i])]
           s == [k \in Key |-> Len(table[k])]
           m == [k \in Key |-> Cardinality(Marks(table[k]))]
           v == [c \in Scanner |-> Pending(c).versions_reclaimed]
           r == [c \in Scanner |-> Pending(c).keys_removed]
<1>5. DOMAIN log = {} /\ w \in [{} -> Nat]
  BY <1>1
<1>6. s \in [Key -> Nat] /\ \A k \in Key : s[k] = 0
  BY <1>1
<1>7. m \in [Key -> Nat] /\ \A k \in Key : m[k] = 0
  <2>1. ASSUME NEW k \in Key PROVE Marks(table[k]) = {}
    BY <1>1 DEF Marks
  <2> QED
    BY <2>1, FS_EmptySet
<1>8. /\ v \in [Scanner -> Nat] /\ \A c \in Scanner : v[c] = 0
      /\ r \in [Scanner -> Nat] /\ \A c \in Scanner : r[c] = 0
  BY <1>1 DEF Pending, ZeroStats
<1>9. Written = Total(w) /\ Stored = Total(s) /\ TombstonesStored = Total(m)
      /\ PendingVersions = Total(v) /\ PendingKeys = Total(r)
  BY DEF Written, Stored, TombstonesStored, PendingVersions, PendingKeys
<1> HIDE DEF w, s, m, v, r
<1>10. Total(w) = 0 /\ Total(s) = 0 /\ Total(m) = 0 /\ Total(v) = 0 /\ Total(r) = 0
  BY <1>4, <1>5, <1>6, <1>7, <1>8
<1>11. TombstonesWritten \in Nat
  BY <1>2, WrittenType DEF StatsTypeOK
<1>12. cumulative_stats.versions_reclaimed = 0 /\ cumulative_stats.keys_removed = 0
  BY <1>1 DEF ZeroStats
<1>13. Conserved
  BY <1>9, <1>10, <1>11, <1>12 DEF Conserved
<1> QED
  BY <1>2, <1>3, <1>13 DEF StatsInv

\* The invariant says what the property does.
LEMMA StatsInvConserves == StatsInv => StatsConserved
<1> SUFFICES ASSUME StatsInv PROVE StatsConserved
  OBVIOUS
<1>1. StatsTypeOK /\ Conserved
  BY DEF StatsInv
<1>2. TombstonesStored \in Nat /\ PendingKeys \in Nat /\ TombstonesWritten \in Nat
  BY <1>1, StoredType, PendingType, WrittenType DEF StatsTypeOK
<1>3. cumulative_stats.keys_removed \in Nat
  BY <1>1 DEF StatsTypeOK, Stats
<1>4. cumulative_stats.keys_removed + PendingKeys + TombstonesStored <= TombstonesWritten
  BY <1>1 DEF Conserved
<1>5. cumulative_stats.keys_removed + PendingKeys <= TombstonesWritten
  BY <1>2, <1>3, <1>4
<1> QED
  BY <1>1, <1>5 DEF StatsConserved, Conserved, PendingVersions, PendingKeys

\* However passes and writers interleave, the statistics lose and double nothing:
\* every version ever written is stored, or counted, or in the hands of one pass that is
\* about to count it, and no key is counted as removed without a tombstone of its own
\* (gc.cpp:7-19, version_store.cpp:141-189).
THEOREM StatsCorrect == SysSpec => []StatsConserved
<1>1. SysInv /\ StatsInv /\ [SysNext]_vars => StatsInv'
  <2> SUFFICES ASSUME SysInv, StatsInv, [SysNext]_vars PROVE StatsInv'
    OBVIOUS
  <2>1. MgrP!TypeOK /\ next_version \in Nat \ {0}
    BY Typing DEF SysInv, TInv, MgrP!IInv
  <2>2. write_set \in [TxnId -> Buffers]
    BY TInvUpheld DEF SysInv, Upheld, ObjShape
  <2>3. CASE UNCHANGED vars
    BY <2>3, IdleConserves DEF StatsInv, NothingPending, vars, txnVars, storeVars, regVars, gcVars
  <2> QED
    BY <2>1, <2>2, <2>3, TxnStats, PassStats DEF SysNext
<1> QED
  BY <1>1, InitStats, StatsInvConserves, AlwaysSysInv, PTL DEF SysSpec

-------------------------------------------------------------------------------
(* When memory runs out.  A batch may land in part, even with no key at all, *)
(* and a transaction may stay registered, or spend its id, without ever      *)
(* being handed out, so that TInv no longer holds.  The registry's invariant *)
(* does, and keeps every collection below the snapshots in use.              *)

FailTypeOK ==
  /\ next_version \in Nat \ {0}
  /\ table \in [Key -> Seq(Store!VersionedValue)]
  /\ state \in [TxnId -> States]
  /\ write_set \in [TxnId -> Buffers]
  /\ torn \in [TxnId -> SUBSET Nat]

\* Something that t wants to write is newer than its snapshot.
Stuck(t) == \E k \in DOMAIN write_set[t] : Store!LatestVersion(k) > snapshot[t]

\* What landed of t's batch stays in its way.
TornStuck ==
  \A t \in TxnId : torn[t] # {} =>
    /\ state[t] # "none"
    /\ Usable(t) /\ t \notin exposed => Stuck(t)

\* Half of RetryNeverDoubles.
TornUncommitted == \A t \in TxnId \ exposed : torn[t] # {} => state[t] # "kCommitted"

FailSafe == FailTypeOK /\ HandedOut /\ TornStuck /\ TornUncommitted

\* The inductive invariant.
FailInv == MgrP!IInv /\ FailSafe

\* The id whose registration found no room is no different from one that left.
LEMMA SpentId ==
  ASSUME MgrP!IInv, NEW t \in TxnId, PlaceholderThrows(t)
  PROVE  MgrP!IInv'
<1> USE DEF MgrP!IInv
<1>1. /\ stage[t] = "assigned" /\ stage' = [stage EXCEPT ![t] = "gone"]
      /\ UNCHANGED <<next_version, horizon, next_txn_id, shards, snapshot, scan, exposed>>
  BY DEF PlaceholderThrows, storeVars
<1>2. stage \in [MgrP!TxnId -> MgrP!Stages] /\ t \in MgrP!TxnId
  BY DEF MgrP!TypeOK, TxnId, Mgr!TxnId, MgrP!TxnId
<1>3. /\ stage'[t] = "gone"
      /\ \A u \in MgrP!TxnId : u # t => stage'[u] = stage[u]
  BY <1>1, <1>2
<1>4. MgrP!Holding' = MgrP!Holding
  BY <1>1, <1>3 DEF MgrP!Holding
<1>5. \A u \in MgrP!TxnId :
        /\ stage'[u] \in MgrP!Registered <=> stage[u] \in MgrP!Registered
        /\ \A s \in MgrP!Registered : stage'[u] = s <=> stage[u] = s
  BY <1>1, <1>3 DEF MgrP!Registered
<1>6. MgrP!TypeOK'
  BY <1>1, <1>2 DEF MgrP!TypeOK, MgrP!Stages
<1>7. MgrP!RegistryExact'
  <2>1. ASSUME NEW s \in MgrP!Shard
        PROVE  /\ DOMAIN shards'[s] =
                    {u \in MgrP!TxnId : stage'[u] \in MgrP!Registered /\ MgrP!ShardFor(u) = s}
               /\ \A u \in DOMAIN shards'[s] :
                    shards'[s][u] = IF stage'[u] = "live" THEN snapshot'[u] ELSE 0
    <3>1. /\ DOMAIN shards[s] =
               {u \in MgrP!TxnId : stage[u] \in MgrP!Registered /\ MgrP!ShardFor(u) = s}
          /\ \A u \in DOMAIN shards[s] :
               shards[s][u] = IF stage[u] = "live" THEN snapshot[u] ELSE 0
      BY DEF MgrP!RegistryExact
    <3> QED
      BY <1>1, <1>5, <3>1 DEF MgrP!Registered
  <2> QED
    BY <2>1 DEF MgrP!RegistryExact
<1>8. /\ MgrP!SnapshotNotAhead' /\ MgrP!HorizonNotAhead' /\ MgrP!BoundaryNotAhead'
      /\ MgrP!BoundarySafe' /\ MgrP!HorizonSafe'
  BY <1>1, <1>4 DEF MgrP!SnapshotNotAhead, MgrP!HorizonNotAhead, MgrP!BoundaryNotAhead,
     MgrP!BoundarySafe, MgrP!HorizonSafe
<1>9. MgrP!ScanProgress'
  BY <1>1, <1>4, <1>5 DEF MgrP!ScanProgress, MgrP!Covered, MgrP!Registered
<1> QED
  BY <1>6, <1>7, <1>8, <1>9

\* Whatever fails, the registry keeps its invariant.
LEMMA FailKeepsRegistry ==
  ASSUME MgrP!IInv, [FailNext]_failVars
  PROVE  MgrP!IInv'
<1>1. CASE Regular \/ UNCHANGED failVars
  <2>1. [SysNext]_vars
    BY <1>1 DEF Regular, SysNext, TxnNext, failVars
  <2> QED
    BY <2>1, SysUsesRegistry, MgrStep
<1>2. ASSUME NEW t \in TxnId, CommitThrows(t) \/ BeginThrows(t) PROVE MgrP!IInv'
  <2>1. Mgr!Next
    BY <1>2 DEF CommitThrows, BeginThrows, Mgr!Next, Mgr!TxnStep, TxnId
  <2> QED
    BY <2>1, MgrStep
<1>3. ASSUME NEW t \in TxnId, NEW k \in Key, PutThrows(t, k) PROVE MgrP!IInv'
  <2>1. UNCHANGED Mgr!mgrVars
    BY <1>3 DEF PutThrows, storeVars, regVars, Mgr!mgrVars
  <2> QED
    BY <2>1, MgrStep
<1> QED
  BY <1>1, <1>2, <1>3, SpentId DEF FailNext, Failure

\* What the registry says of the snapshots in use.
LEMMA SnapshotBounds ==
  ASSUME MgrP!IInv, FailTypeOK
  PROVE  /\ stage \in [TxnId -> Mgr!Stages] /\ snapshot \in [TxnId -> Nat]
         /\ \A t \in TxnId : Usable(t) => snapshot[t] < next_version
         /\ \A c \in Scanner, t \in TxnId \ exposed :
              scan[c].pc = "done" /\ Usable(t) => scan[c].oldest <= snapshot[t]
         /\ \A c \in Scanner : scan[c].pc = "done" => scan[c].oldest \in Nat
<1>1. MgrP!TypeOK /\ MgrP!SnapshotNotAhead /\ MgrP!BoundarySafe
  BY DEF MgrP!IInv
<1>2. /\ stage \in [TxnId -> Mgr!Stages] /\ snapshot \in [TxnId -> Nat]
      /\ \A c \in Scanner : scan[c].oldest \in Nat
  BY <1>1, BoundsAssumption DEF MgrP!TypeOK, MgrP!TxnId, TxnId, Mgr!TxnId, MgrP!Stages, Mgr!Stages,
     MgrP!Version, MgrP!ScanRecord
<1>3. ASSUME NEW t \in TxnId, Usable(t) PROVE t \in MgrP!Holding
  BY <1>3 DEF MgrP!Holding, MgrP!TxnId, TxnId, Mgr!TxnId, Usable
<1>4. ASSUME NEW t \in TxnId, Usable(t) PROVE snapshot[t] < next_version
  <2>1. snapshot[t] <= next_version - 1
    BY <1>1, <1>3, <1>4 DEF MgrP!SnapshotNotAhead
  <2> QED
    BY <1>2, <2>1 DEF FailTypeOK
<1> QED
  BY <1>1, <1>2, <1>3, <1>4 DEF MgrP!BoundarySafe

\* A batch, complete or not, gives the keys it writes the newest version of all.
LEMMA ApplyLatest ==
  ASSUME FailTypeOK, NEW ops \in Buffers, Store!ApplyBatch(ops)
  PROVE  /\ next_version' \in Nat \ {0} /\ table' \in [Key -> Seq(Store!VersionedValue)]
         /\ \A k \in Key : Store!LatestVersion(k)' =
              IF k \in DOMAIN ops THEN next_version ELSE Store!LatestVersion(k)
<1>1. /\ next_version' = next_version + 1 /\ next_version \in Nat \ {0}
      /\ table' = [k \in Key |->
                     IF k \in DOMAIN ops
                     THEN Append(table[k], [version |-> next_version, value |-> ops[k]])
                     ELSE table[k]]
  BY DEF Store!ApplyBatch, FailTypeOK
<1>2. \A k \in DOMAIN ops : [version |-> next_version, value |-> ops[k]] \in Store!VersionedValue
  BY <1>1 DEF Buffers, Store!VersionedValue
<1>3. ASSUME NEW k \in Key
      PROVE  /\ table'[k] \in Seq(Store!VersionedValue)
             /\ Store!LatestVersion(k)' =
                  IF k \in DOMAIN ops THEN next_version ELSE Store!LatestVersion(k)
  <2>1. table[k] \in Seq(Store!VersionedValue)
    BY DEF FailTypeOK
  <2>2. CASE k \notin DOMAIN ops
    BY <1>1, <2>1, <2>2 DEF Store!LatestVersion
  <2>3. CASE k \in DOMAIN ops
    <3> DEFINE e == [version |-> next_version, value |-> ops[k]]
    <3>1. e \in Store!VersionedValue /\ e.version = next_version /\ table'[k] = Append(table[k], e)
      BY <1>1, <1>2, <2>3
    <3> HIDE DEF e
    <3>2. PICK n \in Nat : n = Len(table[k])
      BY <2>1
    <3>3. /\ table'[k] \in Seq(Store!VersionedValue) /\ table'[k] # <<>>
          /\ Len(table'[k]) = n + 1 /\ table'[k][n + 1] = e
      BY <2>1, <3>1, <3>2
    <3>4. Store!LatestVersion(k)' = next_version
      BY <3>1, <3>3 DEF Store!LatestVersion, Store!LatestOf
    <3> QED
      BY <2>3, <3>3, <3>4
  <2> QED
    BY <2>2, <2>3
<1>4. table' \in [Key -> Seq(Store!VersionedValue)]
  BY <1>1, <1>3
<1>5. next_version' \in Nat \ {0}
  BY <1>1
<1> QED
  BY <1>3, <1>4, <1>5 DEF Store!LatestVersion

\* A collection keeps every version above its boundary.
LEMMA CollectLatest ==
  ASSUME FailTypeOK, NEW b \in Nat, Store!CollectGarbage(b)
  PROVE  /\ next_version' = next_version /\ table' \in [Key -> Seq(Store!VersionedValue)]
         /\ \A k \in Key : Store!LatestVersion(k) > b =>
              Store!LatestVersion(k)' = Store!LatestVersion(k)
<1>1. next_version' = next_version /\ table' = [k \in Key |-> Store!Collected(table[k], b)]
  BY DEF Store!CollectGarbage
<1>2. ASSUME NEW k \in Key
      PROVE  /\ Store!Collected(table[k], b) \in Seq(Store!VersionedValue)
             /\ Store!LatestOf(table[k]) > b =>
                  Store!LatestOf(Store!Collected(table[k], b)) = Store!LatestOf(table[k])
  <2>1. table[k] \in Seq(StoreP!VersionedValue)
    BY DEF FailTypeOK, Store!VersionedValue, StoreP!VersionedValue, Store!Cell, StoreP!Cell
  <2>2. /\ StoreP!Collected(table[k], b) \in Seq(StoreP!VersionedValue)
        /\ StoreP!LatestOf(table[k]) > b =>
             StoreP!LatestOf(StoreP!Collected(table[k], b)) = StoreP!LatestOf(table[k])
    BY <2>1, StoreP!CollectedLatest, TombstoneAssumption, BoundsAssumption
  <2>3. StoreP!Collected(table[k], b) = Store!Collected(table[k], b)
    BY DEF Store!Collected, StoreP!Collected, Store!PartitionPoint, StoreP!PartitionPoint
  <2> QED
    BY <2>2, <2>3 DEF Store!LatestOf, StoreP!LatestOf, Store!VersionedValue, StoreP!VersionedValue,
       Store!Cell, StoreP!Cell
<1> QED
  BY <1>1, <1>2 DEF Store!LatestVersion

\* Buffers are what buffered calls and interrupted batches make of them.
LEMMA BufferTypes ==
  /\ Empty \in Buffers
  /\ \A b \in Buffers : DOMAIN b \subseteq Key
  /\ \A b \in Buffers, k \in Key, x \in Store!Cell :
       Mgr!MapPut(b, k, x) \in Buffers /\ DOMAIN Mgr!MapPut(b, k, x) = DOMAIN b \cup {k}
  /\ \A b \in Buffers : \A D \in SUBSET DOMAIN b : [k \in D |-> b[k]] \in Buffers
<1>1. Empty \in Buffers
  <2>1. Empty \in [{} -> Store!Cell]
    BY DEF Empty
  <2> QED
    BY <2>1 DEF Buffers
<1>2. \A b \in Buffers : DOMAIN b \subseteq Key
  BY DEF Buffers
<1>3. ASSUME NEW b \in Buffers, NEW k \in Key, NEW x \in Store!Cell
      PROVE  Mgr!MapPut(b, k, x) \in Buffers /\ DOMAIN Mgr!MapPut(b, k, x) = DOMAIN b \cup {k}
  <2>1. PICK D \in SUBSET Key : b \in [D -> Store!Cell]
    BY DEF Buffers
  <2>2. D \cup {k} \in SUBSET Key /\ Mgr!MapPut(b, k, x) \in [D \cup {k} -> Store!Cell]
    BY <2>1 DEF Mgr!MapPut
  <2> QED
    BY <2>1, <2>2 DEF Buffers
<1>4. ASSUME NEW b \in Buffers, NEW D \in SUBSET DOMAIN b PROVE [k \in D |-> b[k]] \in Buffers
  <2>1. PICK C \in SUBSET Key : b \in [C -> Store!Cell]
    BY DEF Buffers
  <2>2. D \in SUBSET Key /\ [k \in D |-> b[k]] \in [D -> Store!Cell]
    BY <2>1
  <2> QED
    BY <2>2 DEF Buffers
<1> QED
  BY <1>1, <1>2, <1>3, <1>4

\* A transaction that keeps its snapshot and its keys stays stuck as long as newer
\* versions of its keys do.
LEMMA StillStuck ==
  ASSUME FailInv, NEW u \in TxnId, Stuck(u),
         DOMAIN write_set[u] \subseteq DOMAIN write_set'[u], snapshot'[u] = snapshot[u],
         \A k \in Key : Store!LatestVersion(k) > snapshot[u] =>
           Store!LatestVersion(k)' > snapshot[u]
  PROVE  Stuck(u)'
<1>1. PICK k \in DOMAIN write_set[u] : Store!LatestVersion(k) > snapshot[u]
  BY DEF Stuck
<1>2. k \in Key
  BY BufferTypes DEF FailInv, FailSafe, FailTypeOK
<1> QED
  BY <1>1, <1>2 DEF Stuck, Store!LatestVersion

\* A step that writes nothing to the store.
LEMMA LocalKeeps ==
  ASSUME FailInv, NEW t \in TxnId,
         UNCHANGED <<table, next_version, torn>>, exposed \subseteq exposed',
         state' \in [TxnId -> States], write_set' \in [TxnId -> Buffers],
         \A u \in TxnId \ {t} : UNCHANGED <<stage[u], state[u], snapshot[u], write_set[u]>>,
         state'[t] = "none" => state[t] = "none",
         state'[t] # "none" => stage'[t] \in {"live", "gone"},
         state'[t] = "kCommitted" => state[t] = "kCommitted" \/ (Usable(t) /\ write_set[t] = Empty),
         Usable(t)' /\ state[t] # "none" => /\ Usable(t) /\ snapshot'[t] = snapshot[t]
                                            /\ DOMAIN write_set[t] \subseteq DOMAIN write_set'[t]
  PROVE  FailSafe'
<1>1. FailTypeOK'
  BY DEF FailInv, FailSafe, FailTypeOK
<1>2. \A k \in Key : Store!LatestVersion(k)' = Store!LatestVersion(k)
  BY DEF Store!LatestVersion
<1>3. ASSUME NEW u \in TxnId, torn[u] # {}
      PROVE  /\ state'[u] # "none"
             /\ Usable(u)' /\ u \notin exposed' => Stuck(u)'
             /\ u \notin exposed' => state'[u] # "kCommitted"
  <2>1. /\ state[u] # "none"
        /\ Usable(u) /\ u \notin exposed => Stuck(u)
        /\ u \notin exposed => state[u] # "kCommitted"
    BY <1>3 DEF FailInv, FailSafe, TornStuck, TornUncommitted
  <2>2. state'[u] # "none"
    BY <2>1
  <2>3. Usable(u)' => /\ Usable(u) /\ snapshot'[u] = snapshot[u]
                      /\ DOMAIN write_set[u] \subseteq DOMAIN write_set'[u]
    BY <2>1 DEF Usable
  <2>4. ASSUME u \notin exposed', state'[u] = "kCommitted" PROVE FALSE
    <3>1. u = t /\ Usable(t) /\ write_set[t] = Empty
      BY <2>1, <2>4
    <3>2. ~Stuck(u)
      BY <3>1 DEF Stuck, Empty
    <3> QED
      BY <2>1, <2>4, <3>1, <3>2
  <2>5. ASSUME Usable(u)', u \notin exposed' PROVE Stuck(u)'
    BY <1>2, <2>1, <2>3, <2>5, StillStuck
  <2> QED
    BY <2>2, <2>4, <2>5
<1>4. HandedOut'
  BY DEF FailInv, FailSafe, HandedOut
<1> QED
  BY <1>1, <1>3, <1>4 DEF FailSafe, TornStuck, TornUncommitted

\* A call that buffers a write, one that throws on the way included.
LEMMA BufferKeeps ==
  ASSUME FailInv, NEW t \in TxnId, NEW k \in Key, NEW x \in Store!Cell, Usable(t),
         write_set' = [write_set EXCEPT ![t] = Mgr!MapPut(@, k, x)],
         UNCHANGED <<table, next_version, torn, exposed, stage, state, snapshot>>
  PROVE  FailSafe'
<1>0. state \in [TxnId -> States] /\ write_set \in [TxnId -> Buffers]
  BY DEF FailInv, FailSafe, FailTypeOK
<1>1. /\ Mgr!MapPut(write_set[t], k, x) \in Buffers
      /\ DOMAIN write_set[t] \subseteq DOMAIN Mgr!MapPut(write_set[t], k, x)
  <2>1. write_set[t] \in Buffers
    BY <1>0
  <2>2. /\ Mgr!MapPut(write_set[t], k, x) \in Buffers
        /\ DOMAIN Mgr!MapPut(write_set[t], k, x) = DOMAIN write_set[t] \cup {k}
    BY <2>1, BufferTypes, Zenon
  <2> QED
    BY <2>2
<1>2. /\ write_set' \in [TxnId -> Buffers] /\ DOMAIN write_set[t] \subseteq DOMAIN write_set'[t]
      /\ \A u \in TxnId \ {t} : write_set'[u] = write_set[u]
  BY <1>0, <1>1
<1>3. stage[t] \in {"live", "gone"}
  BY DEF Usable
<1> QED
  BY <1>0, <1>2, <1>3, LocalKeeps DEF Usable

\* The transactions' own steps.
LEMMA FailTxn ==
  ASSUME FailInv, NEW t \in TxnId, TxnStep(t), ~CommitApply(t), torn' = torn
  PROVE  FailSafe'
<1>0. /\ stage \in [TxnId -> Mgr!Stages] /\ snapshot \in [TxnId -> Nat]
      /\ state \in [TxnId -> States] /\ write_set \in [TxnId -> Buffers]
  BY SnapshotBounds DEF FailInv, FailSafe, FailTypeOK
<1>1. CASE BeginStep(t)
  <2>1. /\ UNCHANGED <<table, next_version, exposed, state, write_set>>
        /\ \A u \in TxnId \ {t} : UNCHANGED <<stage[u], snapshot[u]>>
        /\ stage[t] \notin {"live", "gone"} /\ stage'[t] # "live"
    BY <1>0, <1>1 DEF BeginStep, storeVars, objVars, Mgr!AssignId, Mgr!RegisterPlaceholder,
       Mgr!ReadSnapshot
  <2>2. state[t] = "none"
    BY <2>1 DEF FailInv, FailSafe, HandedOut
  <2>3. ~Usable(t)'
    BY <2>1 DEF Usable
  <2> QED
    BY <1>0, <2>1, <2>2, <2>3, LocalKeeps
<1>2. CASE BeginReturn(t)
  <2>1. /\ UNCHANGED <<table, next_version, exposed, write_set, snapshot>>
        /\ state' = [state EXCEPT ![t] = "kActive"]
        /\ stage[t] = "read" /\ stage' = [stage EXCEPT ![t] = "live"]
    BY <1>2 DEF BeginReturn, storeVars, Mgr!RefineSnapshot
  <2>2. state[t] = "none"
    BY <1>0, <2>1 DEF FailInv, FailSafe, HandedOut
  <2>3. /\ state' \in [TxnId -> States] /\ state'[t] = "kActive"
        /\ \A u \in TxnId \ {t} : UNCHANGED <<stage[u], state[u]>>
    BY <1>0, <2>1 DEF States
  <2> QED
    BY <1>0, <2>1, <2>2, <2>3, LocalKeeps
<1>4. ASSUME NEW k \in Key, Delete(t, k) PROVE FailSafe'
  BY <1>4, BufferKeeps DEF Delete, storeVars, regVars, Store!Cell
<1>5. ASSUME NEW k \in Key, NEW v \in Value, Put(t, k, v)
      PROVE  FailSafe'
  BY <1>5, BufferKeeps DEF Put, storeVars, regVars, Store!Cell
<1>6. CASE CommitReadOnly(t) \/ CommitConflict(t) \/ Abort(t) \/ Destroy(t)
  <2>1. /\ Usable(t) /\ UNCHANGED <<table, next_version, exposed, snapshot>>
        /\ stage' \in {stage, [stage EXCEPT ![t] = "gone"]}
        /\ write_set' \in {write_set, [write_set EXCEPT ![t] = Empty]}
        /\ \/ state' = [state EXCEPT ![t] = "kCommitted"] /\ write_set[t] = Empty
           \/ \E s \in {"kAborted", "dropped"} : state' = [state EXCEPT ![t] = s]
    BY <1>6 DEF CommitReadOnly, CommitConflict, Abort, Destroy, storeVars, regVars, Mgr!Unregister
  <2>2. /\ state' \in [TxnId -> States] /\ write_set' \in [TxnId -> Buffers]
        /\ state'[t] \in {"kCommitted", "kAborted", "dropped"}
        /\ state'[t] = "kCommitted" => write_set[t] = Empty
        /\ \A u \in TxnId \ {t} : UNCHANGED <<stage[u], state[u], write_set[u]>>
    BY <1>0, <2>1, BufferTypes DEF States
  <2> QED
    BY <1>0, <2>1, <2>2, LocalKeeps DEF Usable
<1>7. CASE EndUnregister(t)
  <2>1. /\ UNCHANGED <<table, next_version, exposed, snapshot, state, write_set>>
        /\ stage' = [stage EXCEPT ![t] = "gone"]
    BY <1>7 DEF EndUnregister, storeVars, objVars, Mgr!Unregister
  <2>2. stage'[t] = "gone" /\ \A u \in TxnId \ {t} : stage'[u] = stage[u]
    BY <1>0, <2>1
  <2> QED
    BY <1>0, <2>1, <2>2, LocalKeeps DEF Usable
<1> QED
  BY <1>1, <1>2, <1>4, <1>5, <1>6, <1>7 DEF TxnStep

\* A write of the store, complete or not, frees nobody, and stands in the way of
\* every transaction in use that means to write one of its keys.
LEMMA WriteKeeps ==
  ASSUME FailInv, NEW ops \in Buffers, Store!ApplyBatch(ops), UNCHANGED <<snapshot, write_set>>
  PROVE  /\ next_version' \in Nat \ {0} /\ table' \in [Key -> Seq(Store!VersionedValue)]
         /\ \A u \in TxnId : Usable(u) /\ Stuck(u) => Stuck(u)'
         /\ \A u \in TxnId : Usable(u) /\ DOMAIN ops \cap DOMAIN write_set[u] # {} => Stuck(u)'
<1>1. /\ next_version' \in Nat \ {0} /\ table' \in [Key -> Seq(Store!VersionedValue)]
      /\ \A k \in Key : Store!LatestVersion(k)' =
           IF k \in DOMAIN ops THEN next_version ELSE Store!LatestVersion(k)
  BY ApplyLatest DEF FailInv, FailSafe
<1>2. ASSUME NEW u \in TxnId, Usable(u) PROVE next_version > snapshot[u] /\ snapshot[u] \in Nat
  BY <1>2, SnapshotBounds DEF FailInv, FailSafe, FailTypeOK
<1>3. ASSUME NEW u \in TxnId, Usable(u), Stuck(u) PROVE Stuck(u)'
  <2>1. \A k \in Key : Store!LatestVersion(k) > snapshot[u] => Store!LatestVersion(k)' > snapshot[u]
    BY <1>1, <1>2, <1>3 DEF Store!LatestVersion
  <2> QED
    BY <1>3, <2>1, StillStuck
<1>4. ASSUME NEW u \in TxnId, Usable(u), NEW k \in DOMAIN ops \cap DOMAIN write_set[u]
      PROVE  Stuck(u)'
  <2>1. k \in Key
    BY BufferTypes
  <2>2. Store!LatestVersion(k)' > snapshot'[u]
    BY <1>1, <1>2, <1>4, <2>1 DEF Store!LatestVersion
  <2> QED
    BY <1>4, <2>2 DEF Stuck, Store!LatestVersion
<1> QED
  BY <1>1, <1>3, <1>4

\* A commit goes through only if nothing of an earlier attempt is in its way.
LEMMA FailCommit ==
  ASSUME FailInv, NEW t \in TxnId, CommitApply(t), torn' = torn
  PROVE  FailSafe'
<1>0. FailTypeOK /\ HandedOut /\ TornStuck /\ TornUncommitted /\ write_set[t] \in Buffers
  BY DEF FailInv, FailSafe, FailTypeOK
<1>1. /\ Usable(t) /\ ~Stuck(t) /\ Store!ApplyBatch(write_set[t])
      /\ state' = [state EXCEPT ![t] = "kCommitted"]
      /\ UNCHANGED <<stage, snapshot, exposed, write_set>>
  BY DEF CommitApply, Store!ApplyBatchIfNoConflict, Store!Conflicts, Mgr!StoreWrite, Stuck
<1>2. /\ next_version' \in Nat \ {0} /\ table' \in [Key -> Seq(Store!VersionedValue)]
      /\ \A u \in TxnId : Usable(u) /\ Stuck(u) => Stuck(u)'
  BY <1>0, <1>1, WriteKeeps
<1>3. /\ state' \in [TxnId -> States] /\ state'[t] = "kCommitted"
      /\ \A u \in TxnId \ {t} : state'[u] = state[u]
  BY <1>0, <1>1 DEF FailTypeOK, States
<1>4. FailTypeOK'
  BY <1>0, <1>1, <1>2, <1>3 DEF FailTypeOK
<1>5. HandedOut'
  BY <1>0, <1>1, <1>3 DEF HandedOut, Usable
<1>6. ASSUME NEW u \in TxnId, torn[u] # {}
      PROVE  /\ state'[u] # "none"
             /\ Usable(u)' /\ u \notin exposed' => Stuck(u)'
             /\ u \notin exposed' => state'[u] # "kCommitted"
  <2>1. /\ state[u] # "none"
        /\ Usable(u) /\ u \notin exposed => Stuck(u)
        /\ u \notin exposed => state[u] # "kCommitted"
    BY <1>0, <1>6 DEF TornStuck, TornUncommitted
  <2>2. CASE u = t
    BY <1>1, <1>3, <2>1, <2>2 DEF Usable
  <2>3. CASE u # t
    BY <1>1, <1>2, <1>3, <2>1, <2>3 DEF Usable
  <2> QED
    BY <2>2, <2>3
<1> QED
  BY <1>4, <1>5, <1>6 DEF FailSafe, TornStuck, TornUncommitted

\* A commit that throws leaves its transaction stuck as soon as something landed.
LEMMA FailThrow ==
  ASSUME FailInv, NEW t \in TxnId, CommitThrows(t)
  PROVE  FailSafe'
<1>0. FailTypeOK /\ HandedOut /\ TornStuck /\ TornUncommitted /\ write_set[t] \in Buffers
  BY DEF FailInv, FailSafe, FailTypeOK
<1>1. PICK landed \in SUBSET DOMAIN write_set[t] :
        /\ Store!ApplyBatch([k \in landed |-> write_set[t][k]])
        /\ torn' = IF landed = {} THEN torn ELSE [torn EXCEPT ![t] = @ \cup {next_version}]
  BY DEF CommitThrows
<1>2. Usable(t) /\ UNCHANGED <<stage, snapshot, exposed, state, write_set>>
  BY DEF CommitThrows, Mgr!StoreWrite, objVars
<1> DEFINE ops == [k \in landed |-> write_set[t][k]]
<1>3. ops \in Buffers /\ DOMAIN ops = landed
  BY <1>0, BufferTypes
<1>4. Store!ApplyBatch(ops)
  BY <1>1
<1> HIDE DEF ops
<1>5. /\ next_version' \in Nat \ {0} /\ table' \in [Key -> Seq(Store!VersionedValue)]
      /\ \A u \in TxnId : Usable(u) /\ Stuck(u) => Stuck(u)'
      /\ landed # {} => Stuck(t)'
  <2>1. landed # {} => DOMAIN ops \cap DOMAIN write_set[t] # {}
    BY <1>3
  <2> QED
    BY <1>2, <1>3, <1>4, <2>1, WriteKeeps
<1>6. /\ torn' \in [TxnId -> SUBSET Nat]
      /\ \A u \in TxnId : torn'[u] # {} => torn[u] # {} \/ (u = t /\ landed # {})
  BY <1>0, <1>1 DEF FailTypeOK
<1>7. FailTypeOK' /\ HandedOut'
  BY <1>0, <1>2, <1>5, <1>6 DEF FailTypeOK, HandedOut
<1>8. ASSUME NEW u \in TxnId, torn'[u] # {}
      PROVE  /\ state'[u] # "none"
             /\ Usable(u)' /\ u \notin exposed' => Stuck(u)'
             /\ u \notin exposed' => state'[u] # "kCommitted"
  <2>1. CASE torn[u] # {}
    BY <1>0, <1>2, <1>5, <2>1 DEF TornStuck, TornUncommitted, Usable
  <2>2. CASE u = t /\ landed # {}
    BY <1>2, <1>5, <2>2 DEF Usable
  <2> QED
    BY <1>6, <1>8, <2>1, <2>2
<1> QED
  BY <1>7, <1>8 DEF FailSafe, TornStuck, TornUncommitted

\* Begin's two failures change the registry only.
LEMMA FailBegin ==
  ASSUME FailInv, NEW t \in TxnId, BeginThrows(t) \/ PlaceholderThrows(t)
  PROVE  FailSafe'
<1>0. /\ stage \in [TxnId -> Mgr!Stages] /\ state \in [TxnId -> States]
      /\ write_set \in [TxnId -> Buffers]
  BY SnapshotBounds DEF FailInv, FailSafe, FailTypeOK
<1>1. /\ UNCHANGED <<table, next_version, torn, exposed, state, write_set, snapshot>>
      /\ stage[t] \notin {"live", "gone"}
      /\ stage' \in {[stage EXCEPT ![t] = "live"], [stage EXCEPT ![t] = "gone"]}
  BY DEF BeginThrows, PlaceholderThrows, storeVars, objVars, Mgr!RefineSnapshot
<1>2. state[t] = "none"
  BY <1>1 DEF FailInv, FailSafe, HandedOut
<1>3. ~Usable(t)' /\ \A u \in TxnId \ {t} : stage'[u] = stage[u]
  BY <1>0, <1>1, <1>2 DEF Usable
<1> QED
  BY <1>0, <1>1, <1>2, <1>3, LocalKeeps

\* A pass trims below the snapshots in use, so that it unblocks nobody.
LEMMA FailPass ==
  ASSUME FailInv, NEW c \in Scanner, RunOnceStep(c), torn' = torn
  PROVE  FailSafe'
<1>0. FailTypeOK /\ HandedOut /\ TornStuck /\ TornUncommitted
  BY DEF FailInv, FailSafe
<1>1. UNCHANGED <<state, write_set, stage, snapshot>> /\ exposed \subseteq exposed'
  BY PassLeaves DEF objVars
<1>2. /\ next_version' = next_version /\ table' \in [Key -> Seq(Store!VersionedValue)]
      /\ \A u \in TxnId \ exposed : Usable(u) =>
           \A k \in Key : Store!LatestVersion(k) > snapshot[u] =>
             Store!LatestVersion(k)' > snapshot[u]
  <2>1. CASE ComputeBoundary(c) \/ Accumulate(c)
    <3>1. UNCHANGED <<table, next_version>>
      BY <2>1 DEF ComputeBoundary, Accumulate, txnVars, storeVars
    <3> QED
      BY <1>0, <3>1 DEF FailTypeOK, Store!LatestVersion
  <2>2. CASE Collect(c)
    <3> DEFINE b == scan[c].oldest
    <3>1. scan[c].pc = "done" /\ Store!CollectGarbage(b)
      BY <2>2 DEF Collect, Mgr!UseBoundary
    <3>2. /\ b \in Nat
          /\ \A u \in TxnId \ exposed : Usable(u) => b <= snapshot[u] /\ snapshot[u] \in Nat
      BY <1>0, <3>1, SnapshotBounds DEF FailInv
    <3> HIDE DEF b
    <3>3. /\ next_version' = next_version /\ table' \in [Key -> Seq(Store!VersionedValue)]
          /\ \A k \in Key : Store!LatestVersion(k) > b =>
               Store!LatestVersion(k)' = Store!LatestVersion(k)
      BY <1>0, <3>1, <3>2, CollectLatest
    <3>4. ASSUME NEW k \in Key PROVE Store!LatestVersion(k) \in Nat
      <4>1. table[k] \in Seq(Store!VersionedValue)
        BY <1>0 DEF FailTypeOK
      <4>2. table[k] # <<>> => table[k][Len(table[k])] \in Store!VersionedValue
        BY <4>1
      <4> QED
        BY <4>2 DEF Store!LatestVersion, Store!LatestOf, Store!VersionedValue
    <3>5. ASSUME NEW u \in TxnId \ exposed, Usable(u), NEW k \in Key,
                 Store!LatestVersion(k) > snapshot[u]
          PROVE  Store!LatestVersion(k)' > snapshot[u]
      <4>1. Store!LatestVersion(k) > b
        BY <3>2, <3>4, <3>5
      <4>2. Store!LatestVersion(k)' = Store!LatestVersion(k)
        BY <3>3, <4>1
      <4> QED
        BY <3>5, <4>2
    <3> QED
      BY <3>3, <3>5
  <2> QED
    BY <2>1, <2>2 DEF RunOnceStep
<1>3. FailTypeOK' /\ HandedOut'
  BY <1>0, <1>1, <1>2 DEF FailTypeOK, HandedOut
<1>4. ASSUME NEW u \in TxnId \ exposed, Usable(u), Stuck(u) PROVE Stuck(u)'
  BY <1>1, <1>2, <1>4, StillStuck
<1>5. TornStuck' /\ TornUncommitted'
  BY <1>0, <1>1, <1>4 DEF TornStuck, TornUncommitted, Usable
<1> QED
  BY <1>3, <1>5 DEF FailSafe

\* Every step keeps the invariant.
LEMMA FailStep ==
  ASSUME FailInv, [FailNext]_failVars
  PROVE  FailInv'
<1>1. MgrP!IInv'
  BY FailKeepsRegistry DEF FailInv
<1>2. ASSUME Regular PROVE FailSafe'
  <2>1. ASSUME NEW t \in TxnId, TxnStep(t), torn' = torn PROVE FailSafe'
    BY <2>1, FailTxn, FailCommit
  <2> QED
    BY <1>2, <2>1, FailPass DEF Regular
<1>3. ASSUME NEW t \in TxnId, Failure(t) PROVE FailSafe'
  <2>1. ASSUME NEW k \in Key, PutThrows(t, k) PROVE FailSafe'
    BY <2>1, BufferKeeps DEF PutThrows, storeVars, regVars, Store!Cell
  <2> QED
    BY <1>3, <2>1, FailThrow, FailBegin DEF Failure
<1>4. ASSUME UNCHANGED failVars PROVE FailSafe'
  BY <1>4 DEF FailInv, FailSafe, FailTypeOK, HandedOut, TornStuck, TornUncommitted, Usable, Stuck,
     Store!LatestVersion, failVars, vars, txnVars, storeVars, regVars, objVars
<1> QED
  BY <1>1, <1>2, <1>3, <1>4 DEF FailNext, FailInv

\* The initial states.
LEMMA FailStart == FailInit => FailInv
<1> SUFFICES ASSUME FailInit PROVE FailInv
  OBVIOUS
<1>1. MgrP!IInv
  BY MgrInit DEF FailInit, SysInit, Init
<1>2. Init /\ torn = [t \in TxnId |-> {}]
  BY DEF FailInit, SysInit
<1>3. FailTypeOK
  BY <1>2, BufferTypes DEF Init, Store!Init, FailTypeOK, States
<1>4. HandedOut /\ TornStuck /\ TornUncommitted
  BY <1>2 DEF Init, HandedOut, TornStuck, TornUncommitted
<1> QED
  BY <1>1, <1>3, <1>4 DEF FailInv, FailSafe

\* What throws half-way is accounted for as well.
LEMMA FailStats ==
  ASSUME FailInv, StatsInv, [FailNext]_failVars
  PROVE  StatsInv'
<1>0. /\ MgrP!TypeOK /\ next_version \in Nat \ {0} /\ write_set \in [TxnId -> Buffers]
      /\ StatsTypeOK /\ Conserved /\ NothingPending
  BY DEF FailInv, MgrP!IInv, FailSafe, FailTypeOK, StatsInv
<1>1. CASE Regular
  <2>1. ASSUME NEW t \in TxnId, TxnStep(t), UNCHANGED gcVars PROVE StatsInv'
    <3>1. TxnNext
      BY <2>1 DEF TxnNext
    <3> QED
      BY <1>0, <2>1, <3>1, TxnStats
  <2> QED
    BY <1>0, <1>1, <2>1, PassStats DEF Regular
<1>2. ASSUME NEW t \in TxnId, CommitThrows(t) PROVE StatsInv'
  <2>1. PICK landed \in SUBSET DOMAIN write_set[t] :
          Store!ApplyBatch([k \in landed |-> write_set[t][k]])
    BY <1>2 DEF CommitThrows
  <2>2. [k \in landed |-> write_set[t][k]] \in Buffers
    BY <1>0, BufferTypes
  <2>3. UNCHANGED <<scan, gcVars>>
    BY <1>2 DEF CommitThrows, Mgr!StoreWrite
  <2>4. StatsTypeOK' /\ Conserved'
    BY <1>0, <2>1, <2>2, <2>3, ApplyConserves
  <2> QED
    BY <1>0, <2>3, <2>4 DEF StatsInv, NothingPending, gcVars
<1>3. ASSUME NEW t \in TxnId, BeginThrows(t) \/ PlaceholderThrows(t) PROVE StatsInv'
  <2>1. UNCHANGED <<table, log, gcVars>>
    BY <1>3 DEF BeginThrows, PlaceholderThrows, storeVars
  <2>2. \A c \in Scanner : scan'[c].pc = scan[c].pc
    BY <1>0, <1>3, ScansStay DEF BeginThrows, PlaceholderThrows, Mgr!TxnStep
  <2>3. StatsTypeOK' /\ Conserved'
    BY <1>0, <2>1, IdleConserves
  <2> QED
    BY <1>0, <2>1, <2>2, <2>3 DEF StatsInv, NothingPending, gcVars
<1>4. CASE UNCHANGED failVars
  BY <1>0, <1>4, IdleConserves
  DEF StatsInv, NothingPending, failVars, vars, txnVars, storeVars, regVars, gcVars
<1>5. ASSUME NEW t \in TxnId, NEW k \in Key, PutThrows(t, k) PROVE StatsInv'
  BY <1>0, <1>5, IdleConserves
  DEF PutThrows, StatsInv, NothingPending, storeVars, regVars, gcVars
<1> QED
  BY <1>1, <1>2, <1>3, <1>4, <1>5 DEF FailNext, Failure

\* A batch that landed in part, a registration nobody owns and a spent id leave the
\* books balanced: what landed is stored until some pass counts it, once
\* (version_store.cpp:141-189, 221-233; gc.cpp:7-19).
THEOREM StatsUnderFailure == FailSpec => []StatsConserved
<1>1. FailInit => StatsInv
  BY InitStats DEF FailInit
<1> QED
  BY <1>1, FailStart, FailStep, FailStats, StatsInvConserves, PTL DEF FailSpec

-------------------------------------------------------------------------------
(* What transactions were promised holds when memory runs out, too: the part *)
(* of their invariant that does not need whole batches, Upheld, is kept by   *)
(* every step, and so is what follows from it.                               *)

\* Nothing that leaves the store alone endangers it.
LEMMA StoreIdle ==
  ASSUME StoreP!Sound, UNCHANGED storeVars
  PROVE  StoreP!Sound'
BY DEF storeVars, StoreP!Sound, StoreP!Shape, StoreP!CurrentVersion, StoreP!Linked,
   StoreP!EntriesLogged, StoreP!RecentKept, StoreP!LastKept, StoreP!LastWrite, StoreP!HasEntry,
   StoreP!Written

\* A batch, complete or not, is added to the log, and the store stays sound.
LEMMA FailApply ==
  ASSUME Upheld, NEW ops \in Buffers, Store!ApplyBatch(ops)
  PROVE  StoreP!Sound' /\ Grows
<1>1. StoreP!Sound'
  BY StoreLands, SameBuffers DEF Upheld
<1>2. \E x : log' = Append(log, x)
  BY DEF Store!ApplyBatch
<1> QED
  BY <1>1, <1>2, Grown

\* So does every step.
LEMMA FailStore ==
  ASSUME Upheld, [FailNext]_failVars
  PROVE  StoreP!Sound' /\ Grows
<1>0. StoreP!Sound /\ write_set \in [TxnId -> Buffers]
  BY DEF Upheld, ObjShape
<1>1. ASSUME UNCHANGED storeVars PROVE StoreP!Sound' /\ Grows
  <2>1. StoreP!Sound'
    BY <1>0, <1>1, StoreIdle
  <2> QED
    BY <1>1, <2>1, Grown DEF storeVars
<1>2. ASSUME NEW t \in TxnId, CommitApply(t) PROVE StoreP!Sound' /\ Grows
  BY <1>0, <1>2, FailApply DEF CommitApply, Store!ApplyBatchIfNoConflict
<1>3. ASSUME NEW t \in TxnId, TxnStep(t), ~CommitApply(t) PROVE UNCHANGED storeVars
  BY <1>3 DEF TxnStep, BeginStep, BeginReturn, Put, Delete, CommitReadOnly, CommitConflict,
              Abort, EndUnregister, Destroy
<1>4. ASSUME NEW c \in Scanner, Collect(c) PROVE StoreP!Sound' /\ Grows
  <2>1. scan[c].oldest \in 0 .. next_version - 1
    BY <1>4, BoundaryReached DEF Collect
  <2>2. StoreP!Sound'
    BY <1>0, <1>4, <2>1, StoreCollects DEF Collect
  <2>3. log' = log
    BY <1>4 DEF Collect, Store!CollectGarbage
  <2> QED
    BY <2>2, <2>3, Grown
<1>5. ASSUME NEW c \in Scanner, ComputeBoundary(c) \/ Accumulate(c) PROVE UNCHANGED storeVars
  BY <1>5 DEF ComputeBoundary, Accumulate, txnVars
<1>6. ASSUME NEW t \in TxnId, CommitThrows(t) PROVE StoreP!Sound' /\ Grows
  <2>1. PICK landed \in SUBSET DOMAIN write_set[t] :
          Store!ApplyBatch([k \in landed |-> write_set[t][k]])
    BY <1>6 DEF CommitThrows
  <2>2. [k \in landed |-> write_set[t][k]] \in Buffers
    BY <1>0, BufferTypes
  <2> QED
    BY <2>1, <2>2, FailApply
<1>7. ASSUME NEW t \in TxnId,
             BeginThrows(t) \/ PlaceholderThrows(t) \/ \E k \in Key : PutThrows(t, k)
      PROVE  UNCHANGED storeVars
  BY <1>7 DEF BeginThrows, PlaceholderThrows, PutThrows
<1>8. CASE UNCHANGED failVars
  BY <1>1, <1>8 DEF failVars, vars, txnVars
<1> QED
  BY <1>1, <1>2, <1>3, <1>4, <1>5, <1>6, <1>7, <1>8
  DEF FailNext, Regular, RunOnceStep, Failure

\* Commits are final, failures or not.
LEMMA FailFinal ==
  ASSUME Upheld, [FailNext]_failVars
  PROVE  exposed \subseteq exposed' /\ \A u \in TxnId : CommitApply(u) \/ Settles(u)
<1>1. ASSUME UNCHANGED <<objVars, snapshot>> PROVE \A u \in TxnId : Settles(u)
  BY <1>1 DEF Settles, objVars
<1>2. ASSUME NEW t \in TxnId, TxnStep(t)
      PROVE  exposed \subseteq exposed' /\ \A u \in TxnId : CommitApply(u) \/ Settles(u)
  <2>1. [TxnNext]_txnVars
    BY <1>2 DEF TxnNext
  <2> QED
    BY <2>1, ExposedKept, CommitFinal
<1>3. ASSUME NEW c \in Scanner, RunOnceStep(c)
      PROVE  exposed \subseteq exposed' /\ UNCHANGED <<objVars, snapshot>>
  BY <1>3, PassLeaves
<1>4. ASSUME NEW t \in TxnId, CommitThrows(t) \/ BeginThrows(t) \/ PlaceholderThrows(t)
      PROVE  UNCHANGED <<objVars, snapshot, exposed>>
  BY <1>4 DEF CommitThrows, BeginThrows, PlaceholderThrows, Mgr!StoreWrite, Mgr!RefineSnapshot
<1>5. ASSUME NEW t \in TxnId, NEW k \in Key, PutThrows(t, k), NEW u \in TxnId
      PROVE  exposed' = exposed /\ Settles(u)
  <2>1. /\ state[t] = "kActive" /\ UNCHANGED <<state, commit_version, snapshot, exposed>>
        /\ u # t => write_set'[u] = write_set[u]
    BY <1>5 DEF PutThrows, Usable, regVars, Upheld, ObjShape
  <2> QED
    BY <2>1 DEF Settles
<1>6. CASE UNCHANGED failVars
  BY <1>1, <1>6 DEF failVars, vars, txnVars, regVars
<1>7. ASSUME NEW t \in TxnId, NEW k \in Key, PutThrows(t, k) PROVE exposed' = exposed
  BY <1>7 DEF PutThrows, regVars
<1> QED
  BY <1>1, <1>2, <1>3, <1>4, <1>5, <1>6, <1>7 DEF FailNext, Regular, Failure

\* A commit reports a version of its own, and its batch is there in full.
LEMMA FailCommits ==
  ASSUME Upheld, Grows, \A u \in TxnId : CommitApply(u) \/ Settles(u)
  PROVE  CommitsInLog'
<1> DEFINE Wrote(u) == state[u] = "kCommitted" /\ write_set[u] # Empty
<1>0. /\ state \in [TxnId -> States] /\ commit_version \in [TxnId -> Nat]
      /\ log \in Seq(StoreP!Partial) /\ Len(log) = next_version - 1 /\ next_version \in Nat \ {0}
  BY SoundTyping DEF Upheld, ObjShape
<1>1. ASSUME NEW u \in TxnId, Wrote(u)
      PROVE  /\ commit_version[u] \in 1 .. Len(log) /\ log[commit_version[u]] = write_set[u]
             /\ \A w \in TxnId \ {u} : Wrote(w) => commit_version[w] # commit_version[u]
  BY <1>1 DEF Upheld, CommitsInLog
<1>2. ASSUME NEW u \in TxnId, CommitApply(u)
      PROVE  /\ commit_version'[u] = next_version /\ next_version \in 1 .. Len(log')
             /\ log'[next_version] = write_set'[u]
             /\ \A w \in TxnId \ {u} : ~CommitApply(w)
  <2>1. /\ log' = Append(log, write_set[u]) /\ UNCHANGED write_set
        /\ state' = [state EXCEPT ![u] = "kCommitted"]
        /\ commit_version' = [commit_version EXCEPT ![u] = next_version]
    BY <1>2 DEF CommitApply, Store!ApplyBatchIfNoConflict, Store!ApplyBatch
  <2>2. ASSUME NEW w \in TxnId \ {u}, CommitApply(w) PROVE FALSE
    <3>1. state[w] = "kActive" /\ state'[w] = "kCommitted"
      BY <1>0, <2>2 DEF CommitApply, Usable
    <3> QED
      BY <1>0, <2>1, <3>1
  <2> QED
    BY <1>0, <2>1, <2>2
<1>3. ASSUME NEW u \in TxnId, Settles(u), state'[u] = "kCommitted", write_set'[u] # Empty
      PROVE  /\ Wrote(u) /\ commit_version'[u] = commit_version[u]
             /\ commit_version'[u] \in 1 .. Len(log) /\ commit_version'[u] \in 1 .. Len(log')
             /\ log'[commit_version'[u]] = write_set'[u]
  <2>1. /\ Wrote(u) /\ commit_version'[u] = commit_version[u] /\ write_set'[u] = write_set[u]
    BY <1>3 DEF Settles
  <2> QED
    BY <1>1, <2>1 DEF Grows
<1> SUFFICES ASSUME NEW t \in TxnId, state'[t] = "kCommitted", write_set'[t] # Empty
             PROVE  /\ commit_version'[t] \in 1 .. Len(log')
                    /\ log'[commit_version'[t]] = write_set'[t]
                    /\ \A u \in TxnId \ {t} : state'[u] = "kCommitted" /\ write_set'[u] # Empty
                         => commit_version'[u] # commit_version'[t]
  BY DEF CommitsInLog, TxnId, Mgr!TxnId
<1>4. CASE CommitApply(t)
  <2>1. ASSUME NEW u \in TxnId \ {t}, state'[u] = "kCommitted", write_set'[u] # Empty
        PROVE  commit_version'[u] # commit_version'[t]
    <3>1. commit_version'[u] \in 1 .. Len(log)
      BY <1>2, <1>3, <1>4, <2>1
    <3> QED
      BY <1>0, <1>2, <1>4, <3>1
  <2> QED
    BY <1>2, <1>4, <2>1
<1>5. CASE ~CommitApply(t)
  <2>1. /\ Wrote(t) /\ commit_version'[t] = commit_version[t]
        /\ commit_version'[t] \in 1 .. Len(log) /\ commit_version'[t] \in 1 .. Len(log')
        /\ log'[commit_version'[t]] = write_set'[t]
    BY <1>3, <1>5
  <2>2. ASSUME NEW u \in TxnId \ {t}, state'[u] = "kCommitted", write_set'[u] # Empty
        PROVE  commit_version'[u] # commit_version'[t]
    <3>1. CASE CommitApply(u)
      BY <1>0, <1>2, <2>1, <3>1
    <3>2. CASE Settles(u)
      BY <1>1, <1>3, <2>1, <2>2, <3>2
    <3> QED
      BY <3>1, <3>2
  <2> QED
    BY <2>1, <2>2
<1> QED
  BY <1>4, <1>5

\* A commit reports a version.
LEMMA FailReports ==
  ASSUME Upheld, [FailNext]_failVars
  PROVE  commit_version' \in [TxnId -> Nat]
<1>0. /\ commit_version \in [TxnId -> Nat] /\ snapshot \in [TxnId -> Nat] /\ next_version \in Nat
  BY SoundTyping, BoundsAssumption DEF Upheld, ObjShape
<1>1. ASSUME NEW t \in TxnId, TxnStep(t) PROVE commit_version' \in [TxnId -> Nat]
  BY <1>0, <1>1 DEF TxnStep, BeginStep, BeginReturn, Put, Delete, CommitReadOnly, CommitApply,
     CommitConflict, Abort, EndUnregister, Destroy, objVars
<1>2. ASSUME NEW c \in Scanner, RunOnceStep(c) PROVE UNCHANGED commit_version
  BY <1>2, PassLeaves DEF objVars
<1>3. ASSUME NEW t \in TxnId, Failure(t) PROVE UNCHANGED commit_version
  BY <1>3 DEF Failure, CommitThrows, PutThrows, BeginThrows, PlaceholderThrows, objVars
<1>4. CASE UNCHANGED failVars
  BY <1>0, <1>4 DEF failVars, vars, txnVars, objVars
<1> QED
  BY <1>0, <1>1, <1>2, <1>3, <1>4 DEF FailNext, Regular

-------------------------------------------------------------------------------
(* What the histories of the failures, torn and unasked, say of the batches   *)
(* and of the buffers.                                                        *)

\* A part of t's batch landed at most once.
TornOnce == \A t \in TxnId \ exposed : torn[t] # {} => Cardinality(torn[t]) = 1

\* A delete that nobody asked for is in the buffer.
UnaskedBuffered ==
  /\ unasked \in [TxnId -> SUBSET Key]
  /\ \A t \in TxnId : \A k \in unasked[t] : k \in DOMAIN write_set[t] /\ write_set[t][k] = Tombstone

\* A second attempt finds what the first one left, and is refused.
LEMMA TornOnceKept ==
  ASSUME FailInv, TornOnce, exposed \subseteq exposed', [FailNext]_failVars
  PROVE  TornOnce'
<1>1. CASE torn' = torn
  BY <1>1 DEF TornOnce
<1>2. ASSUME NEW t \in TxnId, CommitThrows(t) PROVE TornOnce'
  <2>0. torn \in [TxnId -> SUBSET Nat]
    BY DEF FailInv, FailSafe, FailTypeOK
  <2>1. /\ torn' = torn \/ torn' = [torn EXCEPT ![t] = @ \cup {next_version}]
        /\ Usable(t) /\ ~Stuck(t)
    BY <1>2 DEF CommitThrows, Store!Conflicts, Stuck
  <2>2. t \notin exposed => torn[t] = {}
    BY <2>1 DEF FailInv, FailSafe, TornStuck
  <2>3. ASSUME torn' = [torn EXCEPT ![t] = @ \cup {next_version}], NEW u \in TxnId \ exposed',
               torn'[u] # {}
        PROVE  Cardinality(torn'[u]) = 1
    <3>1. CASE u # t
      BY <2>0, <2>3, <3>1 DEF TornOnce
    <3>2. CASE u = t
      <4>1. torn'[u] = {next_version}
        BY <2>0, <2>2, <2>3, <3>2
      <4> QED
        BY <4>1, FS_Singleton
    <3> QED
      BY <3>1, <3>2
  <2> QED
    BY <1>1, <2>1, <2>3 DEF TornOnce
<1> QED
  BY <1>1, <1>2 DEF FailNext, Regular, Failure, PutThrows, BeginThrows, PlaceholderThrows, failVars

\* Only a failed Put adds such a delete; it leaves with the buffer, or by a Put.
LEMMA UnaskedKept ==
  ASSUME FailInv, UnaskedBuffered, [FailNext]_failVars
  PROVE  UnaskedBuffered'
<1>1. CASE Regular
  BY <1>1 DEF Regular, UnaskedBuffered
<1>2. ASSUME NEW t \in TxnId, NEW k \in Key, PutThrows(t, k) PROVE UnaskedBuffered'
  <2>0. /\ write_set \in [TxnId -> Buffers] /\ unasked \in [TxnId -> SUBSET Key]
        /\ write_set' = [write_set EXCEPT ![t] = Mgr!MapPut(@, k, Tombstone)]
        /\ unasked' = [unasked EXCEPT ![t] = @ \cup {k}]
    BY <1>2 DEF PutThrows, FailInv, FailSafe, FailTypeOK, UnaskedBuffered
  <2>1. /\ unasked' \in [TxnId -> SUBSET Key]
        /\ \A u \in TxnId \ {t} : UNCHANGED <<write_set[u], unasked[u]>>
        /\ write_set'[t] = Mgr!MapPut(write_set[t], k, Tombstone)
        /\ unasked'[t] = unasked[t] \cup {k}
    BY <2>0
  <2>2. \A y \in unasked'[t] : y \in DOMAIN write_set'[t] /\ write_set'[t][y] = Tombstone
    BY <2>1 DEF UnaskedBuffered, Mgr!MapPut
  <2> QED
    BY <2>1, <2>2 DEF UnaskedBuffered
<1>3. ASSUME UNCHANGED <<write_set, unasked>> PROVE UnaskedBuffered'
  BY <1>3 DEF UnaskedBuffered
<1> QED
  BY <1>1, <1>2, <1>3 DEF FailNext, Failure, CommitThrows, BeginThrows, PlaceholderThrows, objVars,
     failVars, vars, txnVars

\* What has committed stays as it is.
LEMMA CommittedStays ==
  ASSUME Upheld, [FailNext]_failVars, NEW u \in TxnId, state[u] = "kCommitted"
  PROVE  UNCHANGED <<state[u], write_set[u], commit_version[u]>>
<1> USE DEF Upheld, ObjShape
<1>0. stage \in [TxnId -> Mgr!Stages]
  BY SoundTyping
<1>1. ASSUME NEW t \in TxnId, BeginStep(t) \/ EndUnregister(t) PROVE UNCHANGED objVars
  BY <1>1 DEF BeginStep, EndUnregister
<1>2. ASSUME NEW t \in TxnId, BeginReturn(t)
      PROVE  UNCHANGED <<state[u], write_set[u], commit_version[u]>>
  BY <1>0, <1>2 DEF BeginReturn, HandedOut, Mgr!RefineSnapshot
<1>3. ASSUME NEW t \in TxnId, NEW k \in Key,
             Delete(t, k) \/ PutThrows(t, k) \/ \E v \in Value : Put(t, k, v)
      PROVE  UNCHANGED <<state[u], write_set[u], commit_version[u]>>
  BY <1>3 DEF Delete, PutThrows, Put, Usable
<1>4. ASSUME NEW t \in TxnId,
             \/ CommitReadOnly(t) \/ CommitApply(t) \/ CommitConflict(t) \/ Abort(t) \/ Destroy(t)
      PROVE  UNCHANGED <<state[u], write_set[u], commit_version[u]>>
  BY <1>4 DEF CommitReadOnly, CommitApply, CommitConflict, Abort, Destroy, Usable
<1>5. ASSUME NEW c \in Scanner, RunOnceStep(c) PROVE UNCHANGED objVars
  BY <1>5, PassLeaves
<1>6. ASSUME NEW t \in TxnId, CommitThrows(t) \/ BeginThrows(t) \/ PlaceholderThrows(t)
      PROVE  UNCHANGED objVars
  BY <1>6 DEF CommitThrows, BeginThrows, PlaceholderThrows
<1>7. UNCHANGED failVars => UNCHANGED objVars
  BY DEF failVars, vars, txnVars
<1> QED
  BY <1>1, <1>2, <1>3, <1>4, <1>5, <1>6, <1>7 DEF FailNext, Regular, TxnStep, Failure, objVars

\* So what landed of a transaction changes only with torn, or when it commits.
LEMMA LandedStays ==
  ASSUME Upheld, [FailNext]_failVars, NEW u \in TxnId, torn'[u] = torn[u], ~CommitApply(u)
  PROVE  Landed(u)' = Landed(u)
<1>1. Settles(u)
  BY FailFinal
<1>2. state[u] = "kCommitted" => UNCHANGED <<state[u], write_set[u], commit_version[u]>>
  BY CommittedStays
<1> QED
  BY <1>1, <1>2 DEF Landed, Settles

\* A batch lands at the next version, and for one transaction.
LEMMA LandedGrows ==
  ASSUME Upheld, FailInv, BatchesAccountedFor, [FailNext]_failVars, NEW t \in TxnId,
         NEW x, log' = Append(log, x),
         DOMAIN x # {} => next_version \in Landed(t)',
         Landed(t)' \subseteq Landed(t) \cup {next_version}, Landed(t) \subseteq Landed(t)',
         \A u \in TxnId \ {t} : Landed(u)' = Landed(u)
  PROVE  /\ \A u \in TxnId : Landed(u)' \subseteq DOMAIN log'
         /\ \A u, w \in TxnId : u # w => Landed(u)' \cap Landed(w)' = {}
         /\ \A i \in DOMAIN log' : DOMAIN log'[i] # {} => \E u \in TxnId : i \in Landed(u)'
<1>1. /\ log \in Seq(StoreP!Partial) /\ next_version = Len(log) + 1 /\ Len(log) \in Nat
  BY SoundTyping DEF Upheld
<1>2. /\ DOMAIN log = 1 .. Len(log) /\ DOMAIN log' = 1 .. Len(log) + 1
      /\ log'[Len(log) + 1] = x /\ \A i \in 1 .. Len(log) : log'[i] = log[i]
  BY <1>1
<1>3. /\ \A u \in TxnId : Landed(u) \subseteq 1 .. Len(log)
      /\ \A u, w \in TxnId : u # w => Landed(u) \cap Landed(w) = {}
      /\ \A i \in 1 .. Len(log) : DOMAIN log[i] # {} => \E u \in TxnId : i \in Landed(u)
  BY <1>2 DEF BatchesAccountedFor
<1>4. next_version \notin 1 .. Len(log) /\ next_version \in 1 .. Len(log) + 1
  BY <1>1
<1>5. \A u \in TxnId : Landed(u)' \subseteq DOMAIN log'
  BY <1>1, <1>2, <1>3, <1>4
<1>6. ASSUME NEW u \in TxnId, NEW w \in TxnId, u # w PROVE Landed(u)' \cap Landed(w)' = {}
  <2>1. CASE u = t
    BY <1>3, <1>4, <1>6, <2>1
  <2>2. CASE w = t
    BY <1>3, <1>4, <1>6, <2>2
  <2>3. CASE u # t /\ w # t
    BY <1>3, <1>6, <2>3
  <2> QED
    BY <2>1, <2>2, <2>3
<1>7. ASSUME NEW i \in DOMAIN log', DOMAIN log'[i] # {} PROVE \E u \in TxnId : i \in Landed(u)'
  <2>1. CASE i = next_version
    BY <1>1, <1>2, <1>7, <2>1
  <2>2. CASE i # next_version
    <3>1. i \in 1 .. Len(log) /\ DOMAIN log[i] # {}
      BY <1>1, <1>2, <1>7, <2>2
    <3>2. PICK u \in TxnId : i \in Landed(u)
      BY <1>3, <3>1
    <3> QED
      BY <3>2
  <2> QED
    BY <2>1, <2>2
<1> QED
  BY <1>5, <1>6, <1>7

\* Every batch is somebody's, whatever throws.
LEMMA AccountedKept ==
  ASSUME FailInv, Upheld, BatchesAccountedFor, CommitsInLog', [FailNext]_failVars
  PROVE  BatchesAccountedFor'
<1> DEFINE Sets == /\ \A u \in TxnId : Landed(u)' \subseteq DOMAIN log'
                   /\ \A u, w \in TxnId : u # w => Landed(u)' \cap Landed(w)' = {}
                   /\ \A i \in DOMAIN log' : DOMAIN log'[i] # {} =>
                        \E u \in TxnId : i \in Landed(u)'
           Apart(u) == state[u] = "kCommitted" /\ write_set[u] # Empty
                         => commit_version[u] \notin torn[u]
<1>0. /\ torn \in [TxnId -> SUBSET Nat] /\ state \in [TxnId -> States]
      /\ write_set \in [TxnId -> Buffers] /\ commit_version \in [TxnId -> Nat]
      /\ log \in Seq(StoreP!Partial) /\ next_version = Len(log) + 1 /\ Len(log) \in Nat
      /\ DOMAIN log = 1 .. Len(log)
  BY SoundTyping DEF Upheld, ObjShape, FailInv, FailSafe, FailTypeOK
<1>1. /\ \A u \in TxnId : Landed(u) \subseteq DOMAIN log
      /\ \A u \in TxnId : torn[u] \subseteq 1 .. Len(log)
      /\ \A u \in TxnId : Apart(u)
  BY <1>0 DEF BatchesAccountedFor, Landed
<1>2. ASSUME NEW t \in TxnId, CommitApply(t), torn' = torn PROVE Sets /\ \A u \in TxnId : Apart(u)'
  <2>1. /\ log' = Append(log, write_set[t]) /\ UNCHANGED write_set
        /\ state[t] = "kActive" /\ state' = [state EXCEPT ![t] = "kCommitted"]
        /\ commit_version' = [commit_version EXCEPT ![t] = next_version] /\ write_set[t] # Empty
    BY <1>2 DEF CommitApply, Usable, Store!ApplyBatchIfNoConflict, Store!ApplyBatch
  <2>2. /\ state'[t] = "kCommitted" /\ commit_version'[t] = next_version
        /\ \A u \in TxnId \ {t} : UNCHANGED <<state[u], commit_version[u], write_set[u], torn[u]>>
    BY <1>0, <1>2, <2>1
  <2>3. Landed(t) = torn[t] /\ Landed(t)' = torn[t] \cup {next_version}
    BY <1>2, <2>1, <2>2 DEF Landed
  <2>4. \A u \in TxnId \ {t} : Landed(u)' = Landed(u)
    BY <2>2 DEF Landed
  <2>5. Sets
    BY <2>1, <2>3, <2>4, LandedGrows
  <2>6. next_version \notin torn'[t]
    BY <1>0, <1>1, <1>2
  <2>7. Apart(t)'
    BY <2>2, <2>6
  <2>8. \A u \in TxnId \ {t} : Apart(u)'
    BY <1>1, <2>2
  <2> QED
    BY <2>5, <2>7, <2>8
<1>3. ASSUME NEW t \in TxnId, CommitThrows(t) PROVE Sets /\ \A u \in TxnId : Apart(u)'
  <2>1. PICK landed \in SUBSET DOMAIN write_set[t] :
          /\ log' = Append(log, [k \in landed |-> write_set[t][k]])
          /\ torn' = IF landed = {} THEN torn ELSE [torn EXCEPT ![t] = @ \cup {next_version}]
    BY <1>3 DEF CommitThrows, Store!ApplyBatch
  <2>2. state[t] = "kActive" /\ UNCHANGED <<state, write_set, commit_version>>
    BY <1>3 DEF CommitThrows, Usable, objVars
  <2>3. /\ torn'[t] = IF landed = {} THEN torn[t] ELSE torn[t] \cup {next_version}
        /\ \A u \in TxnId \ {t} : torn'[u] = torn[u]
    BY <1>0, <2>1
  <2>4. /\ Landed(t) = torn[t] /\ Landed(t)' = torn'[t]
        /\ \A u \in TxnId \ {t} : Landed(u)' = Landed(u)
    BY <2>2, <2>3 DEF Landed
  <2> DEFINE x == [k \in landed |-> write_set[t][k]]
  <2>5. log' = Append(log, x) /\ DOMAIN x = landed
    BY <2>1
  <2> HIDE DEF x
  <2>6. Sets
    BY <2>3, <2>4, <2>5, LandedGrows
  <2>7. \A u \in TxnId : Apart(u)'
    BY <1>1, <2>2, <2>3
  <2> QED
    BY <2>6, <2>7
<1>4. ASSUME torn' = torn, log' = log, \A u \in TxnId : ~CommitApply(u)
      PROVE  Sets /\ \A u \in TxnId : Apart(u)'
  <2>1. \A u \in TxnId : Landed(u)' = Landed(u)
    BY <1>4, LandedStays
  <2>2. Sets
    BY <1>4, <2>1 DEF BatchesAccountedFor
  <2>3. \A u \in TxnId : Settles(u)
    BY <1>4, FailFinal
  <2>4. \A u \in TxnId : Apart(u)'
    BY <1>1, <1>4, <2>3 DEF Settles
  <2> QED
    BY <2>2, <2>4
<1>5. ASSUME ~(\E t \in TxnId : CommitApply(t) \/ CommitThrows(t)) PROVE torn' = torn /\ log' = log
  <2>1. ASSUME NEW t \in TxnId, TxnStep(t) PROVE log' = log
    BY <1>5, <2>1 DEF TxnStep, BeginStep, BeginReturn, Put, Delete, CommitReadOnly, CommitConflict,
       Abort, EndUnregister, Destroy, storeVars
  <2>2. ASSUME NEW c \in Scanner, RunOnceStep(c) PROVE log' = log
    BY <2>2, PassLeaves
  <2>3. ASSUME NEW t \in TxnId, Failure(t) PROVE torn' = torn /\ log' = log
    BY <1>5, <2>3 DEF Failure, PutThrows, BeginThrows, PlaceholderThrows, storeVars
  <2> QED
    BY <2>1, <2>2, <2>3 DEF FailNext, Regular, failVars, vars, txnVars, storeVars
<1>6. ASSUME NEW t \in TxnId, CommitApply(t) PROVE torn' = torn
  <2>1. state[t] = "kActive" /\ state'[t] = "kCommitted"
    BY <1>0, <1>6 DEF CommitApply, Usable
  <2>2. \A u \in TxnId : ~Failure(u)
    BY <2>1 DEF Failure, CommitThrows, PutThrows, BeginThrows, PlaceholderThrows, objVars
  <2> QED
    BY <2>2 DEF FailNext, Regular, failVars
<1>7. Sets /\ \A u \in TxnId : Apart(u)'
  BY <1>2, <1>3, <1>4, <1>5, <1>6
<1> QED
  BY <1>7 DEF BatchesAccountedFor

-------------------------------------------------------------------------------
\* The inductive invariant of the promises.
PromiseInv ==
  /\ FailInv /\ TornOnce /\ UnaskedBuffered
  /\ Upheld /\ FirstCommitterWins /\ BatchesAccountedFor

\* It holds initially.
LEMMA PromiseStart == FailInit => PromiseInv
<1> SUFFICES ASSUME FailInit PROVE PromiseInv
  OBVIOUS
<1>1. SysInv
  BY InitSysInv DEF FailInit
<1>2. TornOnce /\ UnaskedBuffered
  BY DEF FailInit, TornOnce, UnaskedBuffered
<1>3. BatchesAccountedFor
  <2>1. CommitsInLog
    BY <1>1 DEF SysInv, TInv
  <2>2. log = <<>> /\ torn = [t \in TxnId |-> {}] /\ state = [t \in TxnId |-> "none"]
    BY DEF FailInit, SysInit, Init, Store!Init
  <2>3. \A t \in TxnId : Landed(t) = {} /\ state[t] # "kCommitted"
    BY <2>2 DEF Landed
  <2> QED
    BY <2>1, <2>2, <2>3 DEF BatchesAccountedFor
<1> QED
  BY <1>1, <1>2, <1>3, FailStart, TInvUpheld DEF SysInv, PromiseInv

\* Every step keeps it.
LEMMA PromiseStep == PromiseInv /\ [FailNext]_failVars => PromiseInv'
<1> SUFFICES ASSUME PromiseInv, [FailNext]_failVars PROVE PromiseInv'
  OBVIOUS
<1>0. /\ FailInv /\ TornOnce /\ UnaskedBuffered
      /\ Upheld /\ FirstCommitterWins /\ BatchesAccountedFor
  BY DEF PromiseInv
<1>1. FailInv'
  BY <1>0, FailStep
<1>2. StoreP!Sound' /\ Grows
  BY <1>0, FailStore
<1>3. exposed \subseteq exposed' /\ \A u \in TxnId : CommitApply(u) \/ Settles(u)
  BY <1>0, FailFinal
<1>4. CommitsInLog'
  BY <1>0, <1>2, <1>3, FailCommits
<1>5. FirstCommitterWins'
  BY <1>0, <1>2, <1>3, FirstCommitterKept
<1>6. ObjShape' /\ HandedOut' /\ MgrP!IInv'
  BY <1>0, <1>1, FailReports DEF FailInv, FailSafe, FailTypeOK, ObjShape
<1>7. TornOnce' /\ UnaskedBuffered' /\ BatchesAccountedFor'
  BY <1>0, <1>3, <1>4, TornOnceKept, UnaskedKept, AccountedKept
<1> QED
  BY <1>1, <1>2, <1>4, <1>5, <1>6, <1>7 DEF PromiseInv, Upheld

\* So it always holds.
LEMMA AlwaysPromise == FailSpec => []PromiseInv
BY PromiseStart, PromiseStep, PTL DEF FailSpec

\* A transaction of which a part landed in an attempt that threw never lands another
\* part and never commits, whoever wrote and whichever passes ran in between
\* (version_store.cpp:211-233), unless its Begin was in a scan's blind spot.
THEOREM RetryCorrect == FailSpec => []RetryNeverDoubles
<1>1. PromiseInv => RetryNeverDoubles
  BY DEF PromiseInv, FailInv, FailSafe, TornUncommitted, TornOnce, RetryNeverDoubles
<1> QED
  BY <1>1, AlwaysPromise, PTL

\* Whatever throws, a transaction keeps reading what was there when it began, with
\* collections in between: a batch that landed in part is newer than every snapshot
\* taken before (version_store.cpp:103-121, 221-233).
THEOREM ReadsUnderFailure == FailSpec => []SnapshotStable
<1>1. PromiseInv => SnapshotStable
  BY UpheldStable DEF PromiseInv
<1> QED
  BY <1>1, AlwaysPromise, PTL

\* What a step may do to the reads of t.
OnlyHides(t) ==
  Usable(t) /\ Usable(t)' =>
    \A k \in Key \ DOMAIN Asked(t)' :
      \/ Get(t, k)' = Get(t, k)
      \/ /\ k \in unasked'[t] \ unasked[t]
         /\ Get(t, k)' = Tombstone

\* A key outside the buffer reads the same; one that is in it unasked is hidden.
LEMMA HiddenReads ==
  ASSUME UnaskedBuffered, UnaskedBuffered', SameReads, NEW t \in TxnId \ exposed'
  PROVE  OnlyHides(t)
<1> SUFFICES ASSUME Usable(t), Usable(t)', NEW k \in Key, k \notin DOMAIN Asked(t)'
             PROVE  \/ Get(t, k)' = Get(t, k)
                    \/ k \in unasked'[t] \ unasked[t] /\ Get(t, k)' = Tombstone
  BY DEF OnlyHides
<1>1. k \notin DOMAIN write_set'[t] \/ k \in unasked'[t]
  BY DEF Asked
<1>2. CASE k \notin DOMAIN write_set'[t]
  BY <1>2 DEF SameReads
<1>3. CASE k \in unasked'[t]
  <2>1. Get(t, k)' = Tombstone
    BY <1>3 DEF UnaskedBuffered, Get
  <2>2. k \in unasked[t] => Get(t, k) = Tombstone
    BY DEF UnaskedBuffered, Get
  <2> QED
    BY <1>3, <2>1, <2>2
<1> QED
  BY <1>1, <1>2, <1>3

\* Whatever throws, that view does not change until the transaction ends
\* (transaction.h:21-23), but for the keys that a failed Put of its own hides
\* (transaction.cpp:60).
THEOREM ReadsRepeatUnderFailure == FailSpec => ReadsChangeOnlyByFailedPut
<1>1. PromiseInv /\ PromiseInv' /\ SnapshotStable /\ SnapshotStable' /\ [FailNext]_failVars
        => \A t \in TxnId \ exposed' : OnlyHides(t)
  <2> SUFFICES ASSUME PromiseInv, PromiseInv', SnapshotStable, SnapshotStable',
                      [FailNext]_failVars
               PROVE  \A t \in TxnId \ exposed' : OnlyHides(t)
    OBVIOUS
  <2>1. /\ Upheld /\ Grows /\ exposed \subseteq exposed'
        /\ UnaskedBuffered /\ UnaskedBuffered'
    BY FailStore, FailFinal DEF PromiseInv
  <2>2. ASSUME NEW u \in TxnId, TxnStep(u) PROVE \A t \in TxnId : StillUsed(t)
    <3>1. [TxnNext]_txnVars
      BY <2>2 DEF TxnNext
    <3> QED
      BY <2>1, <3>1, UseKept
  <2>3. ASSUME NEW c \in Scanner, RunOnceStep(c) PROVE UNCHANGED <<objVars, snapshot>>
    BY <2>3, PassLeaves
  <2>4. ASSUME NEW u \in TxnId, CommitThrows(u) \/ BeginThrows(u) \/ PlaceholderThrows(u)
        PROVE  UNCHANGED <<objVars, snapshot>>
    BY <2>4 DEF CommitThrows, BeginThrows, PlaceholderThrows, Mgr!StoreWrite, Mgr!RefineSnapshot
  <2>5. ASSUME UNCHANGED <<objVars, snapshot>> PROVE \A t \in TxnId : StillUsed(t)
    BY <2>5 DEF StillUsed, objVars
  <2>6. UNCHANGED failVars => UNCHANGED <<objVars, snapshot>>
    BY DEF failVars, vars, txnVars, regVars
  <2>7. ASSUME NEW u \in TxnId, NEW k \in Key, PutThrows(u, k) PROVE \A t \in TxnId : StillUsed(t)
    <3>1. /\ UNCHANGED snapshot /\ write_set \in [TxnId -> Buffers]
          /\ write_set' = [write_set EXCEPT ![u] = Mgr!MapPut(@, k, Tombstone)]
      BY <2>1, <2>7 DEF PutThrows, regVars, Upheld, ObjShape
    <3>2. DOMAIN Mgr!MapPut(write_set[u], k, Tombstone) = DOMAIN write_set[u] \cup {k}
      BY DEF Mgr!MapPut
    <3> QED
      BY <3>1, <3>2 DEF StillUsed
  <2>8. \A t \in TxnId : StillUsed(t)
    BY <2>2, <2>3, <2>4, <2>5, <2>6, <2>7 DEF FailNext, Regular, Failure
  <2>9. SameReads
    BY <2>1, <2>8, ReadsSame
  <2> QED
    BY <2>1, <2>9, HiddenReads
<1> QED
  BY <1>1, ReadsUnderFailure, AlwaysPromise, PTL
  DEF FailSpec, ReadsChangeOnlyByFailedPut, OnlyHides

\* Whatever throws, of two overlapping transactions that write the same key only the
\* first to commit succeeds (version_store.cpp:191-224).
THEOREM FirstCommitterUnderFailure == FailSpec => []FirstCommitterWins
<1>1. PromiseInv => FirstCommitterWins
  BY DEF PromiseInv
<1> QED
  BY <1>1, AlwaysPromise, PTL

\* Whatever throws, an acknowledged commit is whole at the version reported, and every
\* batch in the store is one transaction's: its commit, or a part that landed of an
\* attempt that threw (transaction.cpp:125-145, version_store.cpp:229-233).
THEOREM CommitsUnderFailure == FailSpec => []BatchesAccountedFor
<1>1. PromiseInv => BatchesAccountedFor
  BY DEF PromiseInv
<1> QED
  BY <1>1, AlwaysPromise, PTL

\* Whatever throws, Get and Commit answer as snapshot isolation prescribes for what the
\* caller asked for, but for the keys that a failed Put left as deletes
\* (transaction.cpp:33-50, 60, 125-138).
THEOREM ObservationsUnderFailure == FailSpec => []ObservationsAsAsked
<1>1. ASSUME Upheld PROVE ObservationsAsAsked
  <2> SUFFICES ASSUME NEW t \in TxnId \ exposed, Usable(t)
               PROVE  /\ \A k \in Key \ unasked[t] : Get(t, k) = AskedSI!Sees(t, k)
                      /\ Store!Conflicts(write_set[t], snapshot[t]) \ unasked[t]
                           = AskedSI!Overwritten(t)
    BY DEF ObservationsAsAsked
  <2>1. /\ \A k \in Key : Get(t, k) = SI!Sees(t, k)
        /\ Store!Conflicts(write_set[t], snapshot[t]) = SI!Overwritten(t)
    BY <1>1, UpheldObservations DEF ObservationsMatchSI
  <2>2. /\ DOMAIN Asked(t) = DOMAIN write_set[t] \ unasked[t]
        /\ \A k \in DOMAIN Asked(t) : Asked(t)[k] = write_set[t][k]
    BY DEF Asked
  <2>3. \A k \in Key \ unasked[t] : SI!Sees(t, k) = AskedSI!Sees(t, k)
    BY <2>2 DEF SI!Sees, AskedSI!Sees, SI!AsOf, AskedSI!AsOf
  <2>4. SI!Overwritten(t) \ unasked[t] = AskedSI!Overwritten(t)
    BY <2>2 DEF SI!Overwritten, AskedSI!Overwritten
  <2> QED
    BY <2>1, <2>3, <2>4
<1>2. PromiseInv => ObservationsAsAsked
  BY <1>1 DEF PromiseInv
<1> QED
  BY <1>2, AlwaysPromise, PTL

===============================================================================
