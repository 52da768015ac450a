--------------------------- MODULE TransactionProofs --------------------------
(***************************************************************************)
(* Transactions over the store and the registry, without a collector: what *)
(* they read, what they commit, and that they implement SnapshotIsolation, *)
(* for any number of transactions, keys and versions.  The store's and the *)
(* registry's own invariants are taken over from their proofs, so TInv only*)
(* adds how the transactions relate to them.                               *)
(***************************************************************************)
EXTENDS Transaction, TLAPS

StoreP == INSTANCE VersionStoreProofs
MgrP   == INSTANCE TransactionManagerProofs WITH version <- next_version - 1

-------------------------------------------------------------------------------
\* The store starts in its invariant.
LEMMA StoreInit == Store!Init => StoreP!IInv
BY StoreP!InitIInv, TombstoneAssumption, BoundsAssumption DEF Store!Init, StoreP!Init

\* The two instances of the store agree on what a batch is.
LEMMA SameBatch == Store!Batch = StoreP!Batch
BY DEF Store!Batch, StoreP!Batch, Store!Cell, StoreP!Cell

\* A batch keeps the store's invariant.
LEMMA StoreApply ==
  ASSUME StoreP!IInv, NEW ops \in Store!Batch, Store!ApplyBatch(ops)
  PROVE  StoreP!IInv'
<1>1. StoreP!ApplyBatch(ops)
  BY DEF Store!ApplyBatch, StoreP!ApplyBatch
<1> QED
  BY <1>1, SameBatch, StoreP!ApplyBatchIInv, TombstoneAssumption, BoundsAssumption

\* So does a collection up to a version the store has reached.
LEMMA StoreCollect ==
  ASSUME StoreP!IInv, NEW b \in 0 .. next_version - 1, Store!CollectGarbage(b)
  PROVE  StoreP!IInv'
<1>1. StoreP!CollectGarbage(b)
  BY DEF Store!CollectGarbage, StoreP!CollectGarbage, Store!Collected, StoreP!Collected,
     Store!PartitionPoint, StoreP!PartitionPoint
<1> QED
  BY <1>1, StoreP!CollectGarbageIInv, TombstoneAssumption, BoundsAssumption
  DEF StoreP!CurrentVersion

\* What lands of a batch keeps reads and the conflict check sound.
LEMMA StoreLands ==
  ASSUME StoreP!Sound, NEW ops \in StoreP!Partial, Store!ApplyBatch(ops)
  PROVE  StoreP!Sound'
<1>1. StoreP!ApplyBatch(ops)
  BY DEF Store!ApplyBatch, StoreP!ApplyBatch
<1> QED
  BY <1>1, StoreP!ApplyBatchSound, TombstoneAssumption, BoundsAssumption

\* So does a collection.
LEMMA StoreCollects ==
  ASSUME StoreP!Sound, NEW b \in 0 .. next_version - 1, Store!CollectGarbage(b)
  PROVE  StoreP!Sound'
<1>1. StoreP!CollectGarbage(b)
  BY DEF Store!CollectGarbage, StoreP!CollectGarbage, Store!Collected, StoreP!Collected,
     Store!PartitionPoint, StoreP!PartitionPoint
<1> QED
  BY <1>1, StoreP!CollectGarbageSound, TombstoneAssumption, BoundsAssumption
  DEF StoreP!CurrentVersion

\* What the store's invariant says of reads and of the conflict check.
LEMMA StoreReads ==
  ASSUME StoreP!Sound
  PROVE  Store!VisibleAboveHorizon /\ Store!ConflictCheckExact
<1>1. StoreP!VisibleAboveHorizon /\ StoreP!ConflictCheckExact
  BY StoreP!SoundReads, StoreP!SoundConflicts, TombstoneAssumption, BoundsAssumption
<1>2. Store!VisibleAboveHorizon
  BY <1>1 DEF Store!VisibleAboveHorizon, StoreP!VisibleAboveHorizon,
    Store!GetAsOf, StoreP!GetAsOf, Store!VisibleAt, StoreP!VisibleAt, Store!LogAsOf, StoreP!LogAsOf,
    Store!PartitionPoint, StoreP!PartitionPoint, Store!Writes, StoreP!Writes
<1>3. Store!ConflictCheckExact
  BY <1>1 DEF Store!ConflictCheckExact, StoreP!ConflictCheckExact,
    Store!LatestVersion, StoreP!LatestVersion, Store!LatestOf, StoreP!LatestOf,
    Store!CurrentVersion, StoreP!CurrentVersion
<1> QED BY <1>2, <1>3

\* The registry starts in its invariant.
LEMMA MgrInit == Mgr!Init => MgrP!IInv
BY MgrP!InitIInv, ShardsAssumption, BoundsAssumption
DEF Mgr!Init, MgrP!Init, Mgr!Shard, MgrP!Shard, Mgr!TxnId, MgrP!TxnId, Mgr!IdleScan, MgrP!IdleScan

\* And each of its steps keeps it.
LEMMA MgrStep ==
  ASSUME MgrP!IInv, [Mgr!Next]_(Mgr!mgrVars)
  PROVE  MgrP!IInv'
<1>1. MgrP!Next <=> Mgr!Next
  BY DEF Mgr!Next, MgrP!Next, Mgr!TxnId, MgrP!TxnId,
     Mgr!TxnStep, MgrP!TxnStep, Mgr!ScanStep, MgrP!ScanStep, Mgr!StoreWrite, MgrP!StoreWrite,
     Mgr!AssignId, MgrP!AssignId, Mgr!RegisterPlaceholder, MgrP!RegisterPlaceholder,
     Mgr!ReadSnapshot, MgrP!ReadSnapshot, Mgr!RefineSnapshot, MgrP!RefineSnapshot,
     Mgr!Unregister, MgrP!Unregister, Mgr!StartScan, MgrP!StartScan,
     Mgr!VisitShard, MgrP!VisitShard,
     Mgr!ReturnBoundary, MgrP!ReturnBoundary, Mgr!UseBoundary, MgrP!UseBoundary,
     Mgr!ShardFor, MgrP!ShardFor, Mgr!MapPut, MgrP!MapPut, Mgr!MapErase, MgrP!MapErase,
     Mgr!IsMin, MgrP!IsMin, Mgr!Larger, MgrP!Larger, Mgr!IdleScan, MgrP!IdleScan,
     Mgr!ScannedPast, MgrP!ScannedPast
<1>2. MgrP!mgrVars = Mgr!mgrVars
  BY DEF MgrP!mgrVars, Mgr!mgrVars
<1>3. [MgrP!Next]_(MgrP!mgrVars)
  BY <1>1, <1>2 DEF MgrP!mgrVars, Mgr!mgrVars
<1> QED
  BY <1>3, MgrP!NextIInv, ShardsAssumption, BoundsAssumption

-------------------------------------------------------------------------------
ObjTypeOK ==
  /\ state \in [TxnId -> States]
  /\ write_set \in [TxnId -> Store!Batch \cup {Empty}]
  /\ commit_version \in [TxnId -> Nat]

\* A transaction is handed to its caller when Begin returns and stays registered
\* while it is active.
Lifecycle ==
  \A t \in TxnId :
    /\ stage[t] \in {"none", "assigned", "placeholder", "read"} <=> state[t] = "none"
    /\ state[t] = "kActive" => stage[t] = "live"

\* The inductive invariant.
TInv == StoreP!IInv /\ MgrP!IInv /\ ObjTypeOK /\ Lifecycle /\ CommitsInLog

\* Transactions and direct writers use the store as VersionStore allows.
LEMMA UsesStore ==
  ASSUME ObjTypeOK, [TxnNext]_txnVars
  PROVE  [Store!Next]_(Store!storeVars)
<1>1. CASE UNCHANGED storeVars
  BY <1>1 DEF storeVars, Store!storeVars
<1>2. CASE DirectWrite
  BY <1>2, DirectAssumption DEF DirectWrite, Store!Next
<1>3. ASSUME NEW t \in TxnId, CommitApply(t) PROVE Store!Next
  <2>1. write_set[t] \in Store!Batch
    BY <1>3 DEF CommitApply, ObjTypeOK
  <2> QED
    BY <1>3, <2>1 DEF CommitApply, Store!ApplyBatchIfNoConflict, Store!Next
<1>4. ASSUME NEW t \in TxnId, TxnStep(t), ~CommitApply(t) PROVE UNCHANGED storeVars
  BY <1>4 DEF TxnStep, BeginStep, BeginReturn, Put, Delete, CommitReadOnly, CommitConflict,
              Abort, EndUnregister, Destroy
<1> QED
  BY <1>1, <1>2, <1>3, <1>4 DEF TxnNext, txnVars

\* They use the registry as TransactionManager allows.
LEMMA UsesRegistry ==
  ASSUME [TxnNext]_txnVars
  PROVE  [Mgr!Next]_(Mgr!mgrVars)
<1>1. CASE UNCHANGED <<storeVars, regVars>>
  BY <1>1 DEF storeVars, regVars, Mgr!mgrVars
<1>2. CASE DirectWrite
  BY <1>2 DEF DirectWrite, Mgr!Next
<1>3. ASSUME NEW t \in TxnId, TxnStep(t) PROVE Mgr!Next \/ UNCHANGED <<storeVars, regVars>>
  BY <1>3 DEF TxnStep, BeginStep, BeginReturn, Put, Delete, CommitReadOnly, CommitConflict,
              CommitApply, Abort, EndUnregister, Destroy, Mgr!Next, Mgr!TxnStep, TxnId
<1> QED
  BY <1>1, <1>2, <1>3 DEF TxnNext, txnVars

\* Any use of the store that VersionStore allows keeps its invariant.
LEMMA StoreKeeps ==
  ASSUME StoreP!IInv, [Store!Next]_(Store!storeVars)
  PROVE  StoreP!IInv'
<1>1. ASSUME NEW k \in Key, NEW v \in Value, Store!Put(k, v) PROVE StoreP!IInv'
  <2>1. StoreP!Put(k, v)
    BY <1>1 DEF Store!Put, StoreP!Put, Store!ApplyBatch, StoreP!ApplyBatch
  <2> QED BY <2>1, StoreP!NextIInv, TombstoneAssumption, BoundsAssumption DEF StoreP!Next
<1>2. ASSUME NEW k \in Key, Store!Delete(k) PROVE StoreP!IInv'
  <2>1. StoreP!Delete(k)
    BY <1>2
    DEF Store!Delete, StoreP!Delete, Store!ApplyBatch, StoreP!ApplyBatch, Store!Get, StoreP!Get
  <2> QED BY <2>1, StoreP!NextIInv, TombstoneAssumption, BoundsAssumption DEF StoreP!Next
<1>3. ASSUME NEW ops \in Store!Batch, Store!ApplyBatch(ops) PROVE StoreP!IInv'
  BY <1>3, StoreApply
<1>4. ASSUME NEW ops \in Store!Batch, NEW s, Store!ApplyBatchIfNoConflict(ops, s) PROVE StoreP!IInv'
  BY <1>4, StoreApply DEF Store!ApplyBatchIfNoConflict
<1>5. ASSUME NEW b \in 0 .. Store!CurrentVersion, Store!CollectGarbage(b) PROVE StoreP!IInv'
  BY <1>5, StoreCollect DEF Store!CurrentVersion
<1>6. CASE UNCHANGED Store!storeVars
  <2>1. UNCHANGED StoreP!storeVars
    BY <1>6 DEF Store!storeVars, StoreP!storeVars
  <2> QED
    BY <2>1, StoreP!NextIInv, TombstoneAssumption, BoundsAssumption
<1> QED
  BY <1>1, <1>2, <1>3, <1>4, <1>5, <1>6 DEF Store!Next

-------------------------------------------------------------------------------
\* What the invariants of the store and of the registry say of the variables that
\* the transactions use.
LEMMA SoundTyping ==
  ASSUME StoreP!Sound, MgrP!IInv
  PROVE  /\ stage \in [TxnId -> Mgr!Stages]
         /\ snapshot \in [TxnId -> 0 .. MaxVersion]
         /\ \A t \in TxnId : stage[t] \in {"read", "live"} => snapshot[t] <= next_version - 1
         /\ \A t \in TxnId \ exposed : stage[t] \in {"read", "live"} => horizon <= snapshot[t]
         /\ next_version \in Nat \ {0} /\ log \in Seq(StoreP!Partial) /\ Len(log) = next_version - 1
         /\ horizon \in Nat
<1>1. StoreP!Shape
  BY DEF StoreP!Sound
<1>2. MgrP!TypeOK /\ MgrP!SnapshotNotAhead /\ MgrP!HorizonSafe
  BY DEF MgrP!IInv
<1> QED
  BY <1>1, <1>2, BoundsAssumption
  DEF StoreP!Shape, StoreP!CurrentVersion, MgrP!TypeOK, MgrP!TxnId, TxnId, Mgr!TxnId, MgrP!Stages,
      Mgr!Stages, MgrP!Version, MgrP!SnapshotNotAhead, MgrP!HorizonSafe, MgrP!Holding

\* Without failures, the log holds whole batches.
LEMMA Typing ==
  ASSUME StoreP!IInv, MgrP!IInv
  PROVE  /\ stage \in [TxnId -> Mgr!Stages]
         /\ snapshot \in [TxnId -> 0 .. MaxVersion]
         /\ \A t \in TxnId : stage[t] \in {"read", "live"} => snapshot[t] <= next_version - 1
         /\ \A t \in TxnId \ exposed : stage[t] \in {"read", "live"} => horizon <= snapshot[t]
         /\ next_version \in Nat \ {0} /\ log \in Seq(Store!Batch) /\ Len(log) = next_version - 1
         /\ horizon \in Nat
<1>1. StoreP!Sound /\ StoreP!TypeOK
  BY DEF StoreP!IInv
<1>2. log \in Seq(Store!Batch)
  BY <1>1, SameBatch DEF StoreP!TypeOK
<1> QED
  BY <1>1, <1>2, SoundTyping

\* A buffered write concerns an active transaction, so no committed one.
LEMMA BufferStep ==
  ASSUME TInv, NEW t \in TxnId, NEW k \in Key, NEW x \in Store!Cell, Usable(t),
         write_set' = [write_set EXCEPT ![t] = Mgr!MapPut(@, k, x)],
         UNCHANGED <<state, commit_version, stage, log>>
  PROVE  ObjTypeOK' /\ Lifecycle' /\ CommitsInLog'
<1> DEFINE new == Mgr!MapPut(write_set[t], k, x)
<1>1. new \in Store!Batch
  <2>1. CASE write_set[t] \in Store!Batch
    <3>1. PICK D \in (SUBSET Key) \ {{}} : write_set[t] \in [D -> Store!Cell]
      BY <2>1 DEF Store!Batch
    <3>2. new \in [D \cup {k} -> Store!Cell] /\ D \cup {k} \in (SUBSET Key) \ {{}}
      BY <3>1 DEF Mgr!MapPut
    <3> QED
      BY <3>2 DEF Store!Batch
  <2>2. CASE write_set[t] = Empty
    <3>1. new \in [{k} -> Store!Cell] /\ {k} \in (SUBSET Key) \ {{}}
      BY <2>2 DEF Mgr!MapPut, Empty
    <3> QED
      BY <3>1 DEF Store!Batch
  <2> QED
    BY <2>1, <2>2 DEF TInv, ObjTypeOK
<1> HIDE DEF new
<1>2. write_set' = [write_set EXCEPT ![t] = new]
  BY DEF new
<1>3. ObjTypeOK'
  BY <1>1, <1>2 DEF ObjTypeOK, TInv
<1>4. Lifecycle'
  BY DEF Lifecycle, TInv
<1>5. CommitsInLog'
  BY <1>2 DEF CommitsInLog, TInv, ObjTypeOK, Usable
<1> QED
  BY <1>3, <1>4, <1>5

\* Begin's steps.
LEMMA BeginKeeps ==
  ASSUME TInv, NEW t \in TxnId, BeginStep(t) \/ BeginReturn(t)
  PROVE  ObjTypeOK' /\ Lifecycle' /\ CommitsInLog'
<1> USE DEF TInv
<1>1. ObjTypeOK'
  BY DEF ObjTypeOK, BeginStep, BeginReturn, objVars, States
<1>2. Lifecycle'
  BY Typing DEF Lifecycle, BeginStep, BeginReturn, objVars, ObjTypeOK, Mgr!AssignId,
     Mgr!RegisterPlaceholder, Mgr!ReadSnapshot, Mgr!RefineSnapshot
<1>3. CommitsInLog'
  BY DEF CommitsInLog, BeginStep, BeginReturn, objVars, ObjTypeOK, storeVars
<1> QED
  BY <1>1, <1>2, <1>3

\* Steps that end a transaction without writing.
LEMMA EndKeeps ==
  ASSUME TInv, NEW t \in TxnId,
         \/ CommitReadOnly(t) \/ CommitConflict(t) \/ Abort(t) \/ EndUnregister(t) \/ Destroy(t)
  PROVE  ObjTypeOK' /\ Lifecycle' /\ CommitsInLog'
<1> USE DEF TInv
<1>0. snapshot[t] \in Nat
  BY Typing, BoundsAssumption
<1>1. ObjTypeOK'
  BY <1>0 DEF ObjTypeOK, CommitReadOnly, CommitConflict, Abort, EndUnregister, Destroy, objVars,
     States
<1>2. Lifecycle'
  BY Typing DEF Lifecycle, CommitReadOnly, CommitConflict, Abort, EndUnregister, Destroy, objVars,
     regVars, ObjTypeOK, Mgr!Unregister, Usable
<1>3. CommitsInLog'
  BY DEF CommitsInLog, CommitReadOnly, CommitConflict, Abort, EndUnregister, Destroy, objVars,
     storeVars, ObjTypeOK, Usable
<1> QED
  BY <1>1, <1>2, <1>3

\* A commit puts its buffer at the end of the log, at a version nobody has reported.
LEMMA CommitKeeps ==
  ASSUME TInv, NEW t \in TxnId, CommitApply(t)
  PROVE  ObjTypeOK' /\ Lifecycle' /\ CommitsInLog'
<1> USE DEF TInv
<1>0. /\ log' = Append(log, write_set[t]) /\ Len(log) = next_version - 1
      /\ log \in Seq(Store!Batch) /\ write_set[t] \in Store!Batch
      /\ Len(log') = next_version /\ next_version \in Nat
      /\ \A i \in 1 .. Len(log) : log'[i] = log[i]
      /\ log'[next_version] = write_set[t]
  BY Typing DEF CommitApply, Store!ApplyBatchIfNoConflict, Store!ApplyBatch, ObjTypeOK
<1>1. ObjTypeOK'
  BY <1>0 DEF ObjTypeOK, CommitApply, States
<1>2. Lifecycle'
  BY Typing DEF Lifecycle, CommitApply, ObjTypeOK, Mgr!StoreWrite, Usable
<1>3. CommitsInLog'
  BY <1>0 DEF CommitsInLog, CommitApply, ObjTypeOK, Usable
<1> QED
  BY <1>1, <1>2, <1>3

\* A direct writer only adds to the log.
LEMMA DirectKeeps ==
  ASSUME TInv, DirectWrite
  PROVE  ObjTypeOK' /\ Lifecycle' /\ CommitsInLog'
<1> USE DEF TInv
<1>0. PICK ops : log' = Append(log, ops)
  BY DEF DirectWrite, Store!Put, Store!Delete, Store!ApplyBatch
<1>1. /\ Len(log') = Len(log) + 1 /\ Len(log) \in Nat
      /\ \A i \in 1 .. Len(log) : log'[i] = log[i]
  BY <1>0, Typing
<1>2. UNCHANGED <<stage, objVars>>
  BY DEF DirectWrite, Mgr!StoreWrite
<1> QED
  BY <1>1, <1>2 DEF ObjTypeOK, Lifecycle, CommitsInLog, objVars

\* The inductive invariant holds initially.
LEMMA InitTInv == Init => TInv
<1> SUFFICES ASSUME Init PROVE TInv
  OBVIOUS
<1>1. StoreP!IInv
  BY StoreInit DEF Init
<1>2. MgrP!IInv
  BY MgrInit DEF Init
<1>3. ObjTypeOK /\ Lifecycle /\ CommitsInLog
  BY DEF Init, ObjTypeOK, Lifecycle, CommitsInLog, States, Mgr!Init, TxnId
<1> QED
  BY <1>1, <1>2, <1>3 DEF TInv

\* And every step of a transaction or a direct writer preserves it.
LEMMA NextTInv == TInv /\ [TxnNext]_txnVars => TInv'
<1> SUFFICES ASSUME TInv, [TxnNext]_txnVars PROVE TInv'
  OBVIOUS
<1>1. StoreP!IInv'
  BY UsesStore, StoreKeeps DEF TInv
<1>2. MgrP!IInv'
  BY UsesRegistry, MgrStep DEF TInv
<1>3. ObjTypeOK' /\ Lifecycle' /\ CommitsInLog'
  <2>1. ASSUME NEW t \in TxnId, NEW k \in Key, NEW v \in Value, Put(t, k, v)
        PROVE  ObjTypeOK' /\ Lifecycle' /\ CommitsInLog'
    BY <2>1, BufferStep DEF Put, storeVars, regVars, Store!Cell
  <2>2. ASSUME NEW t \in TxnId, NEW k \in Key, Delete(t, k)
        PROVE  ObjTypeOK' /\ Lifecycle' /\ CommitsInLog'
    BY <2>2, BufferStep DEF Delete, storeVars, regVars, Store!Cell
  <2>3. CASE UNCHANGED txnVars
    BY <2>3 DEF txnVars, storeVars, regVars, objVars, TInv, ObjTypeOK, Lifecycle, CommitsInLog
  <2> QED
    BY <2>1, <2>2, <2>3, BeginKeeps, EndKeeps, CommitKeeps, DirectKeeps DEF TxnNext, TxnStep
<1> QED
  BY <1>1, <1>2, <1>3 DEF TInv

\* So it always holds.
LEMMA TxnTInv == TxnSpec => []TInv
BY InitTInv, NextTInv, PTL DEF TxnSpec

-------------------------------------------------------------------------------
(* The part of TInv that also holds when batches land in part and a         *)
(* transaction is registered without ever being handed out.                 *)

\* What a transaction buffers, and what may land of it.
Buffers == UNION {[D -> Store!Cell] : D \in SUBSET Key}

ObjShape ==
  /\ state \in [TxnId -> States]
  /\ write_set \in [TxnId -> Buffers]
  /\ commit_version \in [TxnId -> Nat]

\* A transaction somebody was handed has been through Begin.
HandedOut == \A t \in TxnId : state[t] # "none" => stage[t] \in {"live", "gone"}

Upheld == StoreP!Sound /\ MgrP!IInv /\ ObjShape /\ HandedOut /\ CommitsInLog

\* They are what the store may be left with.
LEMMA SameBuffers == Buffers = StoreP!Partial
BY DEF Buffers, StoreP!Partial, Store!Cell, StoreP!Cell

\* It is a part indeed.
LEMMA TInvUpheld == TInv => Upheld
<1> SUFFICES ASSUME TInv PROVE Upheld
  OBVIOUS
<1>1. StoreP!Sound /\ MgrP!IInv /\ CommitsInLog /\ stage \in [TxnId -> Mgr!Stages]
  BY Typing DEF TInv, StoreP!IInv
<1>2. Store!Batch \cup {Empty} \subseteq Buffers
  <2>1. Empty \in [{} -> Store!Cell]
    BY DEF Empty
  <2> QED
    BY <2>1 DEF Buffers, Store!Batch
<1>3. ObjShape
  BY <1>2 DEF TInv, ObjTypeOK, ObjShape
<1>4. HandedOut
  BY <1>1 DEF TInv, Lifecycle, HandedOut, Mgr!Stages
<1> QED
  BY <1>1, <1>3, <1>4 DEF Upheld

\* The log only grows.
Grows ==
  /\ Len(log) \in Nat /\ Len(log') \in Nat /\ Len(log) <= Len(log')
  /\ \A i \in 1 .. Len(log) : log'[i] = log[i]

\* That is so if a step adds a batch to it, or nothing.
LEMMA Grown ==
  ASSUME Upheld, log' = log \/ \E ops : log' = Append(log, ops)
  PROVE  Grows
<1>1. log \in Seq(StoreP!Partial)
  BY SoundTyping DEF Upheld
<1> QED
  BY <1>1 DEF Grows

\* The store never rewrites its log.
LEMMA LogGrows ==
  ASSUME TInv, [Store!Next]_(Store!storeVars)
  PROVE  Grows
<1>1. log' = log \/ \E ops : log' = Append(log, ops)
  BY DEF Store!Next, Store!Put, Store!Delete, Store!ApplyBatchIfNoConflict, Store!ApplyBatch,
     Store!CollectGarbage, Store!storeVars
<1> QED
  BY <1>1, Grown, TInvUpheld

\* A transaction's step leaves every other transaction alone.
LEMMA OthersUntouched ==
  ASSUME TInv, NEW t \in TxnId, TxnStep(t), NEW u \in TxnId, u # t
  PROVE  UNCHANGED <<stage[u], state[u], snapshot[u], write_set[u]>>
<1> USE DEF TInv, ObjTypeOK
<1>0. snapshot \in [TxnId -> 0 .. MaxVersion] /\ stage \in [TxnId -> Mgr!Stages]
  BY Typing
<1>1. CASE BeginStep(t) \/ BeginReturn(t)
  BY <1>0, <1>1 DEF BeginStep, BeginReturn, objVars, Mgr!AssignId, Mgr!RegisterPlaceholder,
     Mgr!ReadSnapshot, Mgr!RefineSnapshot
<1>2. ASSUME NEW k \in Key, Delete(t, k) \/ \E v \in Value : Put(t, k, v)
      PROVE  UNCHANGED <<stage[u], state[u], snapshot[u], write_set[u]>>
  BY <1>2 DEF Delete, Put, regVars
<1>3. CASE \/ CommitReadOnly(t) \/ CommitApply(t) \/ CommitConflict(t)
           \/ Abort(t) \/ EndUnregister(t) \/ Destroy(t)
  BY <1>0, <1>3 DEF CommitReadOnly, CommitApply, CommitConflict, Abort, EndUnregister, Destroy,
     objVars, regVars, Mgr!StoreWrite, Mgr!Unregister
<1> QED
  BY <1>1, <1>2, <1>3 DEF TxnStep

-------------------------------------------------------------------------------
\* Every acknowledged commit is whole in the log at the version reported, which no other
\* transaction was told (transaction.cpp:140-145).
THEOREM CommitsCorrect == TxnSpec => []CommitsInLog
<1>1. TInv => CommitsInLog
  BY DEF TInv
<1> QED
  BY <1>1, TxnTInv, PTL

\* The two ways to say what version s shows.
LEMMA SameAsOf ==
  ASSUME NEW k, NEW s \in Nat, Len(log) \in Nat, s <= Len(log)
  PROVE  Store!LogAsOf(k, s) = SI!AsOf(k, s)
<1>1. Store!Writes(k, s) = {i \in 1 .. s : k \in DOMAIN log[i]}
  BY DEF Store!Writes
<1> QED
  BY <1>1 DEF Store!LogAsOf, SI!AsOf

\* The store answers from its version histories what the log prescribes, because no
\* snapshot in use is below the horizon.
LEMMA UpheldObservations == Upheld => ObservationsMatchSI
<1> SUFFICES ASSUME Upheld, NEW t \in TxnId \ exposed, Usable(t)
             PROVE  /\ \A k \in Key : Get(t, k) = SI!Sees(t, k)
                    /\ Store!Conflicts(write_set[t], snapshot[t]) = SI!Overwritten(t)
  BY DEF ObservationsMatchSI
<1>1. /\ snapshot[t] \in Nat /\ snapshot[t] <= MaxVersion
      /\ horizon \in Nat /\ horizon <= snapshot[t]
      /\ snapshot[t] <= next_version - 1 /\ Len(log) = next_version - 1 /\ Len(log) \in Nat
      /\ next_version \in Nat /\ MaxVersion \in Nat
  BY SoundTyping, BoundsAssumption DEF Upheld, Usable
<1>2. Store!VisibleAboveHorizon /\ Store!ConflictCheckExact
  BY StoreReads DEF Upheld
<1>3. ASSUME NEW k \in Key PROVE Get(t, k) = SI!Sees(t, k)
  <2>1. Store!GetAsOf(k, snapshot[t]) = Store!LogAsOf(k, snapshot[t])
    BY <1>1, <1>2 DEF Store!VisibleAboveHorizon
  <2>2. Store!LogAsOf(k, snapshot[t]) = SI!AsOf(k, snapshot[t])
    BY <1>1, SameAsOf
  <2> QED
    BY <2>1, <2>2 DEF Get, SI!Sees
<1>4. DOMAIN write_set[t] \subseteq Key
  BY DEF Upheld, ObjShape, Buffers
<1>5. ASSUME NEW k \in DOMAIN write_set[t]
      PROVE  Store!LatestVersion(k) > snapshot[t]
               <=> \E i \in snapshot[t] + 1 .. Len(log) : k \in DOMAIN log[i]
  BY <1>1, <1>2, <1>4 DEF Store!ConflictCheckExact, Store!CurrentVersion
<1> QED
  BY <1>3, <1>5 DEF Store!Conflicts, SI!Overwritten

\* So it is without failures.
LEMMA TInvObservations == TInv => ObservationsMatchSI
BY TInvUpheld, UpheldObservations

\* At any time Get would answer each active transaction what snapshot isolation prescribes,
\* and Commit refuse it for exactly the keys others wrote since its snapshot
\* (transaction.cpp:33-50, 125-138).
THEOREM ObservationsCorrect == TxnSpec => []ObservationsMatchSI
BY TxnTInv, TInvObservations, PTL

-------------------------------------------------------------------------------
\* The state SnapshotIsolation sees a transaction in.
Shown == [t \in TxnId |-> IF stage[t] = "read" THEN "kActive" ELSE state[t]]

\* What a step changes of a transaction is enough to know how Shown changes.
LEMMA ShownStep ==
  ASSUME TInv, NEW t \in TxnId, NEW s, state' = [state EXCEPT ![t] = s],
         stage[t] = "live", stage' \in {stage, [stage EXCEPT ![t] = "gone"]}
  PROVE  Shown' = [Shown EXCEPT ![t] = s] /\ Shown[t] = state[t]
<1>1. /\ state \in [TxnId -> States]
      /\ stage \in [TxnId -> Mgr!Stages]
  BY Typing DEF TInv, ObjTypeOK
<1>2. stage'[t] # "read" /\ state'[t] = s
  BY <1>1
<1>3. \A u \in TxnId : u # t => stage'[u] = stage[u] /\ state'[u] = state[u]
  BY <1>1
<1> QED
  BY <1>2, <1>3 DEF Shown

\* The transaction begins when Begin reads the current version.
LEMMA BeginSimulates ==
  ASSUME TInv, NEW t \in TxnId, BeginStep(t) \/ BeginReturn(t)
  PROVE  SI!Next \/ UNCHANGED SI!siVars
<1>1. /\ state \in [TxnId -> States]
      /\ stage \in [TxnId -> Mgr!Stages]
      /\ \A u \in TxnId : stage[u] \in {"none", "assigned", "placeholder", "read"}
            => state[u] = "none"
      /\ Len(log) = next_version - 1
  BY Typing DEF TInv, ObjTypeOK, Lifecycle
<1>2. CASE Mgr!AssignId(t) \/ Mgr!RegisterPlaceholder(t)
  <2>1. UNCHANGED <<log, snapshot, objVars>>
    BY <1>2 DEF BeginStep, BeginReturn, storeVars, Mgr!AssignId, Mgr!RegisterPlaceholder,
      Mgr!RefineSnapshot
  <2>2. Shown' = Shown
    BY <1>1, <1>2, <2>1 DEF Shown, Mgr!AssignId, Mgr!RegisterPlaceholder, objVars
  <2> QED
    BY <2>1, <2>2 DEF SI!siVars, Shown, objVars
<1>3. CASE BeginStep(t) /\ Mgr!ReadSnapshot(t)
  <2>1. /\ UNCHANGED <<log, objVars>> /\ stage[t] = "placeholder"
        /\ stage' = [stage EXCEPT ![t] = "read"]
        /\ snapshot' = [snapshot EXCEPT ![t] = Len(log)]
    BY <1>1, <1>3 DEF BeginStep, storeVars, Mgr!ReadSnapshot
  <2>2. Shown[t] = "none" /\ Shown' = [Shown EXCEPT ![t] = "kActive"]
    BY <1>1, <2>1 DEF Shown, objVars
  <2>3. SI!Begin(t)
    BY <2>1, <2>2 DEF SI!Begin, Shown, objVars
  <2> QED
    BY <2>3 DEF SI!Next
<1>4. CASE BeginReturn(t)
  <2>1. /\ UNCHANGED <<log, snapshot, write_set, conflicting_keys>> /\ stage[t] = "read"
        /\ stage' = [stage EXCEPT ![t] = "live"]
        /\ state' = [state EXCEPT ![t] = "kActive"]
    BY <1>4 DEF BeginReturn, storeVars, Mgr!RefineSnapshot
  <2>2. Shown' = Shown
    BY <1>1, <2>1 DEF Shown
  <2> QED
    BY <2>1, <2>2 DEF SI!siVars, Shown
<1> QED
  BY <1>2, <1>3, <1>4 DEF BeginStep

\* Put and Delete are Write.
LEMMA BufferSimulates ==
  ASSUME TInv, NEW t \in TxnId \ exposed, NEW k \in Key, NEW x \in Store!Cell, Usable(t),
         x = Tombstone => Get(t, k) # Tombstone,
         write_set' = [write_set EXCEPT ![t] = Mgr!MapPut(@, k, x)],
         UNCHANGED <<state, stage, snapshot, log, conflicting_keys>>
  PROVE  SI!Next
<1>1. x = Tombstone => SI!Sees(t, k) # Tombstone
  BY TInvObservations DEF ObservationsMatchSI
<1>2. Shown' = Shown /\ Shown[t] = "kActive"
  BY DEF Shown, Usable
<1>3. SI!Write(t, k, x)
  BY <1>1, <1>2 DEF SI!Write, Shown, Mgr!MapPut
<1>4. x \in SI!Cell
  BY DEF SI!Cell, Store!Cell
<1> QED
  BY <1>3, <1>4 DEF SI!Next

\* A commit is Commit or Conflict, on the same grounds.
LEMMA EndSimulates ==
  ASSUME TInv, NEW t \in TxnId \ exposed,
         CommitReadOnly(t) \/ CommitApply(t) \/ CommitConflict(t)
  PROVE  SI!Next
<1>1. Usable(t) /\ stage[t] = "live" /\ state[t] = "kActive"
  BY DEF CommitReadOnly, CommitApply, CommitConflict, Usable
<1>2. /\ Store!Conflicts(write_set[t], snapshot[t]) = SI!Overwritten(t)
      /\ UNCHANGED <<snapshot, stage>>
  BY <1>1, TInvObservations
  DEF ObservationsMatchSI, CommitReadOnly, CommitApply, CommitConflict, regVars, Mgr!StoreWrite
<1>3. CASE CommitReadOnly(t)
  <2>1. SI!Overwritten(t) = {}
    BY <1>2, <1>3 DEF CommitReadOnly, SI!Overwritten, Empty
  <2>2. Shown' = [Shown EXCEPT ![t] = "kCommitted"] /\ Shown[t] = "kActive"
    BY <1>1, <1>2, <1>3, ShownStep DEF CommitReadOnly
  <2>3. SI!Commit(t)
    BY <1>2, <1>3, <2>1, <2>2 DEF CommitReadOnly, SI!Commit, Shown, SI!Empty, Empty, storeVars
  <2> QED
    BY <2>3 DEF SI!Next
<1>4. CASE CommitApply(t)
  <2>1. SI!Overwritten(t) = {} /\ log' = Append(log, write_set[t])
    BY <1>2, <1>4 DEF CommitApply, Store!ApplyBatchIfNoConflict, Store!ApplyBatch
  <2>2. Shown' = [Shown EXCEPT ![t] = "kCommitted"] /\ Shown[t] = "kActive"
    BY <1>1, <1>2, <1>4, ShownStep DEF CommitApply
  <2>3. SI!Commit(t)
    BY <1>2, <1>4, <2>1, <2>2 DEF CommitApply, SI!Commit, Shown, SI!Empty, Empty
  <2> QED
    BY <2>3 DEF SI!Next
<1>5. CASE CommitConflict(t)
  <2>2. Shown' = [Shown EXCEPT ![t] = "kAborted"] /\ Shown[t] = "kActive"
    BY <1>1, <1>2, <1>5, ShownStep DEF CommitConflict
  <2>3. SI!Conflict(t)
    BY <1>2, <1>5, <2>2 DEF CommitConflict, SI!Conflict, Shown, SI!Empty, Empty, storeVars
  <2> QED
    BY <2>3 DEF SI!Next
<1> QED
  BY <1>3, <1>4, <1>5

\* Abort and the destructor discard the buffer; Unregister is invisible.
LEMMA DiscardSimulates ==
  ASSUME TInv, NEW t \in TxnId, Abort(t) \/ Destroy(t) \/ EndUnregister(t)
  PROVE  SI!Next \/ UNCHANGED SI!siVars
<1>1. CASE Abort(t)
  <2>1. Shown' = [Shown EXCEPT ![t] = "kAborted"] /\ Shown[t] = "kActive"
    BY <1>1, ShownStep DEF Abort, Usable, regVars
  <2>2. SI!Abort(t)
    BY <1>1, <2>1 DEF Abort, SI!Abort, Shown, SI!Empty, Empty, storeVars, regVars
  <2> QED
    BY <2>2 DEF SI!Next
<1>2. CASE Destroy(t)
  <2>1. Shown' = [Shown EXCEPT ![t] = "dropped"] /\ Shown[t] = "kActive"
    BY <1>2, ShownStep DEF Destroy, Usable, Mgr!Unregister
  <2>2. SI!Drop(t)
    BY <1>2, <2>1 DEF Destroy, SI!Drop, Shown, SI!Empty, Empty, storeVars, Mgr!Unregister
  <2> QED
    BY <2>2 DEF SI!Next
<1>3. CASE EndUnregister(t)
  <2>1. stage \in [TxnId -> Mgr!Stages]
    BY Typing DEF TInv
  <2>2. Shown' = Shown
    BY <1>3, <2>1 DEF EndUnregister, Mgr!Unregister, Shown, objVars
  <2> QED
    BY <1>3, <2>2 DEF EndUnregister, Mgr!Unregister, Shown, objVars, SI!siVars, storeVars
<1> QED
  BY <1>1, <1>2, <1>3

\* A direct write is a batch, of one key unless it is an ApplyBatch.
LEMMA DirectSimulates ==
  ASSUME DirectWrite
  PROVE  SI!Next
<1>1. PICK ops \in SI!Batch : log' = Append(log, ops)
  <2>1. ASSUME NEW k \in Key, NEW v \in SI!Cell PROVE [x \in {k} |-> v] \in SI!Batch
    <3>1. {k} \in (SUBSET Key) \ {{}} /\ [x \in {k} |-> v] \in [{k} -> SI!Cell]
      OBVIOUS
    <3> QED
      BY <3>1 DEF SI!Batch
  <2>2. Tombstone \in SI!Cell /\ Value \subseteq SI!Cell
    BY DEF SI!Cell
  <2>3. DirectBatch \subseteq SI!Batch
    BY DirectAssumption DEF Store!Batch, Store!Cell, SI!Batch, SI!Cell
  <2> QED
    BY <2>1, <2>2, <2>3 DEF DirectWrite, Store!Put, Store!Delete, Store!ApplyBatch
<1>2. SI!DirectWrite
  BY <1>1 DEF SI!DirectWrite, DirectWrite, Mgr!StoreWrite, objVars
<1> QED
  BY <1>2 DEF SI!Next

\* A transaction overlooked by a scan did something.
Overlooked == \E t \in exposed : state'[t] # state[t] \/ write_set'[t] # write_set[t]

\* Every other step is one of SnapshotIsolation or invisible to it.
LEMMA StepSimulates ==
  ASSUME TInv, [TxnNext]_txnVars
  PROVE  SI!Next \/ UNCHANGED SI!siVars \/ Overlooked
<1>1. ASSUME NEW t \in TxnId \ exposed, NEW k \in Key, NEW v \in Value, Put(t, k, v)
      PROVE  SI!Next
  BY <1>1, BufferSimulates, TombstoneAssumption DEF Put, storeVars, regVars, Store!Cell
<1>2. ASSUME NEW t \in TxnId \ exposed, NEW k \in Key, Delete(t, k)
      PROVE  SI!Next
  BY <1>2, BufferSimulates DEF Delete, storeVars, regVars, Store!Cell
<1>3. ASSUME NEW t \in exposed, t \in TxnId, NEW k \in Key,
             Delete(t, k) \/ \E v \in Value : Put(t, k, v)
      PROVE  UNCHANGED SI!siVars \/ Overlooked
  <2>1. CASE write_set'[t] # write_set[t]
    BY <2>1 DEF Overlooked
  <2>2. CASE write_set'[t] = write_set[t]
    <3>1. write_set' = write_set
      BY <1>3, <2>2 DEF Put, Delete, TInv, ObjTypeOK
    <3> QED
      BY <1>3, <3>1 DEF Put, Delete, SI!siVars, storeVars, regVars
  <2> QED
    BY <2>1, <2>2
<1>4. ASSUME NEW t \in exposed, t \in TxnId,
             CommitReadOnly(t) \/ CommitApply(t) \/ CommitConflict(t)
      PROVE  Overlooked
  BY <1>4 DEF CommitReadOnly, CommitApply, CommitConflict, Usable, Overlooked, TInv, ObjTypeOK
<1>5. CASE UNCHANGED txnVars
  BY <1>5 DEF txnVars, storeVars, regVars, objVars, SI!siVars
<1> QED
  BY <1>1, <1>2, <1>3, <1>4, <1>5, BeginSimulates, EndSimulates, DiscardSimulates,
     DirectSimulates DEF TxnNext, TxnStep

\* The initial states correspond.
LEMMA InitSimulates == Init => SI!Init
<1> SUFFICES ASSUME Init PROVE SI!Init
  OBVIOUS
<1> QED
  BY DEF Init, Store!Init, Mgr!Init, SI!Init, Empty, SI!Empty, TxnId

\* Only a scan can overlook a transaction.
LEMMA ExposedKept ==
  ASSUME [TxnNext]_txnVars
  PROVE  exposed' = exposed
BY DEF TxnNext, TxnStep, DirectWrite, BeginStep, BeginReturn, Put, Delete, CommitReadOnly,
     CommitApply, CommitConflict, Abort, EndUnregister, Destroy, txnVars, regVars, Mgr!AssignId,
     Mgr!RegisterPlaceholder, Mgr!ReadSnapshot, Mgr!RefineSnapshot, Mgr!Unregister, Mgr!StoreWrite

\* Without a collector nothing is ever overlooked.
LEMMA NoneExposed == TxnSpec => [](exposed = {})
<1>1. Init => exposed = {}
  BY DEF Init, Mgr!Init
<1>2. exposed = {} /\ [TxnNext]_txnVars => (exposed = {})'
  BY ExposedKept
<1> QED
  BY <1>1, <1>2, PTL DEF TxnSpec

\* Transactions over the store and the registry implement snapshot isolation, for every
\* interleaving of Begin's steps, buffered calls, commits, direct writers and destructors
\* (transaction.h:21-67): every step is one of SnapshotIsolation's or invisible to it.
THEOREM TransactionsImplementSI == TxnSpec => ImplementsSI
<1>1. TInv /\ exposed = {} /\ [TxnNext]_txnVars => [SI!Next]_(SI!siVars)
  BY StepSimulates DEF Overlooked
<1> QED
  BY <1>1, InitSimulates, NoneExposed, TxnTInv, PTL DEF TxnSpec, ImplementsSI, SI!Spec

===============================================================================
