----------------------- MODULE TransactionManagerProofs -----------------------
(***************************************************************************)
(* Proofs about the active-snapshot registry, for any number of shards,    *)
(* transactions, versions and scanners.                                    *)
(***************************************************************************)
EXTENDS TransactionManager, TLAPS

\* A snapshot was the store's version when it was read.
SnapshotNotAhead == \A t \in Holding : snapshot[t] <= version

HorizonNotAhead == horizon <= version

\* What a scan in progress knows of a transaction t that is registered in a
\* shard it has left: unless t registered behind its back, it has seen t, at
\* its placeholder or at its snapshot.
Covered(c, t) ==
  /\ scan[c].any_active
  /\ stage[t] = "placeholder" => scan[c].oldest = 0
  /\ t \in Holding => scan[c].oldest <= snapshot[t]

ScanProgress ==
  \A c \in Scanner : scan[c].pc = "scan" =>
    /\ scan[c].any_active => scan[c].oldest <= version
    /\ ~ scan[c].any_active => scan[c].oldest = UInt64Max
    /\ \A t \in TxnId \ scan[c].missed :
         stage[t] \in Registered /\ ShardFor(t) < scan[c].at => Covered(c, t)

\* The inductive invariant.
IInv ==
  /\ TypeOK
  /\ RegistryExact
  /\ SnapshotNotAhead
  /\ HorizonNotAhead
  /\ ScanProgress
  /\ BoundaryNotAhead
  /\ BoundarySafe
  /\ HorizonSafe

-------------------------------------------------------------------------------
\* A transaction id hashes to one of the shards.
LEMMA ShardForInShard == \A t \in TxnId : ShardFor(t) \in Shard
BY ShardsAssumption, BoundsAssumption DEF TxnId, ShardFor, Shard

\* The empty registry satisfies the invariant.
LEMMA InitIInv == Init => IInv
<1> SUFFICES ASSUME Init PROVE IInv
  OBVIOUS
<1> USE DEF Init
<1>1. TypeOK
  BY ShardsAssumption, BoundsAssumption
  DEF TypeOK, TxnId, Shard, Version, Stages, ScanRecord, IdleScan
<1>2. RegistryExact
  BY DEF RegistryExact, Registered
<1>3. SnapshotNotAhead /\ HorizonNotAhead /\ HorizonSafe
  BY DEF SnapshotNotAhead, HorizonNotAhead, HorizonSafe, Holding
<1>4. ScanProgress /\ BoundaryNotAhead /\ BoundarySafe
  BY DEF ScanProgress, BoundaryNotAhead, BoundarySafe, IdleScan
<1> QED
  BY <1>1, <1>2, <1>3, <1>4 DEF IInv

\* Taking an id changes nothing a scan or a boundary depends on.
LEMMA AssignIdStep ==
  ASSUME IInv, NEW t \in TxnId, AssignId(t)
  PROVE  IInv'
<1> USE DEF IInv, AssignId
<1>1. TypeOK'
  BY BoundsAssumption DEF TypeOK, TxnId, Stages
<1>2. RegistryExact'
  BY DEF RegistryExact, Registered, TypeOK
<1>3. SnapshotNotAhead' /\ HorizonNotAhead' /\ HorizonSafe'
  BY DEF SnapshotNotAhead, HorizonNotAhead, HorizonSafe, Holding, TypeOK
<1>4. ScanProgress'
  BY DEF ScanProgress, Covered, Holding, Registered, TypeOK
<1>5. BoundaryNotAhead' /\ BoundarySafe'
  BY DEF BoundaryNotAhead, BoundarySafe, Holding, TypeOK
<1> QED
  BY <1>1, <1>2, <1>3, <1>4, <1>5 DEF IInv

\* Registering a placeholder: a scan that has left the shard records the miss.
LEMMA RegisterPlaceholderStep ==
  ASSUME IInv, NEW t \in TxnId, RegisterPlaceholder(t)
  PROVE  IInv'
<1> USE DEF IInv, RegisterPlaceholder
<1>s. ShardFor(t) \in Shard
  BY ShardForInShard
<1>t. TypeOK
  OBVIOUS
<1>0. \A c \in Scanner : /\ scan'[c].pc = scan[c].pc
                         /\ scan'[c].at = scan[c].at
                         /\ scan'[c].any_active = scan[c].any_active
                         /\ scan'[c].oldest = scan[c].oldest
                         /\ scan[c].missed \subseteq scan'[c].missed
                         /\ c \in ScannedPast(t) => t \in scan'[c].missed
  BY DEF TypeOK, ScanRecord
<1>1. TypeOK'
  <2>1. scan' \in [Scanner -> ScanRecord]
    BY <1>t DEF TypeOK, ScanRecord
  <2>2. /\ DOMAIN shards' = Shard
        /\ \A s \in Shard : /\ DOMAIN shards'[s] \subseteq TxnId
                             /\ shards'[s] \in [DOMAIN shards'[s] -> Version]
    BY <1>t, <1>s, BoundsAssumption DEF TypeOK, MapPut, Version
  <2>3. stage' \in [TxnId -> Stages]
    BY <1>t DEF TypeOK, Stages
  <2> QED
    BY <1>t, <2>1, <2>2, <2>3 DEF TypeOK
<1>2. RegistryExact'
  BY <1>s DEF RegistryExact, Registered, TypeOK, MapPut
<1>3. SnapshotNotAhead' /\ HorizonNotAhead' /\ HorizonSafe'
  BY DEF SnapshotNotAhead, HorizonNotAhead, HorizonSafe, Holding, TypeOK
<1>4. ScanProgress'
  BY <1>0 DEF ScanProgress, ScannedPast, Covered, Holding, Registered, TypeOK
<1>5. BoundaryNotAhead' /\ BoundarySafe'
  BY <1>0 DEF BoundaryNotAhead, BoundarySafe, Holding, TypeOK
<1> QED
  BY <1>1, <1>2, <1>3, <1>4, <1>5 DEF IInv

\* Reading the version: a scan that saw the placeholder holds oldest = 0, and
\* every boundary and the horizon are at most the version just read.
LEMMA ReadSnapshotStep ==
  ASSUME IInv, NEW t \in TxnId, ReadSnapshot(t)
  PROVE  IInv'
<1> USE DEF IInv, ReadSnapshot
<1>1. TypeOK'
  BY DEF TypeOK, Stages
<1>2. RegistryExact'
  BY DEF RegistryExact, Registered, TypeOK
<1>3. SnapshotNotAhead' /\ HorizonNotAhead' /\ HorizonSafe'
  BY BoundsAssumption
  DEF SnapshotNotAhead, HorizonNotAhead, HorizonSafe, Holding, TypeOK, Version
<1>4. ScanProgress'
  BY BoundsAssumption
  DEF ScanProgress, Covered, Holding, Registered, TypeOK, Version, ScanRecord
<1>5. BoundaryNotAhead' /\ BoundarySafe'
  BY BoundsAssumption DEF BoundaryNotAhead, BoundarySafe, Holding, TypeOK
<1> QED
  BY <1>1, <1>2, <1>3, <1>4, <1>5 DEF IInv

\* Refining the placeholder to the snapshot already held.
LEMMA RefineSnapshotStep ==
  ASSUME IInv, NEW t \in TxnId, RefineSnapshot(t)
  PROVE  IInv'
<1> USE DEF IInv, RefineSnapshot
<1>s. ShardFor(t) \in Shard
  BY ShardForInShard
<1>1. TypeOK'
  <2>1. /\ DOMAIN shards' = Shard
        /\ \A s \in Shard : /\ DOMAIN shards'[s] \subseteq TxnId
                             /\ shards'[s] \in [DOMAIN shards'[s] -> Version]
    BY <1>s DEF TypeOK, MapPut
  <2> QED
    BY <2>1 DEF TypeOK, Stages
<1>2. RegistryExact'
  BY <1>s DEF RegistryExact, Registered, TypeOK, MapPut
<1>3. SnapshotNotAhead' /\ HorizonNotAhead' /\ HorizonSafe'
  BY DEF SnapshotNotAhead, HorizonNotAhead, HorizonSafe, Holding, TypeOK
<1>4. ScanProgress'
  BY DEF ScanProgress, Covered, Holding, Registered, TypeOK
<1>5. BoundaryNotAhead' /\ BoundarySafe'
  BY DEF BoundaryNotAhead, BoundarySafe, Holding, TypeOK
<1> QED
  BY <1>1, <1>2, <1>3, <1>4, <1>5 DEF IInv

\* Leaving the registry only shrinks the set of snapshots to protect.
LEMMA UnregisterStep ==
  ASSUME IInv, NEW t \in TxnId, Unregister(t)
  PROVE  IInv'
<1> USE DEF IInv, Unregister
<1>s. ShardFor(t) \in Shard
  BY ShardForInShard
<1>1. TypeOK'
  <2>1. /\ DOMAIN shards' = Shard
        /\ \A s \in Shard : /\ DOMAIN shards'[s] \subseteq TxnId
                             /\ shards'[s] \in [DOMAIN shards'[s] -> Version]
    BY <1>s DEF TypeOK, MapErase
  <2> QED
    BY <2>1 DEF TypeOK, Stages
<1>2. RegistryExact'
  BY <1>s DEF RegistryExact, Registered, TypeOK, MapErase
<1>3. SnapshotNotAhead' /\ HorizonNotAhead' /\ HorizonSafe'
  BY DEF SnapshotNotAhead, HorizonNotAhead, HorizonSafe, Holding, TypeOK
<1>4. ScanProgress'
  BY DEF ScanProgress, Covered, Holding, Registered, TypeOK
<1>5. BoundaryNotAhead' /\ BoundarySafe'
  BY DEF BoundaryNotAhead, BoundarySafe, Holding, TypeOK
<1> QED
  BY <1>1, <1>2, <1>3, <1>4, <1>5 DEF IInv

\* A scan starts with nothing seen and nothing behind it.
LEMMA StartScanStep ==
  ASSUME IInv, NEW c \in Scanner, StartScan(c)
  PROVE  IInv'
<1> USE DEF IInv, StartScan
<1>0. scan'[c] = [pc |-> "scan", at |-> 0, any_active |-> FALSE,
                  oldest |-> UInt64Max, missed |-> {}]
  BY DEF TypeOK, IdleScan
<1>1. TypeOK'
  <2>1. scan'[c] \in ScanRecord
    <3> HIDE DEF IInv, StartScan
    <3> QED
      BY <1>0, ShardsAssumption DEF ScanRecord
  <2>2. scan' \in [Scanner -> ScanRecord]
    BY <2>1 DEF TypeOK
  <2> QED
    BY <2>2 DEF TypeOK
<1>2. RegistryExact'
  BY DEF RegistryExact
<1>3. SnapshotNotAhead' /\ HorizonNotAhead' /\ HorizonSafe'
  BY DEF SnapshotNotAhead, HorizonNotAhead, HorizonSafe, Holding
<1>4. ScanProgress'
  <2>1. \A t \in TxnId : ~ (ShardFor(t) < 0)
    BY ShardForInShard, ShardsAssumption DEF Shard
  <2> QED
    BY <1>0, <2>1 DEF ScanProgress, Covered, Holding, TypeOK
<1>5. BoundaryNotAhead' /\ BoundarySafe'
  BY <1>0 DEF BoundaryNotAhead, BoundarySafe, Holding, TypeOK
<1> QED
  BY <1>1, <1>2, <1>3, <1>4, <1>5 DEF IInv

\* Visiting a shard covers every transaction registered in it.
LEMMA VisitShardStep ==
  ASSUME IInv, NEW c \in Scanner, VisitShard(c)
  PROVE  IInv'
<1> USE DEF IInv
<1> DEFINE active == shards[scan[c].at]
           seen   == {scan[c].oldest} \cup {active[t] : t \in DOMAIN active}
<1>u. UNCHANGED <<version, next_txn_id, shards, stage, snapshot, exposed, horizon>>
  BY DEF VisitShard
<1>a. scan[c].pc = "scan" /\ scan[c].at \in Shard
  BY ShardsAssumption DEF VisitShard, TypeOK, ScanRecord, Shard
<1>b. PICK m \in seen :
        /\ IsMin(m, seen)
        /\ scan' = [scan EXCEPT ![c] =
                      [scan[c] EXCEPT
                         !.at = scan[c].at + 1,
                         !.any_active = scan[c].any_active \/ DOMAIN active # {},
                         !.oldest = m]]
  BY DEF VisitShard
<1>c. scan[c] \in ScanRecord
  BY DEF TypeOK
<1>d. /\ scan'[c].pc = "scan"
      /\ scan'[c].at = scan[c].at + 1
      /\ scan'[c].any_active = (scan[c].any_active \/ DOMAIN active # {})
      /\ scan'[c].oldest = m
      /\ scan'[c].missed = scan[c].missed
      /\ \A d \in Scanner \ {c} : scan'[d] = scan[d]
  BY <1>a, <1>b, <1>c DEF ScanRecord, TypeOK
<1>e. active \in [DOMAIN active -> Version]
  BY <1>a DEF TypeOK
<1>f. m \in Version \cup {UInt64Max}
  BY <1>b, <1>c, <1>e DEF ScanRecord
<1>g. m <= scan[c].oldest /\ \A t \in DOMAIN active : m <= active[t]
  BY <1>b DEF IsMin
<1>1. TypeOK'
  <2>1. scan' \in [Scanner -> ScanRecord]
    <3>1. scan[c].at + 1 \in 0 .. kNumShards
      BY <1>a, ShardsAssumption DEF Shard
    <3> QED
      BY <1>b, <1>c, <1>f, <3>1 DEF TypeOK, ScanRecord
  <2> QED
    BY <1>u, <2>1 DEF TypeOK
<1>2. RegistryExact'
  BY <1>u DEF RegistryExact
<1>3. SnapshotNotAhead' /\ HorizonNotAhead' /\ HorizonSafe'
  BY <1>u DEF SnapshotNotAhead, HorizonNotAhead, HorizonSafe, Holding
<1>4. ScanProgress'
  <2>n. /\ version \in Nat /\ version < UInt64Max /\ UInt64Max \in Nat /\ m \in Nat
        /\ scan[c].oldest \in Nat /\ snapshot \in [TxnId -> Nat]
    BY <1>c, <1>f, BoundsAssumption DEF TypeOK, Version, ScanRecord
  <2>1. \A t \in DOMAIN active : /\ t \in TxnId
                                 /\ active[t] \in Nat
                                 /\ active[t] <= version
                                 /\ stage[t] # "live" => active[t] = 0
                                 /\ stage[t] = "live" => active[t] = snapshot[t]
    BY <1>a, <1>e, <2>n DEF RegistryExact, SnapshotNotAhead, Holding, TypeOK, Version
  <2>2. scan'[c].any_active => scan'[c].oldest <= version
    <3>1. CASE DOMAIN active # {}
      BY <3>1, <1>d, <1>g, <2>1, <2>n
    <3>2. CASE DOMAIN active = {}
      BY <3>2, <1>a, <1>d, <1>g, <2>n DEF ScanProgress
    <3> QED
      BY <3>1, <3>2
  <2>3. ~ scan'[c].any_active => scan'[c].oldest = UInt64Max
    BY <1>a, <1>b, <1>d DEF ScanProgress
  <2>4. ASSUME NEW t \in TxnId \ scan'[c].missed,
               stage[t] \in Registered, ShardFor(t) < scan'[c].at
        PROVE  Covered(c, t)'
    <3>1. CASE ShardFor(t) = scan[c].at
      <4>1. t \in DOMAIN active
        BY <1>a, <2>4, <3>1 DEF RegistryExact
      <4>2. m <= active[t] /\ active[t] \in Nat
        BY <1>g, <2>1, <4>1
      <4>3. stage[t] # "live" => m = 0
        BY <2>1, <2>n, <4>1, <4>2
      <4>4. stage[t] \in {"read", "live"} => m <= snapshot[t]
        BY <2>1, <2>n, <4>1, <4>2, <4>3
      <4> QED
        BY <1>d, <1>u, <4>1, <4>3, <4>4 DEF Covered, Holding
    <3>2. CASE ShardFor(t) < scan[c].at
      <4>1. Covered(c, t)
        BY <1>a, <1>d, <2>4, <3>2 DEF ScanProgress
      <4>2. scan[c].oldest = 0 => m = 0
        BY <1>g, <2>n
      <4>3. t \in Holding => m <= snapshot[t]
        BY <1>g, <2>n, <4>1 DEF Covered, Holding
      <4> QED
        BY <1>d, <1>u, <4>1, <4>2, <4>3 DEF Covered, Holding
    <3>3. ShardFor(t) \in Int /\ scan[c].at \in Int
      BY <1>a, ShardForInShard, ShardsAssumption DEF Shard
    <3> QED
      BY <1>d, <2>4, <3>1, <3>2, <3>3
  <2> QED
    BY <1>d, <1>u, <2>2, <2>3, <2>4 DEF ScanProgress, Covered, Holding
<1>5. BoundaryNotAhead' /\ BoundarySafe'
  BY <1>d, <1>u DEF BoundaryNotAhead, BoundarySafe, Holding
<1> QED
  BY <1>1, <1>2, <1>3, <1>4, <1>5 DEF IInv

\* Returning: a scan that left every shard covers all but the missed, and the
\* missed that already hold a snapshot are recorded as exposed.
LEMMA ReturnBoundaryStep ==
  ASSUME IInv, NEW c \in Scanner, ReturnBoundary(c)
  PROVE  IInv'
<1> USE DEF IInv
<1> DEFINE b == IF scan[c].any_active THEN scan[c].oldest ELSE version
<1>u. /\ UNCHANGED <<version, next_txn_id, shards, stage, snapshot, horizon>>
      /\ exposed' = exposed \cup {t \in scan[c].missed : stage[t] \in {"read", "live"}}
      /\ scan[c].pc = "scan" /\ scan[c].at = kNumShards
  BY DEF ReturnBoundary
<1>s. scan' = [scan EXCEPT ![c] = [IdleScan EXCEPT !.pc = "done", !.oldest = b]]
  BY DEF ReturnBoundary
<1>n. /\ version \in Nat /\ UInt64Max \in Nat /\ scan[c] \in ScanRecord
      /\ scan[c].oldest \in Nat /\ snapshot \in [TxnId -> Nat]
  BY BoundsAssumption DEF TypeOK, Version, ScanRecord
<1>b. b \in Version /\ b <= version
  BY <1>u, <1>n, BoundsAssumption DEF ScanProgress, TypeOK, ScanRecord, Version
<1>d. /\ scan'[c] = [pc |-> "done", at |-> 0, any_active |-> FALSE,
                     oldest |-> b, missed |-> {}]
      /\ \A d \in Scanner \ {c} : scan'[d] = scan[d]
  BY <1>s DEF TypeOK, IdleScan
<1>1. TypeOK'
  <2>1. scan'[c] \in ScanRecord
    BY <1>d, <1>b, ShardsAssumption DEF ScanRecord
  <2>2. scan' \in [Scanner -> ScanRecord]
    BY <1>s, <2>1 DEF TypeOK
  <2> QED
    BY <1>u, <1>n, <2>2 DEF TypeOK, ScanRecord
<1>2. RegistryExact'
  BY <1>u DEF RegistryExact
<1>3. SnapshotNotAhead' /\ HorizonNotAhead' /\ HorizonSafe'
  BY <1>u DEF SnapshotNotAhead, HorizonNotAhead, HorizonSafe, Holding
<1>4. ScanProgress'
  BY <1>d, <1>u DEF ScanProgress, Covered, Holding
<1>5. BoundaryNotAhead'
  BY <1>d, <1>u, <1>b DEF BoundaryNotAhead
<1>6. BoundarySafe'
  <2>1. ASSUME NEW t \in Holding \ exposed'
        PROVE  b <= snapshot[t]
    <3>1. t \in TxnId \ scan[c].missed /\ stage[t] \in Registered
      BY <1>u, <2>1 DEF Holding, Registered
    <3>2. ShardFor(t) < scan[c].at
      BY <1>u, <3>1, ShardForInShard, ShardsAssumption DEF Shard
    <3> QED
      BY <1>u, <2>1, <3>1, <3>2 DEF ScanProgress, Covered
  <2> QED
    BY <1>d, <1>u, <2>1 DEF BoundarySafe, Holding
<1> QED
  BY <1>1, <1>2, <1>3, <1>4, <1>5, <1>6 DEF IInv

\* Acting on a boundary raises the horizon at most to it.
LEMMA UseBoundaryStep ==
  ASSUME IInv, NEW c \in Scanner, UseBoundary(c)
  PROVE  IInv'
<1> USE DEF IInv, UseBoundary
<1>0. scan[c].oldest \in Version /\ scan[c].oldest <= version
  BY BoundsAssumption DEF BoundaryNotAhead, TypeOK, ScanRecord, Version
<1>d. /\ scan'[c] = IdleScan
      /\ \A d \in Scanner \ {c} : scan'[d] = scan[d]
  BY DEF TypeOK
<1>1. TypeOK'
  BY <1>0, ShardsAssumption, BoundsAssumption
  DEF TypeOK, ScanRecord, IdleScan, Larger
<1>2. RegistryExact'
  BY DEF RegistryExact
<1>3. SnapshotNotAhead' /\ HorizonNotAhead'
  BY <1>0 DEF SnapshotNotAhead, HorizonNotAhead, Holding, Larger
<1>4. HorizonSafe'
  BY DEF HorizonSafe, BoundarySafe, Holding, Larger
<1>5. ScanProgress'
  BY <1>d DEF ScanProgress, Covered, Holding, IdleScan
<1>6. BoundaryNotAhead' /\ BoundarySafe'
  BY <1>d DEF BoundaryNotAhead, BoundarySafe, Holding, IdleScan
<1> QED
  BY <1>1, <1>2, <1>3, <1>4, <1>5, <1>6 DEF IInv

\* A write only moves the version further ahead.
LEMMA StoreWriteStep == IInv /\ StoreWrite => IInv'
<1> SUFFICES ASSUME IInv, StoreWrite PROVE IInv'
  OBVIOUS
<1> USE DEF IInv, StoreWrite
<1>0. version \in Nat /\ version' = version + 1 /\ version' \in Version
  BY BoundsAssumption DEF TypeOK, Version
<1>1. TypeOK'
  BY <1>0 DEF TypeOK
<1>2. RegistryExact'
  BY DEF RegistryExact
<1>3. SnapshotNotAhead' /\ HorizonNotAhead' /\ HorizonSafe'
  BY <1>0, BoundsAssumption
  DEF SnapshotNotAhead, HorizonNotAhead, HorizonSafe, Holding, TypeOK, Version
<1>4. ScanProgress'
  BY <1>0, BoundsAssumption
  DEF ScanProgress, Covered, Holding, TypeOK, ScanRecord, Version
<1>5. BoundaryNotAhead' /\ BoundarySafe'
  BY <1>0, BoundsAssumption
  DEF BoundaryNotAhead, BoundarySafe, Holding, TypeOK, ScanRecord, Version
<1> QED
  BY <1>1, <1>2, <1>3, <1>4, <1>5 DEF IInv

\* Every step of the registry preserves the invariant.
LEMMA NextIInv == IInv /\ [Next]_mgrVars => IInv'
<1> SUFFICES ASSUME IInv, [Next]_mgrVars PROVE IInv'
  OBVIOUS
<1>1. ASSUME NEW t \in TxnId, TxnStep(t) PROVE IInv'
  BY <1>1, AssignIdStep, RegisterPlaceholderStep, ReadSnapshotStep,
     RefineSnapshotStep, UnregisterStep DEF TxnStep
<1>2. ASSUME NEW c \in Scanner, ScanStep(c) PROVE IInv'
  BY <1>2, StartScanStep, VisitShardStep, ReturnBoundaryStep, UseBoundaryStep
  DEF ScanStep
<1>3. CASE StoreWrite
  BY <1>3, StoreWriteStep
<1>4. CASE UNCHANGED mgrVars
  BY <1>4
  DEF mgrVars, IInv, TypeOK, RegistryExact, SnapshotNotAhead, HorizonNotAhead,
      ScanProgress, Covered, BoundaryNotAhead, BoundarySafe, HorizonSafe, Holding,
      ScanRecord
<1> QED
  BY <1>1, <1>2, <1>3, <1>4 DEF Next

\* So it always holds.
LEMMA AlwaysIInv == Spec => []IInv
BY InitIInv, NextIInv, PTL DEF Spec

-------------------------------------------------------------------------------
\* The registry, the scans and the boundaries stay well typed.
THEOREM TypeCorrect == Spec => []TypeOK
<1>1. IInv => TypeOK
  BY DEF IInv
<1> QED
  BY <1>1, AlwaysIInv, PTL

\* A shard holds exactly the transactions between their placeholder and their
\* Unregister: none is missing from the scans, none is left behind.
THEOREM RegistryCorrect == Spec => []RegistryExact
<1>1. IInv => RegistryExact
  BY DEF IInv
<1> QED
  BY <1>1, AlwaysIInv, PTL

\* OldestActiveSnapshot never returns a version the store has not reached.
THEOREM BoundaryNotAheadCorrect == Spec => []BoundaryNotAhead
<1>1. IInv => BoundaryNotAhead
  BY DEF IInv
<1> QED
  BY <1>1, AlwaysIInv, PTL

\* A returned boundary protects every transaction that holds a snapshot, except
\* those whose Begin took place behind the back of a scan: the exact guarantee
\* of two-phase registration.
THEOREM BoundaryCorrect == Spec => []BoundarySafe
<1>1. IInv => BoundarySafe
  BY DEF IInv
<1> QED
  BY <1>1, AlwaysIInv, PTL

\* And it keeps protecting them, however long the boundary waits before it is
\* used and whatever other collectors do meanwhile.
THEOREM HorizonCorrect == Spec => []HorizonSafe
<1>1. IInv => HorizonSafe
  BY DEF IInv
<1> QED
  BY <1>1, AlwaysIInv, PTL

===============================================================================
