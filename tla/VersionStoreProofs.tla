------------------------- MODULE VersionStoreProofs ---------------------------
(***************************************************************************)
(* The store's safety invariants, for every set of keys and values and any *)
(* number of versions.                                                     *)
(***************************************************************************)
EXTENDS VersionStore, VersionHistoryProofs, FiniteSetTheorems

Written(k, v) == v \in 1 .. Len(log) /\ k \in DOMAIN log[v]

\* v is the last write to k at or before the horizon.
LastWrite(k, v) ==
  /\ Written(k, v) /\ v <= horizon
  /\ \A w \in 1 .. Len(log) : Written(k, w) /\ w <= horizon => w <= v

HasEntry(k, v) == \E e \in Entries(table[k]) : e.version = v

\* Every entry is the log's value at its version.
EntriesLogged(k) ==
  \A e \in Entries(table[k]) : Written(k, e.version) /\ log[e.version][k] = e.value

\* Nothing above the horizon was reclaimed.
RecentKept(k) ==
  \A v \in 1 .. Len(log) : Written(k, v) /\ v > horizon => HasEntry(k, v)

\* The last write below the horizon is still there, unless it is a tombstone,
\* and then nothing older is.
LastKept(k) ==
  \A v \in 1 .. Len(log) : LastWrite(k, v) =>
    \/ HasEntry(k, v)
    \/ log[v][k] = Tombstone /\ \A e \in Entries(table[k]) : e.version > v

Linked(k) == EntriesLogged(k) /\ RecentKept(k) /\ LastKept(k)

\* What may land of a batch when an append throws: any of its keys, or none.
Partial == UNION {[D -> Cell] : D \in SUBSET Key}

\* TypeOK, but for batches that landed in part.
Shape ==
  /\ next_version \in 1 .. MaxVersion + 1
  /\ log \in Seq(Partial) /\ Len(log) = CurrentVersion
  /\ table \in [Key -> Seq(VersionedValue)]
  /\ horizon \in 0 .. CurrentVersion

\* The part of the invariant that no failure endangers: all that reads and the
\* conflict check depend on.
Sound == Shape /\ \A k \in Key : Increasing(table[k]) /\ Linked(k)

\* The inductive invariant.
IInv == TypeOK /\ Sound

-------------------------------------------------------------------------------
\* A non-empty set of naturals with an upper bound has a greatest element.
LEMMA NatMax ==
  ASSUME NEW T, NEW top \in Nat, T \subseteq 0 .. top, T # {}
  PROVE  \E m \in T : \A x \in T : x <= m
<1> DEFINE U == {top - x : x \in T}
<1>0. \A x \in T : x \in Int /\ top - x \in Nat
  OBVIOUS
<1>1. U \subseteq Nat /\ U # {}
  BY <1>0
<1>2. PICK u \in U : \A y \in U : u <= y
  <2> HIDE DEF U
  <2> QED BY <1>1, NatMin
<1>3. PICK m \in T : u = top - m
  BY <1>2
<1>4. \A x \in T : top - m <= top - x
  BY <1>2, <1>3
<1> QED
  BY <1>0, <1>4

\* What lands of a batch is a value or a tombstone for some keys.
LEMMA BatchShape ==
  ASSUME NEW ops \in Partial
  PROVE  DOMAIN ops \subseteq Key /\ \A k \in DOMAIN ops : ops[k] \in Cell
<1>1. PICK D \in SUBSET Key : ops \in [D -> Cell]
  BY DEF Partial
<1> QED
  BY <1>1

\* It may be the whole batch.
LEMMA WholeBatch == Batch \subseteq Partial
BY DEF Batch, Partial

\* The one-key batches of Put and Delete are batches.
LEMMA SingleBatch ==
  ASSUME NEW k \in Key, NEW v \in Cell
  PROVE  [x \in {k} |-> v] \in Batch
<1>1. {k} \in (SUBSET Key) \ {{}}
  OBVIOUS
<1>2. [x \in {k} |-> v] \in [{k} -> Cell]
  OBVIOUS
<1>3. \E D \in (SUBSET Key) \ {{}} : [x \in {k} |-> v] \in [D -> Cell]
  BY <1>1, <1>2
<1> HIDE DEF Cell
<1> QED
  BY <1>3 DEF Batch

-------------------------------------------------------------------------------
\* Initially nothing is stored and nothing was logged.
LEMMA InitIInv == Init => IInv
<1> SUFFICES ASSUME Init PROVE IInv
  OBVIOUS
<1>1. /\ next_version = 1 /\ log = <<>> /\ horizon = 0 /\ Len(log) = 0
      /\ table = [k \in Key |-> <<>>]
  BY DEF Init
<1>2. TypeOK /\ Shape
  BY <1>1, MaxVersionAssumption DEF TypeOK, Shape, CurrentVersion
<1>3. ASSUME NEW k \in Key PROVE Increasing(table[k]) /\ Linked(k)
  <2>1. table[k] = <<>> /\ Entries(table[k]) = {}
    BY <1>1 DEF Entries
  <2> QED
    BY <1>1, <2>1 DEF Increasing, Linked, EntriesLogged, RecentKept, LastKept
<1> QED
  BY <1>2, <1>3 DEF IInv, Sound

\* ApplyBatch: the new version is above every entry, the horizon and the log, so
\* appending keeps the histories sorted and changes nothing about older writes.
LEMMA ApplyBatchSound ==
  ASSUME Sound, NEW ops \in Partial, ApplyBatch(ops)
  PROVE  Sound'
<1>0. PICK n : n = next_version
  OBVIOUS
<1> DEFINE E(k) == [version |-> n, value |-> ops[k]]
<1>1. /\ n \in Nat \ {0} /\ n <= MaxVersion /\ next_version' = n + 1 /\ MaxVersion \in Nat
      /\ log \in Seq(Partial) /\ Len(log) = n - 1
      /\ table \in [Key -> Seq(VersionedValue)]
      /\ horizon \in 0 .. n - 1 /\ horizon' = horizon
      /\ log' = Append(log, ops)
      /\ table' = [k \in Key |-> IF k \in DOMAIN ops THEN Append(table[k], E(k)) ELSE table[k]]
  BY <1>0, MaxVersionAssumption DEF Sound, Shape, CurrentVersion, ApplyBatch
<1>2. /\ log' \in Seq(Partial) /\ Len(log') = n /\ log'[n] = ops
      /\ \A i \in 1 .. n - 1 : log'[i] = log[i]
  BY <1>1, AppendProperties
<1>3. /\ DOMAIN ops \subseteq Key
      /\ \A k \in DOMAIN ops : E(k) \in VersionedValue
  BY <1>1, BatchShape DEF VersionedValue
<1>4. ASSUME NEW k \in Key
      PROVE  /\ table[k] \in Seq(VersionedValue) /\ Increasing(table[k])
             /\ EntriesLogged(k) /\ RecentKept(k) /\ LastKept(k)
             /\ \A e \in Entries(table[k]) : e.version \in 1 .. n - 1
  <2>1. table[k] \in Seq(VersionedValue)
    BY <1>1
  <2>2. Increasing(table[k]) /\ EntriesLogged(k) /\ RecentKept(k) /\ LastKept(k)
    BY DEF Sound, Linked
  <2> QED
    BY <1>1, <2>1, <2>2 DEF EntriesLogged, Written
<1> HIDE DEF E
<1>5. ASSUME NEW k \in Key
      PROVE  /\ table'[k] \in Seq(VersionedValue) /\ Increasing(table'[k])
             /\ Entries(table'[k]) = Entries(table[k]) \cup (IF k \in DOMAIN ops THEN {E(k)} ELSE {})
  <2>1. CASE k \in DOMAIN ops
    <3>1. table'[k] = Append(table[k], E(k))
      BY <1>1, <2>1
    <3>2. E(k) \in VersionedValue
      BY <1>3, <2>1
    <3>3. \A f \in Entries(table[k]) : f.version < E(k).version
      BY <1>1, <1>4 DEF E
    <3> QED
      BY <1>4, <2>1, <3>1, <3>2, <3>3, AppendedHistory
  <2>2. CASE k \notin DOMAIN ops
    BY <1>1, <1>4, <2>2
  <2> QED
    BY <2>1, <2>2
<1>6. Shape'
  <2>1. table' \in [Key -> Seq(VersionedValue)]
    BY <1>1, <1>5
  <2> QED
    BY <1>1, <1>2, <2>1 DEF Shape, CurrentVersion
<1>7. ASSUME NEW k \in Key
      PROVE  \A v \in 1 .. n - 1 : Written(k, v)' <=> Written(k, v)
  BY <1>1, <1>2 DEF Written
<1>8. ASSUME NEW k \in Key
      PROVE  Written(k, n)' <=> k \in DOMAIN ops
  BY <1>1, <1>2 DEF Written
<1>9. ASSUME NEW k \in Key
      PROVE  EntriesLogged(k)'
  <2>1. ASSUME NEW e \in Entries(table[k])
        PROVE  Written(k, e.version)' /\ log'[e.version][k] = e.value
    BY <1>2, <1>4, <1>7 DEF EntriesLogged
  <2>2. k \in DOMAIN ops => Written(k, E(k).version)' /\ log'[E(k).version][k] = E(k).value
    BY <1>2, <1>8 DEF E
  <2> QED
    BY <1>5, <2>1, <2>2 DEF EntriesLogged
<1>10. ASSUME NEW k \in Key, NEW v, HasEntry(k, v)
       PROVE  HasEntry(k, v)'
  BY <1>5, <1>10 DEF HasEntry
<1>11. ASSUME NEW k \in Key
       PROVE  RecentKept(k)'
  <2>1. ASSUME NEW v \in 1 .. n, Written(k, v)', v > horizon
        PROVE  HasEntry(k, v)'
    <3>1. CASE v \in 1 .. n - 1
      BY <1>1, <1>4, <1>7, <1>10, <2>1, <3>1 DEF RecentKept
    <3>2. CASE v = n
      <4>1. k \in DOMAIN ops
        BY <1>8, <2>1, <3>2
      <4>2. E(k) \in Entries(table'[k]) /\ E(k).version = v
        BY <1>5, <3>2, <4>1 DEF E
      <4> QED
        BY <4>2 DEF HasEntry
    <3> QED
      BY <1>1, <3>1, <3>2
  <2> QED
    BY <1>1, <1>2, <2>1 DEF RecentKept
<1>12. ASSUME NEW k \in Key
       PROVE  LastKept(k)'
  <2>1. ASSUME NEW v \in 1 .. n, LastWrite(k, v)'
        PROVE  \/ HasEntry(k, v)'
               \/ log'[v][k] = Tombstone /\ \A e \in Entries(table'[k]) : e.version > v
    <3>1. v \in 1 .. n - 1
      BY <1>1, <2>1 DEF LastWrite
    <3>2. LastWrite(k, v)
      BY <1>1, <1>2, <1>7, <2>1, <3>1 DEF LastWrite
    <3>3. CASE HasEntry(k, v)
      BY <1>10, <3>3
    <3>4. CASE log[v][k] = Tombstone /\ \A e \in Entries(table[k]) : e.version > v
      <4>1. E(k).version > v
        BY <1>1, <3>1 DEF E
      <4> QED
        BY <1>2, <1>5, <3>1, <3>4, <4>1
    <3> QED
      BY <1>1, <1>4, <3>1, <3>2, <3>3, <3>4 DEF LastKept
  <2> QED
    BY <1>2, <2>1 DEF LastKept
<1> QED
  BY <1>5, <1>6, <1>9, <1>11, <1>12 DEF Sound, Linked

\* CollectGarbage: what it drops is superseded by the newest in-bound entry, and
\* that entry is the last write at or before the new horizon.
LEMMA CollectGarbageSound ==
  ASSUME Sound, NEW b \in 0 .. CurrentVersion, CollectGarbage(b)
  PROVE  Sound'
<1>1. /\ next_version \in 1 .. MaxVersion + 1 /\ MaxVersion \in Nat
      /\ log \in Seq(Partial) /\ Len(log) = next_version - 1
      /\ table \in [Key -> Seq(VersionedValue)]
      /\ horizon \in 0 .. next_version - 1
      /\ b \in 0 .. next_version - 1
      /\ next_version' = next_version /\ log' = log
      /\ horizon' = IF b > horizon THEN b ELSE horizon
      /\ table' = [k \in Key |-> Collected(table[k], b)]
  BY MaxVersionAssumption DEF Sound, Shape, CurrentVersion, CollectGarbage
<1>2. ASSUME NEW k \in Key
      PROVE  /\ table[k] \in Seq(VersionedValue) /\ Increasing(table[k])
             /\ EntriesLogged(k) /\ RecentKept(k) /\ LastKept(k)
  BY <1>1 DEF Sound, Linked
<1>3. ASSUME NEW k \in Key
      PROVE  /\ table'[k] \in Seq(VersionedValue) /\ Increasing(table'[k])
             /\ Entries(table'[k]) \subseteq Entries(table[k])
             /\ \A e \in Entries(table[k]) : e.version > b => e \in Entries(table'[k])
             /\ \A e : NewestWithin(table[k], e, b)
                    => \/ e \in Entries(table'[k])
                       \/ e.value = Tombstone /\ table'[k] = <<>>
  <2>1. table'[k] = Collected(table[k], b)
    BY <1>1
  <2>2. b \in Nat
    BY <1>1
  <2> QED
    BY <1>2, <2>1, <2>2, CollectedHistory
<1>4. Shape'
  <2>1. table' \in [Key -> Seq(VersionedValue)]
    BY <1>1, <1>3
  <2> QED
    BY <1>1, <2>1 DEF Shape, CurrentVersion
<1>5. ASSUME NEW k \in Key, NEW v
      PROVE  Written(k, v)' <=> Written(k, v)
  BY <1>1 DEF Written
<1>6. ASSUME NEW k \in Key
      PROVE  EntriesLogged(k)'
  BY <1>1, <1>2, <1>3, <1>5 DEF EntriesLogged
<1>7. ASSUME NEW k \in Key, NEW v \in 1 .. Len(log), HasEntry(k, v), v > b
      PROVE  HasEntry(k, v)'
  BY <1>3, <1>7 DEF HasEntry
<1>8. ASSUME NEW k \in Key
      PROVE  RecentKept(k)'
  <2>1. ASSUME NEW v \in 1 .. Len(log), Written(k, v), v > horizon'
        PROVE  HasEntry(k, v)'
    <3>1. v > horizon /\ v > b
      BY <1>1, <2>1
    <3>2. HasEntry(k, v)
      BY <1>2, <2>1, <3>1 DEF RecentKept
    <3> QED
      BY <1>7, <3>1, <3>2
  <2> QED
    BY <1>1, <1>5, <2>1 DEF RecentKept
<1>9. ASSUME NEW k \in Key
      PROVE  LastKept(k)'
  <2> SUFFICES ASSUME NEW v \in 1 .. Len(log), LastWrite(k, v)'
               PROVE  \/ HasEntry(k, v)'
                      \/ log[v][k] = Tombstone /\ \A e \in Entries(table'[k]) : e.version > v
    BY <1>1 DEF LastKept
  <2>1. /\ Written(k, v) /\ v <= horizon'
        /\ \A w \in 1 .. Len(log) : Written(k, w) /\ w <= horizon' => w <= v
    BY <1>1, <1>5 DEF LastWrite
  <2>2. \/ HasEntry(k, v)
        \/ log[v][k] = Tombstone /\ \A e \in Entries(table[k]) : e.version > v
    <3>1. CASE v > horizon
      BY <1>2, <2>1, <3>1 DEF RecentKept
    <3>2. CASE v <= horizon
      <4>1. \A w \in 1 .. Len(log) : w <= horizon => w <= horizon'
        BY <1>1
      <4>2. LastWrite(k, v)
        BY <2>1, <3>2, <4>1 DEF LastWrite
      <4> QED
        BY <1>2, <4>2 DEF LastKept
    <3> QED
      BY <1>1, <3>1, <3>2
  <2>3. CASE log[v][k] = Tombstone /\ \A e \in Entries(table[k]) : e.version > v
    BY <1>3, <2>3
  <2>4. CASE HasEntry(k, v) /\ v > b
    BY <1>7, <2>4
  <2>5. CASE HasEntry(k, v) /\ ~ (v > b)
    <3>1. PICK e \in Entries(table[k]) : e.version = v
      BY <2>5 DEF HasEntry
    <3>2. ASSUME NEW f \in Entries(table[k]), f.version <= b
          PROVE  f.version <= v
      <4>1. f.version \in 1 .. Len(log) /\ Written(k, f.version)
        BY <1>2 DEF EntriesLogged, Written
      <4>2. f.version <= horizon'
        BY <1>1, <3>2, <4>1
      <4> QED
        BY <2>1, <4>1, <4>2
    <3>3. v <= b
      BY <1>1, <2>5
    <3>4. NewestWithin(table[k], e, b)
      BY <3>1, <3>2, <3>3 DEF NewestWithin
    <3>5. \/ e \in Entries(table'[k])
          \/ e.value = Tombstone /\ table'[k] = <<>>
      BY <1>3, <3>4
    <3>6. CASE e \in Entries(table'[k])
      BY <3>1, <3>6 DEF HasEntry
    <3>7. CASE e.value = Tombstone /\ table'[k] = <<>>
      <4>1. Entries(table'[k]) = {}
        BY <3>7 DEF Entries
      <4>2. log[v][k] = e.value
        BY <1>2, <3>1 DEF EntriesLogged
      <4> QED
        BY <3>7, <4>1, <4>2
    <3> QED
      BY <3>5, <3>6, <3>7
  <2> QED
    BY <2>2, <2>3, <2>4, <2>5
<1> QED
  BY <1>3, <1>4, <1>6, <1>8, <1>9 DEF Sound, Linked

\* A whole batch keeps the log one of whole batches.
LEMMA ApplyBatchIInv ==
  ASSUME IInv, NEW ops \in Batch, ApplyBatch(ops)
  PROVE  IInv'
<1>1. Sound'
  BY ApplyBatchSound, WholeBatch DEF IInv
<1>2. log' \in Seq(Batch)
  BY DEF IInv, TypeOK, ApplyBatch
<1> QED
  BY <1>1, <1>2 DEF IInv, Sound, Shape, TypeOK

\* A collection does not touch the log.
LEMMA CollectGarbageIInv ==
  ASSUME IInv, NEW b \in 0 .. CurrentVersion, CollectGarbage(b)
  PROVE  IInv'
<1>1. Sound'
  BY CollectGarbageSound DEF IInv
<1>2. log' \in Seq(Batch)
  BY DEF IInv, TypeOK, CollectGarbage
<1> QED
  BY <1>1, <1>2 DEF IInv, Sound, Shape, TypeOK

\* Every operation of the store preserves the invariant.
LEMMA NextIInv == IInv /\ [Next]_storeVars => IInv'
<1> SUFFICES ASSUME IInv, [Next]_storeVars PROVE IInv'
  OBVIOUS
<1>1. ASSUME NEW k \in Key, NEW v \in Value, Put(k, v) PROVE IInv'
  <2>1. [x \in {k} |-> v] \in Batch
    BY SingleBatch DEF Cell
  <2> QED
    BY <1>1, <2>1, ApplyBatchIInv DEF Put
<1>2. ASSUME NEW k \in Key, Delete(k) PROVE IInv'
  <2>1. [x \in {k} |-> Tombstone] \in Batch
    BY SingleBatch DEF Cell
  <2> QED
    BY <1>2, <2>1, ApplyBatchIInv DEF Delete
<1>3. ASSUME NEW ops \in Batch, ApplyBatch(ops) PROVE IInv'
  BY <1>3, ApplyBatchIInv
<1>4. ASSUME NEW ops \in Batch, NEW s, ApplyBatchIfNoConflict(ops, s) PROVE IInv'
  BY <1>4, ApplyBatchIInv DEF ApplyBatchIfNoConflict
<1>5. ASSUME NEW b \in 0 .. CurrentVersion, CollectGarbage(b) PROVE IInv'
  BY <1>5, CollectGarbageIInv
<1>6. CASE UNCHANGED storeVars
  BY <1>6 DEF storeVars, IInv, TypeOK, Sound, Shape, CurrentVersion, Linked, EntriesLogged,
              RecentKept,
              LastKept, LastWrite, HasEntry, Written
<1> QED
  BY <1>1, <1>2, <1>3, <1>4, <1>5, <1>6 DEF Next

\* The inductive invariant holds in every state of every run of the store.
LEMMA SpecIInv == Spec => []IInv
BY InitIInv, NextIInv, PTL DEF Spec

-------------------------------------------------------------------------------
\* The store stays well typed and its counter counts the batches applied.
THEOREM StoreTypeCorrect == Spec => []TypeOK
<1>1. IInv => TypeOK
  BY DEF IInv
<1> QED
  BY <1>1, SpecIInv, PTL

\* Every entry carries the version of a batch in the log.
LEMMA SoundIncreasing == Sound => HistoriesIncreasing
<1> SUFFICES ASSUME Sound, NEW k \in Key
             PROVE  Increasing(table[k]) /\ LatestVersion(k) <= CurrentVersion
  BY DEF HistoriesIncreasing
<1>1. /\ table[k] \in Seq(VersionedValue) /\ Increasing(table[k]) /\ EntriesLogged(k)
      /\ Len(log) = CurrentVersion /\ CurrentVersion \in Nat
  BY DEF Sound, Linked, Shape, CurrentVersion
<1>2. \A e \in Entries(table[k]) : e.version <= CurrentVersion
  BY <1>1 DEF EntriesLogged, Written
<1>3. LatestOf(table[k]) <= CurrentVersion
  BY <1>1, <1>2, LatestEntry
<1> QED
  BY <1>1, <1>3 DEF LatestVersion

\* Histories stay sorted and never run ahead of the version counter, which is what
\* the binary searches of GetAsOf and CollectGarbage depend on.
THEOREM HistoriesCorrect == Spec => []HistoriesIncreasing
<1>1. IInv => HistoriesIncreasing
  BY SoundIncreasing DEF IInv
<1> QED
  BY <1>1, SpecIInv, PTL

\* The last write at or before s is stored, or is a tombstone nothing hides.
LEMMA SoundReads == Sound => VisibleAboveHorizon
<1> SUFFICES ASSUME Sound, NEW k \in Key, NEW s \in horizon .. MaxVersion
             PROVE  VisibleAt(table[k], s) = LogAsOf(k, s)
  BY DEF VisibleAboveHorizon, GetAsOf
<1>1. /\ table[k] \in Seq(VersionedValue) /\ Increasing(table[k])
      /\ EntriesLogged(k) /\ RecentKept(k) /\ LastKept(k)
      /\ horizon \in Nat /\ s \in Nat /\ horizon <= s /\ Len(log) \in Nat
  BY MaxVersionAssumption DEF Sound, Linked, Shape, CurrentVersion
<1>2. \A i : i \in Writes(k, s) <=> Written(k, i) /\ i <= s
  BY DEF Writes, Written
<1>3. \A e \in Entries(table[k]) : e.version <= s => e.version \in Writes(k, s)
  BY <1>1, <1>2 DEF EntriesLogged
<1>4. CASE Writes(k, s) = {}
  BY <1>1, <1>3, <1>4, VisibleEntry DEF LogAsOf
<1>5. CASE Writes(k, s) # {}
  <2> DEFINE m == CHOOSE i \in Writes(k, s) : \A j \in Writes(k, s) : j <= i
  <2>1. Writes(k, s) \subseteq 0 .. Len(log)
    BY <1>1 DEF Writes
  <2>2. m \in Writes(k, s) /\ \A j \in Writes(k, s) : j <= m
    BY <1>1, <1>5, <2>1, NatMax
  <2>3. LogAsOf(k, s) = log[m][k]
    BY <1>5 DEF LogAsOf
  <2> HIDE DEF m
  <2>4. m \in 1 .. Len(log) /\ Written(k, m) /\ m <= s
    BY <1>2, <2>2 DEF Written
  <2>5. \/ HasEntry(k, m)
        \/ log[m][k] = Tombstone /\ \A e \in Entries(table[k]) : e.version > m
    <3>1. CASE m > horizon
      BY <1>1, <2>4, <3>1 DEF RecentKept
    <3>2. CASE m <= horizon
      <4>1. \A w \in 1 .. Len(log) : Written(k, w) /\ w <= horizon => w <= m
        BY <1>1, <1>2, <2>2
      <4> QED
        BY <1>1, <2>4, <3>2, <4>1 DEF LastKept, LastWrite
    <3> QED
      BY <1>1, <2>4, <3>1, <3>2
  <2>6. CASE HasEntry(k, m)
    <3>1. PICK e \in Entries(table[k]) : e.version = m
      BY <2>6 DEF HasEntry
    <3>2. NewestWithin(table[k], e, s)
      BY <1>3, <2>2, <2>4, <3>1 DEF NewestWithin
    <3>3. e.value = log[m][k]
      BY <1>1, <3>1 DEF EntriesLogged
    <3>4. VisibleAt(table[k], s) = e.value
      BY <1>1, <3>2, VisibleEntry
    <3> QED
      BY <2>3, <3>3, <3>4
  <2>7. CASE log[m][k] = Tombstone /\ \A e \in Entries(table[k]) : e.version > m
    <3>1. ASSUME NEW e \in Entries(table[k]) PROVE ~ (e.version <= s)
      <4>1. e.version > m /\ e.version \in 1 .. Len(log)
        BY <1>1, <2>7 DEF EntriesLogged, Written
      <4> QED
        BY <1>3, <2>2, <2>4, <4>1
    <3>2. VisibleAt(table[k], s) = Tombstone
      BY <1>1, <3>1, VisibleEntry
    <3> QED
      BY <2>3, <2>7, <3>2
  <2> QED
    BY <2>5, <2>6, <2>7
<1> QED
  BY <1>4, <1>5

\* From the horizon on, GetAsOf answers as if nothing had been collected.
THEOREM ReadsCorrect == Spec => []VisibleAboveHorizon
<1>1. IInv => VisibleAboveHorizon
  BY SoundReads DEF IInv
<1> QED
  BY <1>1, SpecIInv, PTL

\* Nothing above the horizon was reclaimed, so the newest entry tells all.
LEMMA SoundConflicts == Sound => ConflictCheckExact
<1> SUFFICES ASSUME Sound, NEW k \in Key, NEW s \in horizon .. CurrentVersion
             PROVE  LatestOf(table[k]) > s <=> \E i \in s + 1 .. Len(log) : k \in DOMAIN log[i]
  BY DEF ConflictCheckExact, LatestVersion
<1>1. /\ table[k] \in Seq(VersionedValue) /\ Increasing(table[k])
      /\ EntriesLogged(k) /\ RecentKept(k)
      /\ horizon \in Nat /\ s \in Nat /\ horizon <= s /\ Len(log) \in Nat
  BY DEF Sound, Linked, Shape, CurrentVersion
<1>2. /\ LatestOf(table[k]) \in Nat
      /\ table[k] # <<>> => \E e \in Entries(table[k]) : e.version = LatestOf(table[k])
      /\ table[k] = <<>> => LatestOf(table[k]) = 0
      /\ \A e \in Entries(table[k]) : e.version <= LatestOf(table[k])
  BY <1>1, LatestEntry
<1>3. ASSUME LatestOf(table[k]) > s
      PROVE  \E i \in s + 1 .. Len(log) : k \in DOMAIN log[i]
  <2>1. PICK e \in Entries(table[k]) : e.version = LatestOf(table[k])
    BY <1>1, <1>2, <1>3
  <2>2. Written(k, e.version)
    BY <1>1 DEF EntriesLogged
  <2>3. e.version \in s + 1 .. Len(log) /\ k \in DOMAIN log[e.version]
    BY <1>1, <1>2, <1>3, <2>1, <2>2 DEF Written
  <2> QED
    BY <2>3
<1>4. ASSUME NEW i \in s + 1 .. Len(log), k \in DOMAIN log[i]
      PROVE  LatestOf(table[k]) > s
  <2>1. i \in 1 .. Len(log) /\ i > horizon /\ Written(k, i)
    BY <1>1, <1>4 DEF Written
  <2>2. PICK e \in Entries(table[k]) : e.version = i
    BY <1>1, <2>1 DEF RecentKept, HasEntry
  <2>3. i <= LatestOf(table[k])
    BY <1>2, <2>2
  <2> QED
    BY <1>1, <1>2, <2>3
<1> QED
  BY <1>3, <1>4

\* The first-committer-wins check of ApplyBatchIfNoConflict is exact for snapshots
\* from the horizon on, whatever was collected.
THEOREM ConflictCheckCorrect == Spec => []ConflictCheckExact
<1>1. IInv => ConflictCheckExact
  BY SoundConflicts DEF IInv
<1> QED
  BY <1>1, SpecIInv, PTL

-------------------------------------------------------------------------------
\* Every history stays as the last collection left it, but for newer entries.
Trim == \A k \in Key : Retained(table[k], horizon)

\* A batch appends above the horizon.
LEMMA ApplyBatchTrim ==
  ASSUME Sound, Trim, NEW ops \in Partial, ApplyBatch(ops)
  PROVE  Trim'
<1>1. /\ next_version \in Nat \ {0} /\ horizon \in Nat /\ horizon < next_version
      /\ horizon' = horizon
  BY MaxVersionAssumption DEF Sound, Shape, CurrentVersion, ApplyBatch
<1> SUFFICES ASSUME NEW k \in Key PROVE Retained(table'[k], horizon)
  BY <1>1 DEF Trim
<1>2. table[k] \in Seq(VersionedValue) /\ Retained(table[k], horizon)
  BY DEF Sound, Shape, Trim
<1>3. CASE k \in DOMAIN ops
  <2> DEFINE e == [version |-> next_version, value |-> ops[k]]
  <2>1. e \in VersionedValue /\ e.version > horizon
    BY <1>1, <1>3, BatchShape DEF VersionedValue
  <2>2. table'[k] = Append(table[k], e)
    BY <1>3 DEF ApplyBatch
  <2> HIDE DEF e
  <2> QED
    BY <1>1, <1>2, <2>1, <2>2, AppendedRetained
<1>4. CASE k \notin DOMAIN ops
  BY <1>2, <1>4 DEF ApplyBatch
<1> QED
  BY <1>3, <1>4

\* A collection leaves each key trimmed at its boundary.
LEMMA CollectGarbageTrim ==
  ASSUME Sound, Trim, NEW b \in 0 .. CurrentVersion, CollectGarbage(b)
  PROVE  Trim'
<1>1. b \in Nat /\ horizon \in Nat /\ horizon' = IF b > horizon THEN b ELSE horizon
  BY DEF Sound, Shape, CurrentVersion, CollectGarbage
<1> SUFFICES ASSUME NEW k \in Key PROVE Retained(table'[k], horizon')
  BY DEF Trim
<1>2. /\ table[k] \in Seq(VersionedValue) /\ Increasing(table[k]) /\ Retained(table[k], horizon)
      /\ table'[k] = Collected(table[k], b)
  BY DEF Sound, Shape, Trim, CollectGarbage
<1> QED
  BY <1>1, <1>2, CollectedRetained

\* The bound is inductive together with IInv.
LEMMA NextTrim == IInv /\ Trim /\ [Next]_storeVars => Trim'
<1> SUFFICES ASSUME IInv, Trim, [Next]_storeVars PROVE Trim'
  OBVIOUS
<1>1. ASSUME NEW k \in Key, NEW v \in Value, Put(k, v) PROVE Trim'
  <2>1. [x \in {k} |-> v] \in Batch
    BY SingleBatch DEF Cell
  <2> QED
    BY <1>1, <2>1, ApplyBatchTrim, WholeBatch DEF Put, IInv
<1>2. ASSUME NEW k \in Key, Delete(k) PROVE Trim'
  <2>1. [x \in {k} |-> Tombstone] \in Batch
    BY SingleBatch DEF Cell
  <2> QED
    BY <1>2, <2>1, ApplyBatchTrim, WholeBatch DEF Delete, IInv
<1>3. ASSUME NEW ops \in Batch, NEW s, ApplyBatch(ops) \/ ApplyBatchIfNoConflict(ops, s)
      PROVE  Trim'
  BY <1>3, ApplyBatchTrim, WholeBatch DEF ApplyBatchIfNoConflict, IInv
<1>4. ASSUME NEW b \in 0 .. CurrentVersion, CollectGarbage(b) PROVE Trim'
  BY <1>4, CollectGarbageTrim DEF IInv
<1>5. CASE UNCHANGED storeVars
  BY <1>5 DEF storeVars, Trim
<1> QED
  BY <1>1, <1>2, <1>3, <1>4, <1>5 DEF Next

\* So it always holds.
LEMMA AlwaysTrim == Spec => []Trim
<1>1. Init => Trim
  BY DEF Init, Trim, Retained
<1> QED
  BY <1>1, NextTrim, SpecIInv, PTL DEF Spec

\* Collection reclaims all it may: whatever the order of writes and boundaries, one
\* entry at or below the horizon survives per key at most, and no lone tombstone.
THEOREM RetentionCorrect == Spec => []RetentionBound
<1>1. IInv /\ Trim => RetentionBound
  <2> SUFFICES ASSUME IInv, Trim, NEW k \in Key
               PROVE  LET old == {i \in 1 .. Len(table[k]) : table[k][i].version <= horizon}
                      IN /\ Cardinality(old) <= 1
                         /\ Cardinality(old) = Len(table[k])
                              => \A i \in old : table[k][i].value # Tombstone
    BY DEF RetentionBound
  <2> DEFINE old == {i \in 1 .. Len(table[k]) : table[k][i].version <= horizon}
  <2>1. /\ table[k] \in Seq(VersionedValue) /\ Retained(table[k], horizon) /\ horizon \in Nat
        /\ Len(table[k]) \in Nat
        /\ \A i \in 1 .. Len(table[k]) : table[k][i].version \in Nat
    BY HistoryEntries DEF IInv, TypeOK, Trim, CurrentVersion
  <2>2. old \subseteq {1}
    BY <2>1 DEF Retained
  <2>3. ASSUME 1 \in old, Len(table[k]) = 1 PROVE table[k][1].value # Tombstone
    BY <2>1, <2>3 DEF Retained
  <2> HIDE DEF old
  <2>4. CASE old = {}
    <3>1. Cardinality(old) = 0
      BY <2>4, FS_EmptySet
    <3> QED
      BY <2>4, <3>1 DEF old
  <2>5. CASE old = {1}
    <3>1. Cardinality(old) = 1
      BY <2>5, FS_Singleton
    <3>2. Cardinality(old) <= 1
      BY <3>1
    <3>3. Cardinality(old) = Len(table[k]) => \A i \in old : table[k][i].value # Tombstone
      BY <2>3, <2>5, <3>1
    <3> QED
      BY <3>2, <3>3 DEF old
  <2>6. old = {} \/ old = {1}
    BY <2>2
  <2> QED
    BY <2>4, <2>5, <2>6
<1> QED
  BY <1>1, AlwaysTrim, SpecIInv, PTL

-------------------------------------------------------------------------------
\* The latest value is what a read at the current version returns.
LEMMA LatestRead ==
  ASSUME Sound, NEW k \in Key
  PROVE  Get(k) = LogAsOf(k, CurrentVersion)
<1>1. /\ table[k] \in Seq(VersionedValue) /\ Increasing(table[k])
      /\ horizon \in 0 .. CurrentVersion /\ CurrentVersion \in Nat /\ CurrentVersion <= MaxVersion
      /\ LatestVersion(k) <= CurrentVersion
  BY SoundIncreasing, MaxVersionAssumption DEF Sound, Shape, CurrentVersion, HistoriesIncreasing
<1>2. VisibleAt(table[k], CurrentVersion) = LogAsOf(k, CurrentVersion)
  BY <1>1, SoundReads, MaxVersionAssumption DEF VisibleAboveHorizon, GetAsOf
<1>3. CASE table[k] = <<>>
  <2>1. VisibleAt(table[k], CurrentVersion) = Tombstone
    BY <1>1, <1>3 DEF VisibleAt, PartitionPoint
  <2> QED
    BY <1>2, <1>3, <2>1 DEF Get
<1>4. CASE table[k] # <<>>
  <2>1. PICK n \in Nat \ {0} : n = Len(table[k])
    BY <1>1, <1>4
  <2> DEFINE e == table[k][n]
  <2>2. e \in Entries(table[k])
    BY <2>1 DEF Entries
  <2>3. e.version = LatestOf(table[k])
    BY <1>4, <2>1 DEF LatestOf
  <2> HIDE DEF e
  <2>4. NewestWithin(table[k], e, CurrentVersion)
    BY <1>1, <2>2, <2>3, LatestEntry DEF NewestWithin, LatestVersion
  <2>5. VisibleAt(table[k], CurrentVersion) = e.value
    BY <1>1, <2>4, VisibleEntry
  <2> QED
    BY <1>2, <1>4, <2>1, <2>5 DEF Get, e
<1> QED
  BY <1>3, <1>4

===============================================================================
