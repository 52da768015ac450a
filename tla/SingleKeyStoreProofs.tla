------------------------ MODULE SingleKeyStoreProofs --------------------------
(***************************************************************************)
(* To callers without snapshots VersionStore is a KVStore, for every set   *)
(* of keys and values and any number of versions.                          *)
(***************************************************************************)
EXTENDS SingleKeyStore, VersionStoreProofs

\* What Get answers from a history.
Newest(h) == IF h = <<>> THEN Tombstone ELSE h[Len(h)].value

\* Collection keeps the newest value of a history, or drops the history because
\* that value is a tombstone.
LEMMA CollectedNewest ==
  ASSUME NEW h \in Seq(VersionedValue), NEW bound \in Nat
  PROVE  Newest(Collected(h, bound)) = Newest(h)
<1> DEFINE n == PartitionPoint(h, bound)
           c == Collected(h, bound)
<1>1. n \in 0 .. Len(h) /\ Len(h) \in Nat
  BY PartitionPointSplits, HistoryEntries
<1>2. \/ n = 0 /\ c = h
      \/ n = Len(h) /\ n > 0 /\ h[n].value = Tombstone /\ c = <<>>
      \/ /\ n > 0
         /\ c \in Seq(VersionedValue) /\ Len(c) = Len(h) - n + 1
         /\ \A i \in 1 .. Len(c) : c[i] = h[n + i - 1]
  BY CollectedCases
<1> HIDE DEF n, c
<1>3. CASE n = 0 /\ c = h
  BY <1>3 DEF c
<1>4. CASE n = Len(h) /\ n > 0 /\ h[n].value = Tombstone /\ c = <<>>
  BY <1>4 DEF Newest, c
<1>5. CASE /\ n > 0
           /\ c \in Seq(VersionedValue) /\ Len(c) = Len(h) - n + 1
           /\ \A i \in 1 .. Len(c) : c[i] = h[n + i - 1]
  <2>1. Len(c) \in 1 .. Len(c) /\ n + Len(c) - 1 = Len(h) /\ Len(h) > 0
    BY <1>1, <1>5
  <2>2. c[Len(c)] = h[Len(h)] /\ c # <<>> /\ h # <<>>
    BY <1>5, <2>1
  <2> QED
    BY <2>2 DEF Newest, c
<1> QED
  BY <1>2, <1>3, <1>4, <1>5

\* VersionStore::Get returns the newest entry's value.
LEMMA GetNewest == \A k \in Key : Get(k) = Newest(table[k])
BY DEF Get, Newest

\* After an append, the newest value is the one appended.
LEMMA AppendedNewest ==
  ASSUME NEW h \in Seq(VersionedValue), NEW e \in VersionedValue
  PROVE  Newest(Append(h, e)) = e.value
<1>1. Append(h, e) # <<>> /\ Append(h, e)[Len(Append(h, e))] = e
  OBVIOUS
<1> QED
  BY <1>1 DEF Newest

-------------------------------------------------------------------------------
\* The empty store is the empty map.
LEMMA InitMaps == Init => KV!Init
<1> SUFFICES ASSUME Init PROVE KV!Init
  OBVIOUS
<1>1. \A k \in Key : Get(k) = Tombstone
  BY DEF Init, Get
<1>2. Present = {}
  BY <1>1 DEF Present
<1> QED
  BY <1>2 DEF KV!Init, LatestValues

\* A write of one cell changes what Get answers for that key and no other.
LEMMA WriteLatest ==
  ASSUME TypeOK, NEW k \in Key, NEW cell \in Cell, ApplyBatch([x \in {k} |-> cell])
  PROVE  \A x \in Key : Get(x)' = IF x = k THEN cell ELSE Get(x)
<1>1. \A x \in Key : table'[x] = IF x = k
                                 THEN Append(table[x], [version |-> next_version, value |-> cell])
                                 ELSE table[x]
  BY DEF ApplyBatch
<1>2. table[k] \in Seq(VersionedValue) /\ next_version \in Nat \ {0}
  BY MaxVersionAssumption DEF TypeOK
<1>3. Newest(table'[k]) = cell
  <2>1. [version |-> next_version, value |-> cell] \in VersionedValue
    BY <1>2 DEF VersionedValue
  <2> QED
    BY <1>1, <1>2, <2>1, AppendedNewest
<1>4. \A x \in Key : Get(x)' = Newest(table'[x])
  BY DEF Get, Newest
<1> QED
  BY <1>1, <1>3, <1>4, GetNewest

\* Put is KVStore's Put.
LEMMA PutSimulates ==
  ASSUME TypeOK, NEW k \in Key, NEW v \in Value, Put(k, v)
  PROVE  KV!Put(k, v)
<1>1. v \in Cell /\ v # Tombstone
  BY TombstoneAssumption DEF Cell
<1>2. \A x \in Key : Get(x)' = IF x = k THEN v ELSE Get(x)
  BY <1>1, WriteLatest DEF Put
<1>3. Present' = Present \cup {k}
  BY <1>1, <1>2 DEF Present
<1>4. LatestValues' = [x \in Present \cup {k} |-> IF x = k THEN v ELSE Get(x)]
  BY <1>2, <1>3 DEF LatestValues, Present
<1>5. [x \in Present \cup {k} |-> IF x = k THEN v ELSE Get(x)]
      = [x \in Present \cup {k} |-> IF x = k THEN v ELSE LatestValues[x]]
  BY DEF LatestValues
<1>6. DOMAIN LatestValues = Present
  BY DEF LatestValues
<1> QED
  BY <1>4, <1>5, <1>6 DEF KV!Put

\* Delete is KVStore's Delete.
LEMMA DeleteSimulates ==
  ASSUME TypeOK, NEW k \in Key, Delete(k)
  PROVE  KV!Delete(k)
<1>1. \A x \in Key : Get(x)' = IF x = k THEN Tombstone ELSE Get(x)
  BY WriteLatest DEF Delete, Cell
<1>2. k \in Present /\ Present' = Present \ {k}
  BY <1>1 DEF Present, Delete
<1>3. LatestValues' = [x \in Present \ {k} |-> LatestValues[x]]
  BY <1>1, <1>2 DEF LatestValues, Present
<1>4. DOMAIN LatestValues = Present
  BY DEF LatestValues
<1> QED
  BY <1>2, <1>3, <1>4 DEF KV!Delete, KV!Contains

\* A collection changes nothing that Get can see.
LEMMA CollectionStutters ==
  ASSUME TypeOK, NEW b \in 0 .. CurrentVersion, CollectGarbage(b)
  PROVE  UNCHANGED next_version /\ UNCHANGED LatestValues
<1>1. b \in Nat /\ \A k \in Key : table[k] \in Seq(VersionedValue)
  BY DEF TypeOK, CurrentVersion
<1>2. \A k \in Key : table'[k] = Collected(table[k], b)
  BY DEF CollectGarbage
<1>3. \A k \in Key : Newest(table'[k]) = Newest(table[k])
  BY <1>1, <1>2, CollectedNewest
<1>4. \A k \in Key : Get(k)' = Newest(table'[k])
  BY DEF Get, Newest
<1>5. \A k \in Key : Get(k)' = Get(k)
  BY <1>3, <1>4, GetNewest
<1>6. Present' = Present
  BY <1>5 DEF Present
<1>7. LatestValues' = LatestValues
  BY <1>5, <1>6 DEF LatestValues, Present
<1> QED
  BY <1>7 DEF CollectGarbage

\* So every step is a step of KVStore or invisible to it.
LEMMA StepSimulates == TypeOK /\ SingleNext => Simulates
<1> SUFFICES ASSUME TypeOK, SingleNext PROVE Simulates
  OBVIOUS
<1>1. ASSUME NEW k \in Key, NEW v \in Value, Put(k, v) PROVE Simulates
  BY <1>1, PutSimulates DEF Simulates
<1>2. ASSUME NEW k \in Key, Delete(k) PROVE Simulates
  BY <1>2, DeleteSimulates DEF Simulates
<1>3. ASSUME NEW b \in 0 .. CurrentVersion, CollectGarbage(b) PROVE Simulates
  BY <1>3, CollectionStutters DEF Simulates
<1> QED
  BY <1>1, <1>2, <1>3 DEF SingleNext

\* Whatever is collected and whatever batches others apply, VersionStore's Put and
\* Delete do to the latest values what KVStore's do to its map, and a collection
\* changes none of them.
THEOREM SingleKeyCorrect == Spec => ImplementsKVStore
<1>1. TypeOK => [SingleNext => Simulates]_storeVars
  BY StepSimulates
<1> QED
  BY <1>1, InitMaps, StoreTypeCorrect, PTL DEF Spec, ImplementsKVStore

\* So the store, used without snapshots, is an implementation of KVStore.
THEOREM SingleKeyRefines == SingleSpec => KV!Spec
<1>1. [SingleNext]_storeVars => [Next]_storeVars
  BY DEF SingleNext, Next
<1>2. TypeOK /\ [SingleNext]_storeVars => [KV!Next]_LatestValues
  <2> SUFFICES ASSUME TypeOK, [SingleNext]_storeVars, LatestValues' # LatestValues
               PROVE  KV!Next
    OBVIOUS
  <2>1. CASE UNCHANGED storeVars
    <3>1. table' = table
      BY <2>1 DEF storeVars
    <3>2. LatestValues' = LatestValues
      BY <3>1 DEF LatestValues, Present, Get
    <3> QED
      BY <3>2
  <2>2. CASE SingleNext
    BY <2>2, StepSimulates DEF Simulates, KV!Next
  <2> QED
    BY <2>1, <2>2
<1> QED
  BY <1>1, <1>2, InitMaps, StoreTypeCorrect, PTL DEF SingleSpec, Spec, KV!Spec

\* Once a pass has run at the current version, the keys that still have a history
\* are exactly the keys present, so deletes leak none.
THEOREM KeysReclaimedCorrect == Spec => []KeysReclaimed
<1>1. IInv /\ Trim => KeysReclaimed
  <2> SUFFICES ASSUME IInv, Trim, horizon = CurrentVersion PROVE KeyCount = KV!Size
    BY DEF KeysReclaimed
  <2>1. ASSUME NEW k \in Key PROVE table[k] # <<>> <=> Get(k) # Tombstone
    <3>1. /\ table[k] \in Seq(VersionedValue) /\ Retained(table[k], horizon) /\ EntriesLogged(k)
          /\ Len(log) = horizon /\ horizon \in Nat /\ Len(table[k]) \in Nat
      BY DEF IInv, Sound, Linked, TypeOK, Trim, CurrentVersion
    <3>2. \A i \in 1 .. Len(table[k]) : table[k][i].version \in Nat /\ table[k][i].version <= horizon
      BY <3>1 DEF EntriesLogged, Entries, Written
    <3>3. Len(table[k]) <= 1
      <4>1. ASSUME 2 <= Len(table[k]) PROVE FALSE
        <5>1. 2 \in 1 .. Len(table[k]) /\ 2 \in 2 .. Len(table[k])
          BY <3>1, <4>1
        <5> QED
          BY <3>1, <3>2, <5>1 DEF Retained
      <4> QED
        BY <3>1, <4>1
    <3>4. CASE table[k] # <<>>
      <4>1. Len(table[k]) = 1
        <5>1. Len(table[k]) # 0
          BY <3>1, <3>4, EmptySeq
        <5>2. PICK n \in Nat : n = Len(table[k])
          BY <3>1
        <5>3. n # 0 /\ n <= 1
          BY <3>3, <5>1, <5>2
        <5>4. n = 1
          BY <5>3
        <5> QED
          BY <5>2, <5>4
      <4>2. table[k][1].value # Tombstone
        BY <3>1, <3>2, <4>1 DEF Retained
      <4> QED
        BY <3>4, <4>1, <4>2 DEF Get
    <3> QED
      BY <3>4 DEF Get
  <2>2. {k \in Key : table[k] # <<>>} = Present
    BY <2>1 DEF Present
  <2>3. DOMAIN LatestValues = Present
    BY DEF LatestValues
  <2> QED
    BY <2>2, <2>3 DEF KeyCount, KV!Size, Cardinality, KV!Cardinality, IsFiniteSet, KV!IsFiniteSet
<1> QED
  BY <1>1, AlwaysTrim, SpecIInv, PTL

===============================================================================
