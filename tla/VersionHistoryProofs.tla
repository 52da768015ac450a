------------------------ MODULE VersionHistoryProofs --------------------------
(***************************************************************************)
(* Facts about one key's history: what the binary search returns on a      *)
(* sorted history, what a snapshot sees, and what a collection keeps.      *)
(***************************************************************************)
EXTENDS VersionHistory, TLAPS, WellFoundedInduction, SequenceTheorems

Entries(h) == {h[i] : i \in 1 .. Len(h)}

\* e is the newest entry of h whose version is at most bound.
NewestWithin(h, e, bound) ==
  /\ e \in Entries(h)
  /\ e.version <= bound
  /\ \A f \in Entries(h) : f.version <= bound => f.version <= e.version

-------------------------------------------------------------------------------
\* A non-empty set of naturals has a least element.
LEMMA NatMin ==
  ASSUME NEW T, T \subseteq Nat, T # {}
  PROVE  \E m \in T : \A x \in T : m <= x
<1>1. PICK m \in T : \A y \in T : ~ (<<y, m>> \in OpToRel(<, Nat))
  BY NatLessThanWellFounded, WFMin
<1>2. \A y \in T : ~ (y < m)
  BY <1>1 DEF OpToRel
<1> QED
  BY <1>2

\* The entries of a history are versioned values.
LEMMA HistoryEntries ==
  ASSUME NEW h \in Seq(VersionedValue)
  PROVE  /\ Len(h) \in Nat
         /\ \A i \in 1 .. Len(h) : h[i] \in VersionedValue /\ h[i].version \in Nat
<1>1. Len(h) \in Nat
  OBVIOUS
<1>2. \A i \in 1 .. Len(h) : h[i] \in VersionedValue
  OBVIOUS
<1>3. \A e \in VersionedValue : e.version \in Nat
  BY DEF VersionedValue
<1> QED
  BY <1>1, <1>2, <1>3

\* partition_point always has a split to return (version_store.cpp:85, 152): the
\* least index whose right neighbour is out of bound.
LEMMA PartitionPointSplits ==
  ASSUME NEW h \in Seq(VersionedValue), NEW bound \in Nat
  PROVE  /\ PartitionPoint(h, bound) \in 0 .. Len(h)
         /\ PartitionPoint(h, bound) > 0 =>
              h[PartitionPoint(h, bound)].version <= bound
         /\ PartitionPoint(h, bound) < Len(h) =>
              h[PartitionPoint(h, bound) + 1].version > bound
<1> DEFINE Split(n) == /\ n > 0 => h[n].version <= bound
                       /\ n < Len(h) => h[n + 1].version > bound
           T == {n \in 0 .. Len(h) : n < Len(h) => h[n + 1].version > bound}
<1>0. Len(h) \in Nat /\ \A i \in 1 .. Len(h) : h[i].version \in Nat
  BY HistoryEntries
<1>1. T \subseteq Nat /\ Len(h) \in T
  BY <1>0
<1>2. PICK m \in T : \A x \in T : m <= x
  <2> HIDE DEF T
  <2> QED BY <1>1, NatMin
<1>3. m > 0 => h[m].version <= bound
  <2>0. m \in 0 .. Len(h)
    BY <1>2
  <2>1. m > 0 => m - 1 \notin T /\ m - 1 \in 0 .. Len(h)
    <3> HIDE DEF T
    <3> QED BY <1>0, <1>2, <2>0
  <2> QED
    BY <1>0, <2>0, <2>1
<1>4. \E n \in 0 .. Len(h) : Split(n)
  BY <1>2, <1>3
<1>5. Split(CHOOSE n \in 0 .. Len(h) : Split(n))
      /\ (CHOOSE n \in 0 .. Len(h) : Split(n)) \in 0 .. Len(h)
  <2> HIDE DEF Split
  <2> QED BY <1>4
<1> QED
  BY <1>5 DEF PartitionPoint

\* On an increasing history the split separates all in-bound entries from all
\* others.
LEMMA PartitionPointOrdered ==
  ASSUME NEW h \in Seq(VersionedValue), NEW bound \in Nat, Increasing(h)
  PROVE  \A i \in 1 .. Len(h) : i <= PartitionPoint(h, bound) <=> h[i].version <= bound
<1> DEFINE n == PartitionPoint(h, bound)
<1>1. /\ n \in 0 .. Len(h)
      /\ n > 0 => h[n].version <= bound
      /\ n < Len(h) => h[n + 1].version > bound
  BY PartitionPointSplits
<1>2. Len(h) \in Nat /\ \A i \in 1 .. Len(h) : h[i].version \in Nat
  BY HistoryEntries
<1> HIDE DEF n
<1>3. ASSUME NEW i \in 1 .. Len(h), i <= n PROVE h[i].version <= bound
  BY <1>1, <1>2, <1>3 DEF Increasing
<1>4. ASSUME NEW i \in 1 .. Len(h), ~ (i <= n) PROVE ~ (h[i].version <= bound)
  BY <1>1, <1>2, <1>4 DEF Increasing
<1> QED
  BY <1>3, <1>4 DEF n

\* The three outcomes of one iteration of CollectGarbage: nothing in bound, the
\* key dropped for its lone tombstone, or the superseded prefix erased.
LEMMA CollectedCases ==
  ASSUME NEW h \in Seq(VersionedValue), NEW bound \in Nat
  PROVE  LET n == PartitionPoint(h, bound)
             c == Collected(h, bound)
         IN \/ n = 0 /\ c = h
            \/ n = Len(h) /\ n > 0 /\ h[n].value = Tombstone /\ c = <<>>
            \/ /\ n > 0
               /\ c \in Seq(VersionedValue) /\ Len(c) = Len(h) - n + 1
               /\ \A i \in 1 .. Len(c) : c[i] = h[n + i - 1]
               /\ ~(Len(c) = 1 /\ c[1].value = Tombstone)
<1> DEFINE n == PartitionPoint(h, bound)
           rest == SubSeq(h, n, Len(h))
<1>1. n \in 0 .. Len(h) /\ Len(h) \in Nat
  BY PartitionPointSplits
<1> HIDE DEF n
<1>2. CASE n > 0
  <2>1. /\ rest \in Seq(VersionedValue)
        /\ Len(rest) = Len(h) - n + 1
        /\ \A i \in 1 .. Len(h) - n + 1 : rest[i] = h[n + i - 1]
    <3>1. \A i \in n .. Len(h) : h[i] \in VersionedValue
      BY <1>1, <1>2
    <3> QED
      BY <1>1, <1>2, <3>1, SubSeqProperties
  <2>2. rest[1] = h[n]
    BY <1>1, <1>2, <2>1
  <2>3. Collected(h, bound) = IF Len(rest) = 1 /\ rest[1].value = Tombstone THEN <<>> ELSE rest
    <3>1. n # 0
      BY <1>1, <1>2
    <3> QED
      BY <3>1 DEF Collected, n
  <2> HIDE DEF rest
  <2>4. CASE Len(rest) = 1 /\ rest[1].value = Tombstone
    <3>0. Len(h) - n + 1 = 1
      BY <2>1, <2>4
    <3>1. n = Len(h)
      BY <1>1, <3>0
    <3>2. h[n].value = Tombstone /\ Collected(h, bound) = <<>>
      BY <2>2, <2>3, <2>4
    <3> QED
      BY <1>2, <3>1, <3>2 DEF n
  <2>5. CASE ~ (Len(rest) = 1 /\ rest[1].value = Tombstone)
    BY <1>1, <1>2, <2>1, <2>3, <2>5 DEF n
  <2> QED
    BY <2>4, <2>5
<1>3. CASE n = 0
  BY <1>3 DEF Collected, n
<1> QED
  BY <1>1, <1>2, <1>3

\* A collection keeps the history sorted, invents nothing, keeps everything newer
\* than the boundary, and keeps the newest in-bound entry unless that is a
\* tombstone and the whole key goes (version_store.cpp:161-183).
LEMMA CollectedHistory ==
  ASSUME NEW h \in Seq(VersionedValue), NEW bound \in Nat, Increasing(h)
  PROVE  /\ Collected(h, bound) \in Seq(VersionedValue)
         /\ Increasing(Collected(h, bound))
         /\ Entries(Collected(h, bound)) \subseteq Entries(h)
         /\ \A e \in Entries(h) : e.version > bound => e \in Entries(Collected(h, bound))
         /\ \A e : NewestWithin(h, e, bound)
                => \/ e \in Entries(Collected(h, bound))
                   \/ e.value = Tombstone /\ Collected(h, bound) = <<>>
<1> DEFINE n == PartitionPoint(h, bound)
           c == Collected(h, bound)
<1>1. /\ Len(h) \in Nat
      /\ \A i \in 1 .. Len(h) : h[i] \in VersionedValue /\ h[i].version \in Nat
  BY HistoryEntries
<1>2. n \in 0 .. Len(h) /\ \A i \in 1 .. Len(h) : i <= n <=> h[i].version <= bound
  BY PartitionPointSplits, PartitionPointOrdered
<1>3. \/ n = 0 /\ c = h
      \/ n = Len(h) /\ n > 0 /\ h[n].value = Tombstone /\ c = <<>>
      \/ /\ n > 0
         /\ c \in Seq(VersionedValue) /\ Len(c) = Len(h) - n + 1
         /\ \A i \in 1 .. Len(c) : c[i] = h[n + i - 1]
  BY CollectedCases
<1> HIDE DEF n, c
<1>4. \A i, j \in 1 .. Len(h) : i <= j <=> h[i].version <= h[j].version
  BY <1>1 DEF Increasing
<1> SUFFICES /\ c \in Seq(VersionedValue) /\ Increasing(c) /\ Entries(c) \subseteq Entries(h)
             /\ \A i \in 1 .. Len(h) : h[i].version > bound => h[i] \in Entries(c)
             /\ n > 0 => h[n] \in Entries(c) \/ (h[n].value = Tombstone /\ c = <<>>)
  <2>1. ASSUME NEW e, NewestWithin(h, e, bound)
        PROVE  n > 0 /\ e = h[n]
    <3>0. /\ e \in Entries(h) /\ e.version <= bound
          /\ \A f \in Entries(h) : f.version <= bound => f.version <= e.version
      BY <2>1 DEF NewestWithin
    <3>1. PICK i \in 1 .. Len(h) : e = h[i]
      BY <3>0 DEF Entries
    <3>2. i <= n /\ n \in 1 .. Len(h)
      BY <1>1, <1>2, <3>0, <3>1
    <3>3. h[n].version <= bound /\ h[n] \in Entries(h)
      BY <1>2, <3>2 DEF Entries
    <3>4. n <= i
      BY <1>4, <3>0, <3>1, <3>2, <3>3
    <3> QED
      BY <1>2, <3>1, <3>2, <3>4
  <2>2. \A e \in Entries(h) : \E i \in 1 .. Len(h) : e = h[i]
    BY DEF Entries
  <2> QED
    BY <2>1, <2>2 DEF c
<1>5. CASE n = 0 /\ c = h
  BY <1>5 DEF Entries
<1>6. CASE n = Len(h) /\ n > 0 /\ h[n].value = Tombstone /\ c = <<>>
  <2>1. c \in Seq(VersionedValue) /\ Increasing(c) /\ Entries(c) = {}
    BY <1>6 DEF Increasing, Entries
  <2>2. \A i \in 1 .. Len(h) : ~ (h[i].version > bound)
    BY <1>1, <1>2, <1>6
  <2> QED
    BY <1>6, <2>1, <2>2
<1>7. CASE /\ n > 0
           /\ c \in Seq(VersionedValue) /\ Len(c) = Len(h) - n + 1
           /\ \A i \in 1 .. Len(c) : c[i] = h[n + i - 1]
  <2>0. \A i \in 1 .. Len(c) : n + i - 1 \in 1 .. Len(h)
    BY <1>1, <1>2, <1>7
  <2>1. Increasing(c)
    <3>1. ASSUME NEW i \in 1 .. Len(c), NEW j \in 1 .. Len(c), i < j
          PROVE  c[i].version < c[j].version
      <4>1. n + i - 1 < n + j - 1
        BY <1>1, <1>2, <1>7, <3>1
      <4> QED
        BY <1>7, <2>0, <3>1, <4>1 DEF Increasing
    <3> QED
      BY <3>1 DEF Increasing
  <2>2. Entries(c) \subseteq Entries(h)
    BY <1>7, <2>0 DEF Entries
  <2>3. ASSUME NEW i \in n .. Len(h) PROVE h[i] \in Entries(c)
    <3>1. i - n + 1 \in 1 .. Len(c) /\ n + (i - n + 1) - 1 = i
      BY <1>1, <1>2, <1>7
    <3>2. c[i - n + 1] = h[i]
      BY <1>7, <3>1
    <3> QED
      BY <3>1, <3>2 DEF Entries
  <2>4. \A i \in 1 .. Len(h) : h[i].version > bound => i \in n .. Len(h)
    BY <1>1, <1>2, <1>7
  <2>5. n \in n .. Len(h)
    BY <1>1, <1>2
  <2>6. h[n] \in Entries(c)
    BY <2>3, <2>5
  <2>7. \A i \in 1 .. Len(h) : h[i].version > bound => h[i] \in Entries(c)
    BY <2>3, <2>4
  <2>8. c \in Seq(VersionedValue)
    BY <1>7
  <2> QED
    BY <2>1, <2>2, <2>6, <2>7, <2>8
<1> QED
  BY <1>3, <1>5, <1>6, <1>7

\* GetAsOf answers with the newest entry at or before as_of, and NotFound if
\* there is none (version_store.cpp:79-98).
LEMMA VisibleEntry ==
  ASSUME NEW h \in Seq(VersionedValue), NEW as_of \in Nat, Increasing(h)
  PROVE  /\ (\A e \in Entries(h) : ~ (e.version <= as_of)) => VisibleAt(h, as_of) = Tombstone
         /\ \A e : NewestWithin(h, e, as_of) => VisibleAt(h, as_of) = e.value
<1> DEFINE n == PartitionPoint(h, as_of)
<1>1. /\ Len(h) \in Nat
      /\ \A i \in 1 .. Len(h) : h[i] \in VersionedValue /\ h[i].version \in Nat
  BY HistoryEntries
<1>2. n \in 0 .. Len(h) /\ \A i \in 1 .. Len(h) : i <= n <=> h[i].version <= as_of
  BY PartitionPointSplits, PartitionPointOrdered
<1>3. VisibleAt(h, as_of) = IF n = 0 THEN Tombstone ELSE h[n].value
  BY DEF VisibleAt
<1> HIDE DEF n
<1>4. n # 0 => n \in 1 .. Len(h) /\ h[n] \in Entries(h) /\ h[n].version <= as_of
  BY <1>1, <1>2 DEF Entries
<1>5. ASSUME NEW e, NewestWithin(h, e, as_of)
      PROVE  n # 0 /\ e = h[n]
  <2>0. /\ e \in Entries(h) /\ e.version <= as_of
        /\ \A f \in Entries(h) : f.version <= as_of => f.version <= e.version
    BY <1>5 DEF NewestWithin
  <2>1. PICK i \in 1 .. Len(h) : e = h[i]
    BY <2>0 DEF Entries
  <2>2. i <= n /\ n # 0
    BY <1>1, <1>2, <2>0, <2>1
  <2>3. ~ (i < n)
    <3>1. h[n].version <= h[i].version
      BY <1>4, <2>0, <2>1, <2>2
    <3> QED
      BY <1>1, <1>4, <2>2, <3>1 DEF Increasing
  <2>4. i = n
    BY <1>2, <2>2, <2>3
  <2> QED
    BY <2>1, <2>2, <2>4
<1> QED
  BY <1>3, <1>4, <1>5

\* The version the conflict check compares with is the newest of the key's.
LEMMA LatestEntry ==
  ASSUME NEW h \in Seq(VersionedValue), Increasing(h)
  PROVE  /\ LatestOf(h) \in Nat
         /\ h # <<>> => \E e \in Entries(h) : e.version = LatestOf(h)
         /\ h = <<>> => LatestOf(h) = 0
         /\ \A e \in Entries(h) : e.version <= LatestOf(h)
<1>1. /\ Len(h) \in Nat
      /\ \A i \in 1 .. Len(h) : h[i] \in VersionedValue /\ h[i].version \in Nat
  BY HistoryEntries
<1>2. CASE h = <<>>
  BY <1>2 DEF LatestOf, Entries
<1>3. CASE h # <<>>
  <2>1. Len(h) \in 1 .. Len(h)
    BY <1>1, <1>3
  <2>2. LatestOf(h) = h[Len(h)].version
    BY <1>3 DEF LatestOf
  <2>3. \A i \in 1 .. Len(h) : h[i].version <= h[Len(h)].version
    BY <1>1, <2>1 DEF Increasing
  <2> QED
    BY <1>1, <1>3, <2>1, <2>2, <2>3 DEF Entries
<1> QED
  BY <1>2, <1>3

\* Appending a newer entry keeps the history sorted and adds just that entry.
LEMMA AppendedHistory ==
  ASSUME NEW h \in Seq(VersionedValue), Increasing(h),
         NEW e \in VersionedValue, \A f \in Entries(h) : f.version < e.version
  PROVE  /\ Append(h, e) \in Seq(VersionedValue)
         /\ Increasing(Append(h, e))
         /\ Entries(Append(h, e)) = Entries(h) \cup {e}
<1> DEFINE a == Append(h, e)
<1>1. /\ a \in Seq(VersionedValue) /\ Len(h) \in Nat /\ Len(a) = Len(h) + 1
      /\ a[Len(h) + 1] = e /\ \A i \in 1 .. Len(h) : a[i] = h[i]
  BY AppendProperties
<1> HIDE DEF a
<1>2. Entries(a) = Entries(h) \cup {e}
  <2>1. 1 .. Len(a) = 1 .. Len(h) \cup {Len(h) + 1}
    BY <1>1
  <2> QED
    BY <1>1, <2>1 DEF Entries
<1>3. ASSUME NEW i \in 1 .. Len(a), NEW j \in 1 .. Len(a), i < j
      PROVE  a[i].version < a[j].version
  <2>1. i \in 1 .. Len(h)
    BY <1>1, <1>3
  <2>2. CASE j \in 1 .. Len(h)
    BY <1>1, <1>3, <2>1, <2>2 DEF Increasing
  <2>3. CASE j = Len(h) + 1
    BY <1>1, <2>1, <2>3 DEF Entries
  <2> QED
    BY <1>1, <2>2, <2>3
<1> QED
  BY <1>1, <1>2, <1>3 DEF Increasing, a

\* What a collection at `bound` may leave: one entry within the bound at most, and
\* not a tombstone alone.
Retained(h, bound) ==
  /\ \A i \in 2 .. Len(h) : h[i].version > bound
  /\ Len(h) = 1 /\ h[1].version <= bound => h[1].value # Tombstone

\* A collection leaves no more, whether its boundary is newer than the last one or
\* older (version_store.cpp:161-183).
LEMMA CollectedRetained ==
  ASSUME NEW h \in Seq(VersionedValue), Increasing(h), NEW last \in Nat, NEW bound \in Nat,
         Retained(h, last)
  PROVE  Retained(Collected(h, bound), IF bound > last THEN bound ELSE last)
<1> DEFINE n == PartitionPoint(h, bound)
           c == Collected(h, bound)
           top == IF bound > last THEN bound ELSE last
<1>1. /\ Len(h) \in Nat
      /\ \A i \in 1 .. Len(h) : h[i] \in VersionedValue /\ h[i].version \in Nat
  BY HistoryEntries
<1>2. n \in 0 .. Len(h) /\ \A i \in 1 .. Len(h) : i <= n <=> h[i].version <= bound
  BY PartitionPointSplits, PartitionPointOrdered
<1>3. \/ n = 0 /\ c = h
      \/ n = Len(h) /\ n > 0 /\ h[n].value = Tombstone /\ c = <<>>
      \/ /\ n > 0
         /\ c \in Seq(VersionedValue) /\ Len(c) = Len(h) - n + 1
         /\ \A i \in 1 .. Len(c) : c[i] = h[n + i - 1]
         /\ ~(Len(c) = 1 /\ c[1].value = Tombstone)
  BY CollectedCases
<1> HIDE DEF n, c
<1>4. CASE n = 0 /\ c = h
  <2>1. \A i \in 1 .. Len(h) : h[i].version > bound
    BY <1>1, <1>2, <1>4
  <2> QED
    BY <1>1, <1>4, <2>1 DEF Retained, c
<1>5. CASE c = <<>>
  BY <1>5 DEF Retained, c
<1>6. CASE /\ n > 0
           /\ c \in Seq(VersionedValue) /\ Len(c) = Len(h) - n + 1
           /\ \A i \in 1 .. Len(c) : c[i] = h[n + i - 1]
           /\ ~(Len(c) = 1 /\ c[1].value = Tombstone)
  <2>1. ASSUME NEW i \in 2 .. Len(c) PROVE c[i].version > top
    <3>1. n + i - 1 \in 2 .. Len(h) /\ c[i] = h[n + i - 1] /\ ~(n + i - 1 <= n)
      BY <1>1, <1>2, <1>6
    <3>2. h[n + i - 1].version > bound /\ h[n + i - 1].version > last
      BY <1>1, <1>2, <3>1 DEF Retained
    <3> QED
      BY <3>1, <3>2
  <2> QED
    BY <1>6, <2>1 DEF Retained, c
<1> QED
  BY <1>3, <1>4, <1>5, <1>6

\* An append above the last boundary leaves the history as trimmed as it was.
LEMMA AppendedRetained ==
  ASSUME NEW h \in Seq(VersionedValue), NEW e \in VersionedValue, NEW last \in Nat,
         Retained(h, last), e.version > last
  PROVE  Retained(Append(h, e), last)
<1>1. /\ Len(h) \in Nat /\ Len(Append(h, e)) = Len(h) + 1 /\ e.version \in Nat
      /\ \A i \in 1 .. Len(h) + 1 : Append(h, e)[i] = IF i = Len(h) + 1 THEN e ELSE h[i]
  BY DEF VersionedValue
<1>2. Len(h) + 1 = 1 => Append(h, e)[1] = e
  BY <1>1
<1> QED
  BY <1>1, <1>2 DEF Retained

\* A collection keeps the newest entry of a history that goes beyond its boundary.
LEMMA CollectedLatest ==
  ASSUME NEW h \in Seq(VersionedValue), NEW bound \in Nat
  PROVE  /\ Collected(h, bound) \in Seq(VersionedValue)
         /\ LatestOf(h) > bound => LatestOf(Collected(h, bound)) = LatestOf(h)
<1> DEFINE n == PartitionPoint(h, bound)
           c == Collected(h, bound)
<1>1. /\ n \in 0 .. Len(h) /\ Len(h) \in Nat /\ (n > 0 => h[n].version <= bound)
      /\ \A i \in 1 .. Len(h) : h[i].version \in Nat
  BY PartitionPointSplits, HistoryEntries
<1>2. \/ n = 0 /\ c = h
      \/ n = Len(h) /\ n > 0 /\ h[n].value = Tombstone /\ c = <<>>
      \/ /\ n > 0
         /\ c \in Seq(VersionedValue) /\ Len(c) = Len(h) - n + 1
         /\ \A i \in 1 .. Len(c) : c[i] = h[n + i - 1]
  BY CollectedCases
<1> HIDE DEF n, c
<1>3. CASE n = 0 /\ c = h
  BY <1>3 DEF c
<1>4. CASE n = Len(h) /\ n > 0 /\ h[n].value = Tombstone /\ c = <<>>
  <2>1. h # <<>> /\ LatestOf(h) <= bound /\ LatestOf(h) \in Nat
    BY <1>1, <1>4 DEF LatestOf
  <2> QED
    BY <1>4, <2>1 DEF c
<1>5. CASE /\ n > 0
           /\ c \in Seq(VersionedValue) /\ Len(c) = Len(h) - n + 1
           /\ \A i \in 1 .. Len(c) : c[i] = h[n + i - 1]
  <2>1. Len(c) \in 1 .. Len(c) /\ n + Len(c) - 1 = Len(h) /\ Len(h) > 0
    BY <1>1, <1>5
  <2>2. c[Len(c)] = h[Len(h)] /\ c # <<>> /\ h # <<>>
    BY <1>5, <2>1
  <2> QED
    BY <1>5, <2>2 DEF LatestOf, c
<1> QED
  BY <1>2, <1>3, <1>4, <1>5

\* What a collection counts as reclaimed is what it drops, it invents nothing, and
\* it drops a whole key only for a tombstone.
LEMMA CollectedCounts ==
  ASSUME NEW h \in Seq(VersionedValue), NEW bound \in Nat
  PROVE  /\ Collected(h, bound) \in Seq(VersionedValue)
         /\ Reclaimed(h, bound) \in Nat
         /\ Len(h) = Len(Collected(h, bound)) + Reclaimed(h, bound)
         /\ \A i \in 1 .. Len(Collected(h, bound)) :
              \E j \in 1 .. Len(h) : Collected(h, bound)[i] = h[j]
         /\ h # <<>> /\ Collected(h, bound) = <<>> =>
              Len(h) \in 1 .. Len(h) /\ h[Len(h)].value = Tombstone
<1> DEFINE n == PartitionPoint(h, bound)
           c == Collected(h, bound)
<1>1. n \in 0 .. Len(h) /\ Len(h) \in Nat
  BY PartitionPointSplits, HistoryEntries
<1>2. \/ n = 0 /\ c = h
      \/ n = Len(h) /\ n > 0 /\ h[n].value = Tombstone /\ c = <<>>
      \/ /\ n > 0
         /\ c \in Seq(VersionedValue) /\ Len(c) = Len(h) - n + 1
         /\ \A i \in 1 .. Len(c) : c[i] = h[n + i - 1]
  BY CollectedCases
<1>3. Reclaimed(h, bound) = IF n = 0 THEN 0 ELSE (n - 1) + (IF c = <<>> THEN 1 ELSE 0)
  BY DEF Reclaimed
<1> HIDE DEF n, c
<1>4. CASE n = 0 /\ c = h
  <2>1. Reclaimed(h, bound) = 0 /\ Collected(h, bound) = h
    BY <1>3, <1>4 DEF c
  <2> QED
    BY <1>1, <2>1
<1>5. CASE n = Len(h) /\ n > 0 /\ h[n].value = Tombstone /\ c = <<>>
  <2>1. /\ Reclaimed(h, bound) = Len(h) /\ Collected(h, bound) = <<>>
        /\ Len(h) \in 1 .. Len(h) /\ h[Len(h)].value = Tombstone
    BY <1>1, <1>3, <1>5 DEF c
  <2> QED
    BY <1>1, <2>1
<1>6. CASE /\ n > 0
           /\ c \in Seq(VersionedValue) /\ Len(c) = Len(h) - n + 1
           /\ \A i \in 1 .. Len(c) : c[i] = h[n + i - 1]
  <2>1. PICK m \in Nat : m = Len(c)
    BY <1>6
  <2>2. m = Len(h) - n + 1 /\ m > 0
    BY <1>1, <1>6, <2>1
  <2>3. c # <<>>
    BY <1>6, <2>1, <2>2
  <2>4. Reclaimed(h, bound) = n - 1 /\ n - 1 \in Nat /\ Len(h) = m + (n - 1)
    BY <1>1, <1>3, <1>6, <2>2, <2>3
  <2>5. ASSUME NEW i \in 1 .. m PROVE \E j \in 1 .. Len(h) : c[i] = h[j]
    <3>1. n + i - 1 \in 1 .. Len(h) /\ c[i] = h[n + i - 1]
      BY <1>1, <1>6, <2>1, <2>2
    <3> QED
      BY <3>1
  <2> QED
    BY <1>6, <2>1, <2>3, <2>4, <2>5 DEF c
<1> QED
  BY <1>2, <1>4, <1>5, <1>6

===============================================================================
