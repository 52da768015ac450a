---------------------------- MODULE VersionHistory ----------------------------
(***************************************************************************)
(* One key's version history (std::vector<VersionedValue>) and the pure    *)
(* computations src/version_store.cpp makes on it: the binary search both  *)
(* GetAsOf and CollectGarbage start with, the value a snapshot sees, and   *)
(* what a collection leaves.  The empty history stands for a key with no   *)
(* entry in table_: every method but KeyCount treats the two alike, and    *)
(* only a push_back that throws leaves an empty vector behind.             *)
(***************************************************************************)
EXTENDS Integers, Sequences

CONSTANTS Value,      \* values a key can hold
          Tombstone   \* std::nullopt: deleted, and so also "not found"

ASSUME TombstoneAssumption == Tombstone \notin Value

Cell == Value \cup {Tombstone}

VersionedValue == [version : Nat \ {0}, value : Cell]

\* std::partition_point over `version <= bound`: a binary search returns some
\* split with an in-bound entry (or nothing) on its left and an out-of-bound
\* entry (or nothing) on its right.  On an increasing history there is one.
PartitionPoint(h, bound) ==
  CHOOSE n \in 0 .. Len(h) : /\ n > 0 => h[n].version <= bound
                             /\ n < Len(h) => h[n + 1].version > bound

Increasing(h) == \A i, j \in 1 .. Len(h) : i < j => h[i].version < h[j].version

Mut_LatestOfFront(h) == IF h = <<>> THEN 0 ELSE h[1].version

\* The version of the newest entry, 0 for none.
LatestOf(h) == IF h = <<>> THEN 0 ELSE h[Len(h)].version

\* VersionStore::GetAsOf on the key's history: Tombstone is NotFound.
VisibleAt(h, as_of) ==
  LET n == PartitionPoint(h, as_of)
  IN IF n = 0 THEN Tombstone ELSE h[n].value

Mut_CollectedPastBoundary(h, bound) ==
  SubSeq(h, PartitionPoint(h, bound) + 1, Len(h))

Mut_CollectedKeepsOneMore(h, bound) ==
  LET n == PartitionPoint(h, bound)
  IN IF n < 2 THEN h ELSE SubSeq(h, n - 1, Len(h))

Mut_CollectedDropsOnTombstone(h, bound) ==
  LET n    == PartitionPoint(h, bound)
      rest == SubSeq(h, n, Len(h))
  IN IF n = 0 THEN h ELSE IF rest[1].value = Tombstone THEN <<>> ELSE rest

\* One iteration of CollectGarbage's loop: drop what the newest in-bound entry
\* supersedes; if only that entry is left and it is a tombstone, drop the key.
Collected(h, bound) ==
  LET n    == PartitionPoint(h, bound)
      rest == SubSeq(h, n, Len(h))
  IN IF n = 0 THEN h
     ELSE IF Len(rest) = 1 /\ rest[1].value = Tombstone THEN <<>>
     ELSE rest

\* What that iteration adds to GCStats.versions_reclaimed: the superseded
\* entries, and the tombstone itself when the key is dropped.
Reclaimed(h, bound) ==
  LET n == PartitionPoint(h, bound)
  IN IF n = 0 THEN 0
     ELSE (n - 1) + (IF Collected(h, bound) = <<>> THEN 1 ELSE 0)

===============================================================================
