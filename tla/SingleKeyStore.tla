---------------------------- MODULE SingleKeyStore ----------------------------
(***************************************************************************)
(* VersionStore used the way KVStore is: single-key Put, Delete and Get    *)
(* without snapshots, while a collector runs at any boundary up to the     *)
(* current version.  To such callers it is a KVStore.                      *)
(***************************************************************************)
EXTENDS VersionStore

SingleNext ==
  \/ \E k \in Key, v \in Value : Put(k, v)
  \/ \E k \in Key : Delete(k)
  \/ \E b \in 0 .. CurrentVersion : CollectGarbage(b)

SingleSpec == Init /\ [][SingleNext]_storeVars

\* The keys whose latest version holds a value.
Present == {k \in Key : Get(k) # Tombstone}

LatestValues == [k \in Present |-> Get(k)]

KV == INSTANCE KVStore WITH table <- LatestValues, NotFound <- Tombstone

\* A write does to the map what KVStore's operation of the same name does, and
\* nothing else changes it.
Simulates ==
  \/ \E k \in Key, v \in Value : Put(k, v) /\ KV!Put(k, v)
  \/ \E k \in Key : Delete(k) /\ KV!Delete(k)
  \/ UNCHANGED next_version /\ UNCHANGED LatestValues

\* Versions, tombstones and their collection are invisible to callers that use no
\* snapshot: operation by operation the store is the plain map of KVStore, in which
\* Delete of an absent, deleted or collected key is NotFound, and a pass, whatever
\* its boundary, changes nothing (version_store.cpp:7-64, 140-189 against
\* kv_store.cpp:5-41), also when others apply batches in between.  For SingleSpec
\* it implies KV!Spec.
ImplementsKVStore == KV!Init /\ [][SingleNext => Simulates]_storeVars

\* KeyCount also counts deleted keys, but not for ever, as "Number of distinct keys
\* ever written" (version_store.h:96) would have it: once a pass has run at the
\* current version it is the number of keys present, so that deletes do not leak
\* keys (version_store.cpp:171-183; tests/test_version_store.cpp:289).
KeysReclaimed == horizon = CurrentVersion => KeyCount = KV!Size

===============================================================================
