------------------------------- MODULE KVStore --------------------------------
(***************************************************************************)
(* KVStore (src/kv_store.cpp): one value per key, one mutex held for the   *)
(* whole of every method, so every method is one step; readers are state   *)
(* functions.  An empty key is refused before the lock with no effect.     *)
(* It is the baseline of the project, and here also the specification of   *)
(* what a caller of VersionStore's single-key methods may rely on.         *)
(***************************************************************************)
EXTENDS Integers, FiniteSets

CONSTANTS Key,       \* the non-empty keys
          Value,     \* values a key can hold
          NotFound   \* the answer of Get for an absent key

VARIABLE table       \* table_: a function from the keys present to their values

Init == table = [k \in {} |-> NotFound]

Contains(k) == k \in DOMAIN table

Get(k) == IF Contains(k) THEN table[k] ELSE NotFound

Size == Cardinality(DOMAIN table)

Put(k, v) == table' = [x \in DOMAIN table \cup {k} |-> IF x = k THEN v ELSE table[x]]

\* NotFound, with no effect, for an absent key.
Delete(k) ==
  /\ Contains(k)
  /\ table' = [x \in DOMAIN table \ {k} |-> table[x]]

Next == \E k \in Key : Delete(k) \/ \E v \in Value : Put(k, v)

Spec == Init /\ [][Next]_table

===============================================================================
