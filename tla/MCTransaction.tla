----------------------------- MODULE MCTransaction ----------------------------
(* Finite instance of Transaction for TLC. *)
EXTENDS Transaction, TLC

\* Keys are interchangeable, and so are values.
DataSymmetry == Permutations(Key) \cup Permutations(Value)

\* Direct batches that write every key.
WholeBatches == [Key -> Value \cup {Tombstone}]
===============================================================================
