------------------------- MODULE MCAllocationFailure --------------------------
(* Finite instances of AllocationFailure for TLC. *)
EXTENDS AllocationFailure, TLC

\* Keys are interchangeable, and so are values.
FailSymmetry == Permutations(Key) \cup Permutations(Value)
===============================================================================
