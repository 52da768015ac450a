---------------------------- MODULE MCVersionStore ----------------------------
(* Finite instance of the store for TLC. *)
EXTENDS SingleKeyStore, TLC

\* Keys are interchangeable, and so are values.
StoreSymmetry == Permutations(Key) \cup Permutations(Value)
===============================================================================
