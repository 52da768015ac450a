------------------------ MODULE MCTransactionManager ------------------------
(* Finite instance of TransactionManager for TLC. *)
EXTENDS TransactionManager
=============================================================================
