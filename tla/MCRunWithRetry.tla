---------------------------- MODULE MCRunWithRetry ----------------------------
(* Finite instances of RunWithRetry for TLC. *)
EXTENDS RunWithRetry, TLC

\* Threads that call RunWithRetry are interchangeable.
CallerSymmetry == Permutations(Caller)
===============================================================================
