-------------------------- MODULE MCGarbageCollector --------------------------
(* Finite instances of the whole system for TLC. *)
EXTENDS GarbageCollector, TLC

F == INSTANCE FiniteSetsExt

\* Keys are interchangeable, and so are values and collector threads.
SysSymmetry == Permutations(Key) \cup Permutations(Value) \cup Permutations(Scanner)

\* Totals are sums.
ASSUME TotalsAreSums ==
  \A f \in [1 .. 3 -> 0 .. 3] : Total(f) = F!MapThenSumSet(LAMBDA x : f[x], 1 .. 3)
===============================================================================
