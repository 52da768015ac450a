-------------------------------- MODULE Totals --------------------------------
(***************************************************************************)
(* Sums over a finite set, as the loops of the code compute them with an   *)
(* accumulator.  A sum is counted here as the size of a disjoint union, so *)
(* that what is known of cardinalities applies to it.                      *)
(***************************************************************************)
EXTENDS Integers, FiniteSets

\* f[x] units for each x.
Units(f) == UNION {{x} \X (1 .. f[x]) : x \in DOMAIN f}

\* The sum of the values of f, which are naturals.
Total(f) == Cardinality(Units(f))

===============================================================================
