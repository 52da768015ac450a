--------------------------- MODULE MCBackgroundThread -------------------------
(* Finite instances of BackgroundThread for TLC. *)
EXTENDS BackgroundThread, TLC

\* Controllers are interchangeable.
ControllerSymmetry == Permutations(Controller)
===============================================================================
