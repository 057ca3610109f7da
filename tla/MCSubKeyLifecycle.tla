-------------------------- MODULE MCSubKeyLifecycle --------------------------
(* Finite instances of SubKeyLifecycle for TLC. *)
EXTENDS SubKeyLifecycle, TLC

CONSTANTS c1, c2

\* Calls are interchangeable.
Symmetry == Permutations(Calls)
================================================================================
