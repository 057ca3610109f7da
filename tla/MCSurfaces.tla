------------------------------ MODULE MCSurfaces ------------------------------
EXTENDS Surfaces, TLC

\* Requests, openers and windows have no order.
Symmetry == Permutations(Requests) \cup Permutations(Openers) \cup Permutations(Windows)
================================================================================
