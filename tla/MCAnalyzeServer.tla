---------------------------- MODULE MCAnalyzeServer ----------------------------
(* Finite instances of AnalyzeServer for TLC. *)
EXTENDS AnalyzeServer, TLC

\* Requests in flight are interchangeable, and so are keys.
Symmetry == Permutations(Requests) \cup Permutations(Keys)
================================================================================
