------------------------ MODULE MCMerchantSpendPolicy ------------------------
(* Finite instances of MerchantSpendPolicy for TLC. *)
EXTENDS MerchantSpendPolicy, TLC

\* Merchants are interchangeable, and so are sub-keys.
Symmetry == Permutations(Merchants) \cup Permutations(SubKeys)
================================================================================
