----------------------------- MODULE MCRecovery -----------------------------
(* TLC instances of Recovery. *)
EXTENDS Recovery, TLC

DataSymmetry == Permutations(Txns) \cup Permutations(Keys) \cup Permutations(Vals)

=============================================================================
