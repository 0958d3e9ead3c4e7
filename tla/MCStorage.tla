----------------------------- MODULE MCStorage -----------------------------
(* TLC instance of Storage. *)
EXTENDS Storage, TLC

PoolSymmetry == Permutations(Frames) \cup Permutations(Clients)

=============================================================================
