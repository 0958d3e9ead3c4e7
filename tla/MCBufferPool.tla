---------------------------- MODULE MCBufferPool ----------------------------
(* TLC instances of BufferPool. *)
EXTENDS BufferPool, TLC

PoolSymmetry == Permutations(Frames) \cup Permutations(Clients)

=============================================================================
