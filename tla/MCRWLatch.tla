----------------------------- MODULE MCRWLatch -----------------------------
(* TLC instances of RWLatch. *)
EXTENDS RWLatch

=============================================================================
