--------------------------- MODULE MCLockManager ---------------------------
(* TLC instances of LockManager; the constants' values are in the .cfg files. *)
EXTENDS LockManager, TLC

Two   == {0, 1}
Three == {0, 1, 2}
Last  == {1}
Empty == {}

\* Rows are interchangeable: nothing orders them.
RowSymmetry == Permutations(Rows)

-----------------------------------------------------------------------------
(* The detector's search against what LockManager takes it to deliver. *)

Search == INSTANCE CycleDetection

Four == 0 .. 3
OfFour == INSTANCE WaitsForGraph WITH Txns <- Four

Delivers(edges, victims) ==
  LET answer == Search!HasCycle(edges)
  IN  IF answer.found THEN answer.newest \in victims ELSE victims = {}

DeliversOnEveryGraph ==
  \A edges \in SUBSET {e \in Four \X Four : e[1] # e[2]} : Delivers(edges, OfFour!Victims(edges))

\* HasCycle "should store the transaction id of the youngest transaction in the
\* cycle" and return true, or return false if there is none: on every graph of four
\* transactions, and on every graph that a pass of the detector builds and thins
\* out, so that no deadlock in the graph is overlooked because the search finished
\* a node too early, and nobody is aborted who is only behind a cycle.
SearchDelivers == DeliversOnEveryGraph /\ Delivers(waitsFor, Victims(waitsFor))

=============================================================================
