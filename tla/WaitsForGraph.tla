--------------------------- MODULE WaitsForGraph ---------------------------
(***************************************************************************)
(* What LockManager::HasCycle promises (lock_manager.h: "store the         *)
(* transaction id of the youngest transaction in the cycle ... and return  *)
(* true"), as a definition on a set of edges.                              *)
(***************************************************************************)
EXTENDS Naturals, FiniteSets

CONSTANT Txns     \* transaction ids; a larger id is a younger transaction

ASSUME TxnsAssumption == Txns \subseteq Nat /\ IsFiniteSet(Txns)

Edges == Txns \X Txns

Successors(edges, t) == {u \in Txns : <<t, u>> \in edges}

\* t lies on a cycle all of whose members are at most t: every set that has
\* t's successors and is closed under the edges contains t.
NewestOnCycle(edges, t) ==
  LET older == {e \in edges : e[1] <= t /\ e[2] <= t} IN
  \A S \in SUBSET Txns :
    (\A e \in older : e[1] \in S \cup {t} => e[2] \in S) => t \in S

\* The answers HasCycle may give; empty iff the graph has no cycle.
NewestNode(edges) ==
  {t \in Txns : /\ \E u \in Txns : NewestOnCycle(edges, u)
                /\ \E e \in edges : t \in {e[1], e[2]}
                /\ \A e \in edges : e[1] <= t /\ e[2] <= t}
Victims(edges) == {t \in Txns : NewestOnCycle(edges, t)}

=============================================================================
