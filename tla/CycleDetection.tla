--------------------------- MODULE CycleDetection --------------------------
(***************************************************************************)
(* LockManager::HasCycle, the depth-first search of the deadlock detector. *)
(* Module LockManager uses it through what it promises, the transactions   *)
(* of WaitsForGraph!Victims; here is the search itself, to be compared     *)
(* with that.  It holds latch_ all the time and is a function of the edges.*)
(***************************************************************************)
EXTENDS Integers, FiniteSets, FiniteSetsExt, SequencesExt

Invalid == -1     \* INVALID_TXN_ID

\* "nodes" and the neighbours are std::sets: they are visited in increasing order.
Ascending(S) ==
  [i \in 1 .. Cardinality(S) |-> CHOOSE x \in S : Cardinality({y \in S : y < x}) = i - 1]
Nodes(edges) == {e[1] : e \in edges} \cup {e[2] : e \in edges}
Neighbours(edges, node) == Ascending({e[2] : e \in {f \in edges : f[1] = node}})

\* s.color is dfs's "state": 0 new, 1 on the path, 2 finished.
NewestOfPath(path, next) == Max(Range(path))
NewestOfCycle(path, next) ==
  LET pos == CHOOSE i \in DOMAIN path : path[i] = next
  IN  Max({path[i] : i \in pos .. Len(path)})

RECURSIVE Dfs(_, _, _)
Dfs(edges, s, node) ==
  LET entered == [s EXCEPT !.color[node] = 1, !.path = Append(@, node)]
      Visit(r, next) ==
        IF r.found \/ r.color[next] = 2 THEN r
        ELSE IF r.color[next] = 0 THEN Dfs(edges, r, next)
        ELSE [r EXCEPT !.found = TRUE, !.newest = NewestOfCycle(r.path, next)]
      left == FoldLeft(Visit, entered, Neighbours(edges, node))
  IN  IF left.found THEN left
      ELSE [left EXCEPT !.path = Front(@), !.color[node] = 2]

HasCycle(edges) ==
  FoldLeft(LAMBDA s, node : IF s.found \/ s.color[node] # 0 THEN s ELSE Dfs(edges, s, node),
           [found |-> FALSE, newest |-> Invalid, path |-> <<>>,
            color |-> [t \in Nodes(edges) |-> 0]],
           Ascending(Nodes(edges)))

=============================================================================
