------------------------------ MODULE DepPromise -----------------------------
(***************************************************************************)
(* What the dependency store promises (README.md, "Add edge (rejects       *)
(* cycles on blocking edges)"; the doc comments of DepStore::add_edge and  *)
(* remove_edge): a set of edges, one call at a time, whose blocking edges  *)
(* never form a cycle.                                                     *)
(***************************************************************************)
EXTENDS DepGraph

CONSTANT Offered     \* the edges callers ask for

VARIABLE edges

Init == edges = {}

Add(e) ==
  /\ IsBlocking(e) => Acyclic(Arcs(edges \cup {e}))
  /\ edges' = edges \cup {e}

Remove(e) ==
  /\ e \in edges
  /\ edges' = edges \ {e}

Next == \E e \in Offered : Add(e) \/ Remove(e)

Spec == Init /\ [][Next]_edges
=============================================================================
