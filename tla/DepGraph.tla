------------------------------- MODULE DepGraph ------------------------------
(***************************************************************************)
(* Dependency edges and the directed graph the blocking ones span          *)
(* (src/dep.rs, and the adjacency that src/dep_store.rs builds in          *)
(* detect_cycle_with_new_edge, pipeline and compute_effective_priorities). *)
(***************************************************************************)

CONSTANT OrbId

EdgeType == {"blocks", "depends_on", "parent", "child", "related",
             "duplicates", "follows"}

\* An edge is its key; no reader looks at created_at.
Edge == [from : OrbId, to : OrbId, type : EdgeType]

IsBlocking(e) == e.type \in {"blocks", "depends_on"}

\* The scheduling arc of a blocking edge: <<x, y>> when x must be done before y.
Arc(e) == IF e.type = "blocks" THEN <<e.from, e.to>> ELSE <<e.to, e.from>>

Arcs(E) == {Arc(e) : e \in {b \in E : IsBlocking(b)}}

-----------------------------------------------------------------------------
(* Reachability and acyclicity, stated through sets so that both can be    *)
(* reasoned about without induction on paths.                              *)

Closed(A, C) == \A x, y \in OrbId : <<x, y>> \in A /\ x \in C => y \in C

\* y is in every set of orbs that contains x and is closed under the arcs.
Reaches(A, x, y) == \A C \in SUBSET OrbId : Closed(A, C) /\ x \in C => y \in C

\* Every nonempty set of orbs has a member that waits for no other member.
Acyclic(A) ==
  \A S \in SUBSET OrbId :
    S # {} => \E x \in S : \A y \in S : <<y, x>> \notin A

OnCycle(A, x) == \E y \in OrbId : <<x, y>> \in A /\ Reaches(A, y, x)
=============================================================================
