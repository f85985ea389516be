------------------------------ MODULE MCDepStore -----------------------------
(***************************************************************************)
(* DepStore for TLC: two processes, three orbs, six edges between which    *)
(* both blocking types close cycles of one, two and three orbs.            *)
(***************************************************************************)
EXTENDS DepStore

CONSTANTS a, b, c

MCOffered ==
  {[from |-> a, to |-> b, type |-> "blocks"],
   [from |-> b, to |-> c, type |-> "blocks"],
   [from |-> a, to |-> c, type |-> "depends_on"],
   [from |-> a, to |-> b, type |-> "depends_on"],
   [from |-> c, to |-> c, type |-> "blocks"],
   [from |-> b, to |-> a, type |-> "related"]}

\* The two definitions of acyclicity agree on every graph of these orbs.
ASSUME AcyclicAssumption ==
  \A A \in SUBSET (OrbId \X OrbId) :
    Acyclic(A) <=> \A x \in OrbId : ~ OnCycle(A, x)
=============================================================================
