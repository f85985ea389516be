---------------------------- MODULE MCPipelineDir ----------------------------
(* PipelineDir for TLC: the processes may be exchanged.                     *)
EXTENDS PipelineDir, TLC

MCOffered ==
  {[file |-> "orbs", key |-> k, removed |-> FALSE] : k \in Key} \cup
  {[file |-> "deps", key |-> k, removed |-> r] : k \in Key, r \in BOOLEAN}

\* Once every property has lost its premise there is nothing left to check.
Regular ==
  \/ seen \subseteq {"clash", "partial", "recovering"}
  \/ seen \subseteq {"overlap", "partial", "cut"}

\* The second of two faults is looked at where it hits a recovery or follows one,
\* and where it leaves a lock beside an unfinished snapshot.
LateFaults ==
  faults > 1 => "recovering" \in seen \/ (seen = {"partial"} /\ locked)

Symmetry == Permutations(Proc)
=============================================================================
